---------------------------- MODULE AccessProofs ----------------------------
(***************************************************************************)
(* Proofs about Access, for any apps, users, groups and tiers: the ledger  *)
(* agrees with the groups, nothing the reconciler wrote is left over, and  *)
(* it leaves alone what a hand wrote before it.                            *)
(***************************************************************************)
EXTENDS Access, TLAPS

\* The parts of TypeOK.
PeopleOK ==
    /\ users \subseteq User /\ apps \subseteq App
    /\ creator \in [App -> User \cup {NoUser}]
    /\ \A a \in App : creator[a] \in users \cup {NoUser}

DirectoryOK ==
    /\ groups \subseteq Group /\ inGroup \subseteq groups \X users
    /\ grants \in [Group -> [App -> Tier \cup {"none"}]]
    /\ \A g \in Group, a \in App : grants[g][a] # "none" => g \in groups /\ a \in apps

RowsOK ==
    /\ member \in [Pair -> Writer] /\ tierBy \in [Pair -> Writer]
    /\ tier \in [Pair -> Tier \cup {"none"}]
    /\ ledger \in [Pair -> Ledger]
    /\ \A p \in Pair : tier[p] = "none" <=> tierBy[p] = "none"
    /\ \A p \in Pair : p \notin apps \X users =>
          member[p] = "none" /\ tier[p] = "none" /\ ledger[p] = NoRow

HeldOK == held \subseteq apps \X users

BehindOK == behind \in BOOLEAN

\* What the flags of an open pair say about its rows.
FlagsOf(p) ==
    /\ ledger[p].tier = "none" => ledger[p] = NoRow
    /\ member[p] = "group" => ledger[p].madeMember
    /\ tierBy[p] = "group" => ledger[p].madeTier /\ tier[p] = ledger[p].tier
    /\ ledger[p].madeMember => member[p] # "hand"
    /\ ledger[p].madeTier => tierBy[p] # "hand"
    /\ ledger[p].madeMember /\ ~ledger[p].madeTier => p[2] = creator[p[1]]

Flags == \A p \in Pair : FlagsOf(p)

IInv == /\ PeopleOK /\ DirectoryOK /\ RowsOK /\ HeldOK /\ BehindOK
        /\ LedgerIsWanted /\ TierNeedsMember /\ Flags

-----------------------------------------------------------------------------
(* Helpers.                                                                *)

\* TypeOK is the sum of its parts.
LEMMA TypeParts == TypeOK <=> PeopleOK /\ DirectoryOK /\ RowsOK /\ HeldOK /\ BehindOK
BY DEF TypeOK, PeopleOK, DirectoryOK, RowsOK, HeldOK, BehindOK

\* What is wanted is a tier that some group offers, or none.
LEMMA WantedType ==
    DirectoryOK => \A p \in Pair :
        /\ Wanted(p) \in Tier \cup {"none"}
        /\ p \notin apps \X users => Wanted(p) = "none"
<1> SUFFICES ASSUME DirectoryOK, NEW p \in Pair
             PROVE  /\ Wanted(p) \in Tier \cup {"none"}
                    /\ p \notin apps \X users => Wanted(p) = "none"
  OBVIOUS
<1>1. p[1] \in App /\ p[2] \in User /\ p = <<p[1], p[2]>>
  BY DEF Pair
<1>2. Offers(p) \subseteq Tier
  <2>1. \A g \in Group : grants[g][p[1]] \in Tier \cup {"none"}
    BY <1>1 DEF DirectoryOK
  <2> QED BY <2>1 DEF Offers
<1>3. ASSUME Offers(p) # {}
      PROVE  \E t \in Offers(p) : \A o \in Offers(p) : Rank[o] <= Rank[t]
  <2>1. \A o \in Offers(p) : o \in {"user", "admin", "owner"}
    BY <1>2, AccessAssumption
  <2>2. CASE "owner" \in Offers(p)
    BY <2>1, <2>2 DEF Rank
  <2>3. CASE "owner" \notin Offers(p) /\ "admin" \in Offers(p)
    BY <2>1, <2>3 DEF Rank
  <2>4. CASE "owner" \notin Offers(p) /\ "admin" \notin Offers(p)
    BY <1>3, <2>1, <2>4 DEF Rank
  <2> QED BY <2>2, <2>3, <2>4
<1>4. Wanted(p) \in Tier \cup {"none"}
  BY <1>2, <1>3 DEF Wanted
<1>5. ASSUME p \notin apps \X users PROVE Offers(p) = {}
  <2>1. \A g \in Group : <<g, p[2]>> \in inGroup => p[2] \in users
    BY DEF DirectoryOK
  <2>2. \A g \in Group : grants[g][p[1]] # "none" => p[1] \in apps
    BY <1>1 DEF DirectoryOK
  <2> QED BY <1>1, <1>5, <2>1, <2>2 DEF Offers
<1> QED BY <1>4, <1>5 DEF Wanted

\* The same of the next state.
LEMMA WantedTypeNext ==
    (DirectoryOK => \A p \in Pair :
        /\ Wanted(p) \in Tier \cup {"none"}
        /\ p \notin apps \X users => Wanted(p) = "none")'
BY WantedType, PTL

\* A pair the groups' tables say the same of as before is wanted as before.
LEMMA WantedSame ==
    ASSUME NEW p \in Pair,
           \A g \in Group :
              /\ <<g, p[2]>> \in inGroup' <=> <<g, p[2]>> \in inGroup
              /\ grants'[g][p[1]] = grants[g][p[1]]
    PROVE  Wanted(p)' = Wanted(p)
<1>1. (Offers(p))' = Offers(p)
  BY DEF Offers
<1> QED BY <1>1 DEF Wanted

-----------------------------------------------------------------------------
(* The reconciler.                                                         *)

\* A row built from a tier and two flags.
LEMMA RowType ==
    ASSUME NEW t \in Tier \cup {"none"}, NEW m \in BOOLEAN, NEW o \in BOOLEAN,
           NEW r, r = [tier |-> t, madeMember |-> m, madeTier |-> o]
    PROVE  r \in Ledger /\ r.tier = t /\ r.madeMember = m /\ r.madeTier = o
BY DEF Ledger

\* Whatever the groups have become, the reconciler brings the rows into line.
LEMMA ReconcileKeeps ==
    ASSUME IInv, UNCHANGED people, DirectoryOK', Reconcile
    PROVE  /\ RowsOK' /\ LedgerIsWanted' /\ TierNeedsMember' /\ Flags'
           /\ \A p \in Pair :
                 /\ member[p] = "hand" => member'[p] = "hand"
                 /\ tierBy[p] = "hand" => tierBy'[p] = "hand" /\ tier'[p] = tier[p]
<1> USE DEF IInv
<1>1. PICK w : w = [p \in Pair |-> Wanted(p)'] /\ ReconcileTo(w)
  BY DEF Reconcile
<1>2. /\ w \in [Pair -> Tier \cup {"none"}]
      /\ \A p \in Pair : p \notin apps \X users => w[p] = "none"
  BY <1>1, WantedTypeNext DEF people
<1>3. \A p \in Pair : /\ ledger[p].madeMember \in BOOLEAN /\ ledger[p].madeTier \in BOOLEAN
                      /\ ledger[p] \in Ledger /\ member[p] \in Writer /\ tierBy[p] \in Writer
                      /\ tier[p] \in Tier \cup {"none"}
  BY DEF RowsOK, Ledger
<1>4. ASSUME NEW p \in Pair
      PROVE  /\ member'[p] \in Writer /\ tierBy'[p] \in Writer
             /\ tier'[p] \in Tier \cup {"none"} /\ ledger'[p] \in Ledger
             /\ ledger'[p].tier = w[p]
             /\ tier'[p] = "none" <=> tierBy'[p] = "none"
             /\ p \notin apps \X users =>
                   member'[p] = "none" /\ tier'[p] = "none" /\ ledger'[p] = NoRow
             /\ tier'[p] # "none" => member'[p] # "none" \/ p[2] = creator[p[1]]
             /\ FlagsOf(p)'
             /\ member[p] = "hand" => member'[p] = "hand"
             /\ tierBy[p] = "hand" => tierBy'[p] = "hand" /\ tier'[p] = tier[p]
  <2>1. /\ member'[p] = IF Released(w, p) /\ ledger[p].madeMember THEN "none"
                        ELSE IF Opened(w, p) /\ member[p] = "none" THEN "group" ELSE member[p]
        /\ tier'[p] = IF Released(w, p) /\ ledger[p].madeTier THEN "none"
                      ELSE IF TierWritten(w, p) THEN w[p] ELSE tier[p]
        /\ tierBy'[p] = IF Released(w, p) /\ ledger[p].madeTier THEN "none"
                        ELSE IF TierWritten(w, p) THEN "group" ELSE tierBy[p]
        /\ ledger'[p] = IF Released(w, p) THEN NoRow
                        ELSE IF Opened(w, p) THEN [tier       |-> w[p],
                                                   madeMember |-> member[p] = "none",
                                                   madeTier   |-> tier[p] = "none"]
                        ELSE IF Retiered(w, p) THEN [ledger[p] EXCEPT !.tier = w[p]]
                        ELSE ledger[p]
    BY <1>1 DEF ReconcileTo
  <2>2. /\ w[p] \in Tier \cup {"none"} /\ "none" \notin Tier
        /\ p \notin apps \X users => w[p] = "none"
    BY <1>2, AccessAssumption
  <2>3. /\ tier[p] = "none" <=> tierBy[p] = "none"
        /\ p \notin apps \X users =>
              member[p] = "none" /\ tier[p] = "none" /\ ledger[p] = NoRow
        /\ tier[p] # "none" => member[p] # "none" \/ p[2] = creator[p[1]]
        /\ FlagsOf(p)
    BY DEF RowsOK, TierNeedsMember, Flags
  <2>4. creator' = creator
    BY DEF people
  <2>5. CASE Released(w, p)
    <3>1. /\ ledger'[p] = NoRow /\ w[p] = "none" /\ ledger[p].tier # "none"
          /\ member'[p] = IF ledger[p].madeMember THEN "none" ELSE member[p]
          /\ tier'[p] = IF ledger[p].madeTier THEN "none" ELSE tier[p]
          /\ tierBy'[p] = IF ledger[p].madeTier THEN "none" ELSE tierBy[p]
      BY <2>1, <2>5 DEF Released, Opened, Retiered, TierWritten, Open
    <3>2. /\ NoRow \in Ledger /\ NoRow.tier = "none"
          /\ ~NoRow.madeMember /\ ~NoRow.madeTier
      BY DEF NoRow, Ledger
    <3>3. p \in apps \X users
      BY <2>3, <3>1, <3>2
    <3>4. member'[p] # "group" /\ tierBy'[p] # "group"
      BY <2>3, <3>1 DEF FlagsOf
    <3>5. tier'[p] # "none" => member'[p] # "none" \/ p[2] = creator[p[1]]
      BY <1>3, <2>3, <3>1 DEF FlagsOf
    <3>6. FlagsOf(p)'
      BY <3>1, <3>2, <3>4 DEF FlagsOf
    <3>7. /\ member[p] = "hand" => member'[p] = "hand"
          /\ tierBy[p] = "hand" => tierBy'[p] = "hand" /\ tier'[p] = tier[p]
      BY <2>3, <3>1 DEF FlagsOf
    <3>8. /\ member'[p] \in Writer /\ tierBy'[p] \in Writer
          /\ tier'[p] \in Tier \cup {"none"}
          /\ tier'[p] = "none" <=> tierBy'[p] = "none"
      BY <1>3, <2>3, <3>1 DEF Writer
    <3> QED BY <3>1, <3>2, <3>3, <3>5, <3>6, <3>7, <3>8
  <2>6. CASE Opened(w, p)
    <3>1. /\ ledger'[p] = [tier |-> w[p], madeMember |-> member[p] = "none",
                                         madeTier |-> tier[p] = "none"]
          /\ member'[p] = IF member[p] = "none" THEN "group" ELSE member[p]
          /\ tier'[p] = IF tier[p] = "none" THEN w[p] ELSE tier[p]
          /\ tierBy'[p] = IF tier[p] = "none" THEN "group" ELSE tierBy[p]
          /\ w[p] # "none" /\ ledger[p] = NoRow
      BY <2>1, <2>3, <2>6 DEF Released, Opened, Retiered, TierWritten, Open, FlagsOf
    <3>2. member[p] # "group" /\ tierBy[p] # "group"
      BY <2>3, <3>1 DEF FlagsOf, NoRow
    <3>3. /\ ledger'[p] \in Ledger /\ ledger'[p].tier = w[p]
          /\ ledger'[p].madeMember = (member[p] = "none")
          /\ ledger'[p].madeTier = (tier[p] = "none")
      <4> DEFINE m == member[p] = "none"
                 o == tier[p] = "none"
      <4>1. m \in BOOLEAN /\ o \in BOOLEAN
        OBVIOUS
      <4>2. ledger'[p] = [tier |-> w[p], madeMember |-> m, madeTier |-> o]
        BY <3>1
      <4>3. w[p] \in Tier \cup {"none"}
        BY <2>2
      <4>4. /\ ledger'[p] \in Ledger /\ ledger'[p].tier = w[p]
            /\ ledger'[p].madeMember = m /\ ledger'[p].madeTier = o
        <5> HIDE DEF m, o
        <5> QED BY <4>1, <4>2, <4>3, RowType
      <4> QED BY <4>4
    <3>4. p \in apps \X users /\ member'[p] # "none"
      BY <2>2, <3>1
    <3>5. /\ member'[p] \in Writer /\ tierBy'[p] \in Writer
          /\ tier'[p] \in Tier \cup {"none"}
          /\ tier'[p] = "none" <=> tierBy'[p] = "none"
      BY <1>3, <2>2, <2>3, <3>1 DEF Writer
    <3>6. FlagsOf(p)'
      BY <2>2, <2>3, <2>4, <3>1, <3>2, <3>3 DEF FlagsOf
    <3>7. /\ member[p] = "hand" => member'[p] = "hand"
          /\ tierBy[p] = "hand" => tierBy'[p] = "hand" /\ tier'[p] = tier[p]
      BY <2>3, <3>1
    <3> QED BY <3>3, <3>4, <3>5, <3>6, <3>7
  <2>7. CASE Retiered(w, p)
    <3>1. /\ ledger'[p] = [ledger[p] EXCEPT !.tier = w[p]]
          /\ member'[p] = member[p] /\ w[p] # "none" /\ ledger[p].tier # "none"
          /\ tier'[p] = IF ledger[p].madeTier /\ tier[p] # "none" THEN w[p] ELSE tier[p]
          /\ tierBy'[p] = IF ledger[p].madeTier /\ tier[p] # "none" THEN "group" ELSE tierBy[p]
      BY <2>1, <2>7 DEF Released, Opened, Retiered, TierWritten, Open
    <3>2. /\ ledger'[p] \in Ledger /\ ledger'[p].tier = w[p]
          /\ ledger'[p].madeMember = ledger[p].madeMember
          /\ ledger'[p].madeTier = ledger[p].madeTier
      BY <1>3, <2>2, <3>1 DEF Ledger
    <3>3. p \in apps \X users
      BY <2>2, <3>1
    <3> QED BY <1>3, <2>2, <2>3, <2>4, <3>1, <3>2, <3>3 DEF Writer, FlagsOf
  <2>8. CASE ~Released(w, p) /\ ~Opened(w, p) /\ ~Retiered(w, p)
    <3>1. /\ member'[p] = member[p] /\ tier'[p] = tier[p] /\ tierBy'[p] = tierBy[p]
          /\ ledger'[p] = ledger[p]
      BY <2>1, <2>8 DEF TierWritten
    <3>2. ledger[p].tier = w[p]
      BY <2>8 DEF Released, Opened, Retiered, Open
    <3> QED BY <1>3, <2>3, <2>4, <3>1, <3>2 DEF FlagsOf
  <2> QED BY <2>5, <2>6, <2>7, <2>8
<1>5. RowsOK'
  <2>1. /\ member' \in [Pair -> Writer] /\ tierBy' \in [Pair -> Writer]
        /\ tier' \in [Pair -> Tier \cup {"none"}] /\ ledger' \in [Pair -> Ledger]
    BY <1>1, <1>4 DEF ReconcileTo
  <2> QED BY <1>4, <2>1 DEF RowsOK, people
<1>6. LedgerIsWanted'
  BY <1>1, <1>4 DEF LedgerIsWanted
<1>7. TierNeedsMember' /\ Flags'
  BY <1>4 DEF TierNeedsMember, Flags, people
<1> QED BY <1>4, <1>5, <1>6, <1>7


\* The same, with what a group request leaves alone and the crash before it.
LEMMA RequestKeeps ==
    ASSUME IInv, UNCHANGED <<people, held>>, DirectoryOK', Settled
    PROVE  IInv' /\ \A p \in Pair :
              /\ member[p] = "hand" => member'[p] = "hand"
              /\ tierBy[p] = "hand" => tierBy'[p] = "hand" /\ tier'[p] = tier[p]
<1>1. UNCHANGED people /\ UNCHANGED held
  OBVIOUS
<1>2. PeopleOK' /\ HeldOK' /\ BehindOK'
  <2>1. PeopleOK' /\ HeldOK'
    BY <1>1 DEF IInv, PeopleOK, HeldOK, people
  <2>2. behind' = TRUE \/ behind' = FALSE
    BY Zenon DEF Settled
  <2> QED BY <2>1, <2>2, Zenon DEF BehindOK
<1>3. CASE Reconcile
  <2>1. /\ RowsOK' /\ LedgerIsWanted' /\ TierNeedsMember' /\ Flags'
        /\ \A p \in Pair :
              /\ member[p] = "hand" => member'[p] = "hand"
              /\ tierBy[p] = "hand" => tierBy'[p] = "hand" /\ tier'[p] = tier[p]
    BY <1>1, <1>3, ReconcileKeeps
  <2> QED BY <1>2, <2>1 DEF IInv
<1>4. CASE UNCHANGED <<access, ledger>> /\ behind' = TRUE
  <2>1. /\ users' = users /\ apps' = apps /\ creator' = creator /\ ledger' = ledger
        /\ member' = member /\ tier' = tier /\ tierBy' = tierBy
    BY <1>1, <1>4 DEF people, access
  <2>2. RowsOK' /\ TierNeedsMember' /\ Flags'
    BY <2>1 DEF IInv, RowsOK, TierNeedsMember, Flags, FlagsOf
  <2>3. LedgerIsWanted'
    BY <1>4, Zenon DEF LedgerIsWanted
  <2> QED BY <1>2, <2>1, <2>2, <2>3 DEF IInv
<1> QED BY <1>3, <1>4, Zenon DEF Settled

\* Every group request keeps the invariant and the direct rows.
LEMMA GroupKeeps ==
    ASSUME IInv, GroupStep
    PROVE  IInv' /\ \A p \in Pair :
              /\ member[p] = "hand" => member'[p] = "hand"
              /\ tierBy[p] = "hand" => tierBy'[p] = "hand" /\ tier'[p] = tier[p]
<1>1. DirectoryOK /\ PeopleOK
  BY DEF IInv
<1>2. ASSUME NEW g \in Group, NEW M \in SUBSET User, PostGroup(g, M)
      PROVE  UNCHANGED <<people, held>> /\ DirectoryOK' /\ Settled
  BY <1>1, <1>2 DEF PostGroup, DirectoryOK, people
<1>3. ASSUME NEW g \in Group, NEW M \in SUBSET User, PutGroup(g, M)
      PROVE  UNCHANGED <<people, held>> /\ DirectoryOK' /\ Settled
  BY <1>1, <1>3 DEF PutGroup, DirectoryOK, people
<1>4. ASSUME NEW g \in Group, NEW plus, NEW minus, PatchGroup(g, plus, minus)
      PROVE  UNCHANGED <<people, held>> /\ DirectoryOK' /\ Settled
  BY <1>1, <1>4 DEF PatchGroup, DirectoryOK, people
<1>5. ASSUME NEW g \in Group, DeleteGroup(g)
      PROVE  UNCHANGED <<people, held>> /\ DirectoryOK' /\ Settled
  <2>1. inGroup' \subseteq groups' \X users'
    <3> SUFFICES ASSUME NEW h \in groups, NEW u \in users, <<h, u>> \in inGroup'
                 PROVE  h # g
      BY <1>1, <1>5 DEF DeleteGroup, DirectoryOK, people
    <3> QED BY <1>1, <1>5 DEF DeleteGroup, PeopleOK
  <2>2. grants' \in [Group -> [App -> Tier \cup {"none"}]]
    BY <1>1, <1>5 DEF DeleteGroup, DirectoryOK
  <2>3. \A h \in Group, a \in App : grants'[h][a] # "none" => h \in groups' /\ a \in apps'
    BY <1>1, <1>5 DEF DeleteGroup, DirectoryOK, people
  <2> QED BY <1>1, <1>5, <2>1, <2>2, <2>3 DEF DeleteGroup, DirectoryOK
<1>6. ASSUME NEW g \in Group, NEW m \in [App -> Tier \cup {"none"}], MapApps(g, m)
      PROVE  UNCHANGED <<people, held>> /\ DirectoryOK' /\ Settled
  <2>1. grants' \in [Group -> [App -> Tier \cup {"none"}]]
    BY <1>1, <1>6 DEF MapApps, DirectoryOK
  <2>2. \A h \in Group, a \in App : grants'[h][a] # "none" => h \in groups' /\ a \in apps'
    BY <1>1, <1>6 DEF MapApps, DirectoryOK, people
  <2> QED BY <1>1, <1>6, <2>1, <2>2 DEF MapApps, DirectoryOK, people
<1>7. UNCHANGED <<people, held>> /\ DirectoryOK' /\ Settled
  BY <1>2, <1>3, <1>4, <1>5, <1>6 DEF GroupStep
<1> QED BY <1>7, RequestKeeps

-----------------------------------------------------------------------------
(* Hands.                                                                  *)

\* While the directory stays, the groups want what they wanted.
LEMMA WantedStays ==
    ASSUME UNCHANGED directory
    PROVE  \A p \in Pair : Wanted(p)' = Wanted(p)
BY WantedSame DEF directory

\* Then a ledger that agreed with them does so still.
LEMMA LedgerStays ==
    ASSUME UNCHANGED directory, ledger' = ledger, LedgerIsWanted
    PROVE  LedgerIsWanted'
<1>1. behind' = behind
  BY Zenon DEF directory
<1>2. ASSUME ~behind'
      PROVE  \A p \in Pair : ledger'[p].tier = Wanted(p)'
  <2>1. \A p \in Pair : ledger[p].tier = Wanted(p)
    BY <1>1, <1>2, Zenon DEF LedgerIsWanted
  <2> QED BY <2>1, WantedStays
<1> QED BY <1>2, Zenon DEF LedgerIsWanted

\* A hand that writes rows of existing pairs keeps the invariant when, pair by
\* pair, its writing is marked as a hand's and no tier outlives its membership.
LEMMA WritingKeeps ==
    ASSUME IInv, UNCHANGED <<people, directory, ledger>>,
           member' \in [Pair -> Writer], tierBy' \in [Pair -> Writer],
           tier' \in [Pair -> Tier \cup {"none"}],
           \A p \in Pair :
              /\ tier'[p] = "none" <=> tierBy'[p] = "none"
              /\ p \notin apps \X users => member'[p] = "none" /\ tier'[p] = "none"
              /\ tier'[p] # "none" => member'[p] # "none" \/ p[2] = creator[p[1]]
              /\ member'[p] \in {member[p], "none", ByHand(member[p], p)}
              /\ \/ tierBy'[p] = tierBy[p] /\ tier'[p] = tier[p]
                 \/ tierBy'[p] \in {"none", ByHand(tierBy[p], p)}
    PROVE  /\ PeopleOK' /\ DirectoryOK' /\ RowsOK' /\ BehindOK'
           /\ LedgerIsWanted' /\ TierNeedsMember' /\ Flags'
<1>1. /\ UNCHANGED <<users, apps, creator>> /\ UNCHANGED <<groups, inGroup, grants>>
      /\ ledger' = ledger
  BY DEF people, directory
<1>2. PeopleOK' /\ DirectoryOK' /\ BehindOK'
  <2>1. BehindOK'
    BY Zenon DEF IInv, BehindOK, directory
  <2> QED BY <1>1, <2>1 DEF IInv, PeopleOK, DirectoryOK
<1>3. RowsOK'
  BY <1>1 DEF IInv, RowsOK
<1>4. LedgerIsWanted'
  BY <1>1, LedgerStays DEF IInv
<1>5. TierNeedsMember'
  BY <1>1 DEF TierNeedsMember
<1>6. ASSUME NEW p \in Pair PROVE FlagsOf(p)'
  <2>1. FlagsOf(p) /\ tierBy[p] \in Writer /\ member[p] \in Writer
    BY DEF IInv, Flags, RowsOK
  <2>2. ~Open(p) => ~ledger[p].madeMember /\ ~ledger[p].madeTier
    BY <2>1 DEF Open, FlagsOf, NoRow
  <2> QED BY <1>1, <2>1, <2>2 DEF FlagsOf, ByHand
<1> QED BY <1>2, <1>3, <1>4, <1>5, <1>6 DEF Flags

\* Giving a tier.
LEMMA GiveKeeps ==
    ASSUME IInv, NEW p \in apps \X users, p \in Pair, NEW t \in Tier, GiveTier(p, t)
    PROVE  IInv'
<1>1. /\ RowsOK /\ HeldOK /\ t # "none"
      /\ ByHand(tierBy[p], p) \in Writer \ {"none"} /\ ByHand(member[p], p) \in Writer \ {"none"}
  BY AccessAssumption DEF IInv, ByHand, Writer
<1>2. /\ member' \in [Pair -> Writer] /\ tierBy' \in [Pair -> Writer]
      /\ tier' \in [Pair -> Tier \cup {"none"}]
  BY <1>1 DEF GiveTier, RowsOK
<1>3. ASSUME NEW q \in Pair
      PROVE  /\ tier'[q] = "none" <=> tierBy'[q] = "none"
             /\ q \notin apps \X users => member'[q] = "none" /\ tier'[q] = "none"
             /\ tier'[q] # "none" => member'[q] # "none" \/ q[2] = creator[q[1]]
             /\ member'[q] \in {member[q], "none", ByHand(member[q], q)}
             /\ \/ tierBy'[q] = tierBy[q] /\ tier'[q] = tier[q]
                \/ tierBy'[q] \in {"none", ByHand(tierBy[q], q)}
  <2>1. CASE q = p
    BY <1>1, <2>1 DEF GiveTier, RowsOK
  <2>2. CASE q # p
    BY <1>1, <2>2 DEF GiveTier, RowsOK, IInv, TierNeedsMember
  <2> QED BY <2>1, <2>2
<1>4. UNCHANGED <<people, directory, ledger>> /\ HeldOK'
  BY <1>1 DEF GiveTier, HeldOK, people
<1> QED BY <1>2, <1>3, <1>4, WritingKeeps DEF IInv

\* Taking everything away.
LEMMA TakeKeeps ==
    ASSUME IInv, NEW p \in Pair, TakeAway(p)
    PROVE  IInv'
<1>1. RowsOK /\ HeldOK
  BY DEF IInv
<1>2. /\ member' \in [Pair -> Writer] /\ tierBy' \in [Pair -> Writer]
      /\ tier' \in [Pair -> Tier \cup {"none"}]
  BY <1>1 DEF TakeAway, RowsOK, Writer
<1>3. ASSUME NEW q \in Pair
      PROVE  /\ tier'[q] = "none" <=> tierBy'[q] = "none"
             /\ q \notin apps \X users => member'[q] = "none" /\ tier'[q] = "none"
             /\ tier'[q] # "none" => member'[q] # "none" \/ q[2] = creator[q[1]]
             /\ member'[q] \in {member[q], "none", ByHand(member[q], q)}
             /\ \/ tierBy'[q] = tierBy[q] /\ tier'[q] = tier[q]
                \/ tierBy'[q] \in {"none", ByHand(tierBy[q], q)}
  BY <1>1 DEF TakeAway, RowsOK, IInv, TierNeedsMember
<1>4. UNCHANGED <<people, directory, ledger>> /\ HeldOK'
  BY <1>1 DEF TakeAway, HeldOK, people
<1> QED BY <1>2, <1>3, <1>4, WritingKeeps DEF IInv

\* The members of an app are replaced.
LEMMA AssignKeeps ==
    ASSUME IInv, NEW a \in App, NEW U \in SUBSET User, AssignUsers(a, U)
    PROVE  IInv'
<1>1. /\ RowsOK /\ HeldOK
      /\ \A p \in Pair : p[1] \in App /\ p[2] \in User /\ p = <<p[1], p[2]>>
  BY DEF IInv, Pair
<1>2. \A p \in Pair : ByHand(member[p], p) \in Writer \ {"none"}
  BY DEF ByHand, Writer
<1>3. /\ member' \in [Pair -> Writer] /\ tierBy' \in [Pair -> Writer]
      /\ tier' \in [Pair -> Tier \cup {"none"}]
  BY <1>1, <1>2 DEF AssignUsers, RowsOK, Writer
<1>4. ASSUME NEW p \in Pair
      PROVE  /\ tier'[p] = "none" <=> tierBy'[p] = "none"
             /\ p \notin apps \X users => member'[p] = "none" /\ tier'[p] = "none"
             /\ tier'[p] # "none" => member'[p] # "none" \/ p[2] = creator[p[1]]
             /\ member'[p] \in {member[p], "none", ByHand(member[p], p)}
             /\ \/ tierBy'[p] = tierBy[p] /\ tier'[p] = tier[p]
                \/ tierBy'[p] \in {"none", ByHand(tierBy[p], p)}
  <2>1. CASE p[1] = a /\ p[2] \in U
    <3>1. p \in apps \X users
      BY <1>1, <2>1 DEF AssignUsers
    <3>2. member'[p] = ByHand(member[p], p) /\ tier'[p] = tier[p] /\ tierBy'[p] = tierBy[p]
      BY <2>1 DEF AssignUsers
    <3> QED BY <1>1, <1>2, <3>1, <3>2 DEF RowsOK
  <2>2. CASE p[1] = a /\ p[2] \notin U
    BY <1>1, <2>2 DEF AssignUsers, RowsOK
  <2>3. CASE p[1] # a
    BY <1>1, <2>3 DEF AssignUsers, RowsOK, IInv, TierNeedsMember
  <2> QED BY <2>1, <2>2, <2>3
<1>5. UNCHANGED <<people, directory, ledger>> /\ HeldOK'
  BY <1>1 DEF AssignUsers, HeldOK, people
<1> QED BY <1>3, <1>4, <1>5, WritingKeeps DEF IInv

\* The roles an app defines say nothing about membership or tier.
LEMMA HeldKeeps ==
    ASSUME IInv, UNCHANGED <<people, directory, access, ledger>>, HeldOK'
    PROVE  IInv'
<1>1. /\ users' = users /\ apps' = apps /\ creator' = creator
      /\ groups' = groups /\ inGroup' = inGroup /\ grants' = grants
      /\ member' = member /\ tier' = tier /\ tierBy' = tierBy /\ ledger' = ledger
  BY DEF people, directory, access
<1>2. PeopleOK' /\ DirectoryOK' /\ RowsOK' /\ TierNeedsMember' /\ Flags'
  BY <1>1 DEF IInv, PeopleOK, DirectoryOK, RowsOK, TierNeedsMember, Flags, FlagsOf
<1>3. LedgerIsWanted'
  BY <1>1, LedgerStays DEF IInv
<1>4. BehindOK'
  BY Zenon DEF IInv, BehindOK, directory
<1> QED BY <1>2, <1>3, <1>4 DEF IInv

\* A new app has no rows but its owner's.
LEMMA CreateKeeps ==
    ASSUME IInv, NEW a \in App, NEW u \in User, CreateApp(a, u)
    PROVE  IInv'
<1>1. /\ PeopleOK /\ DirectoryOK /\ RowsOK /\ HeldOK /\ <<a, u>> \in Pair
      /\ a \notin apps /\ u \in users /\ apps' = apps \cup {a} /\ users' = users
      /\ creator' = [creator EXCEPT ![a] = u]
      /\ groups' = groups /\ inGroup' = inGroup /\ grants' = grants
      /\ ledger' = ledger /\ held' = held
  BY DEF IInv, CreateApp, directory, Pair
<1>2. PeopleOK' /\ DirectoryOK' /\ HeldOK'
  BY <1>1 DEF PeopleOK, DirectoryOK, HeldOK
<1>3. /\ member' \in [Pair -> Writer] /\ tierBy' \in [Pair -> Writer]
      /\ tier' \in [Pair -> Tier \cup {"none"}]
  BY <1>1, AccessAssumption DEF CreateApp, RowsOK, Writer
<1>4. ASSUME NEW p \in Pair
      PROVE  /\ tier'[p] = "none" <=> tierBy'[p] = "none"
             /\ p \notin apps' \X users' =>
                   member'[p] = "none" /\ tier'[p] = "none" /\ ledger'[p] = NoRow
             /\ tier'[p] # "none" => member'[p] # "none" \/ p[2] = creator'[p[1]]
             /\ FlagsOf(p)'
  <2>1. p[1] \in App /\ p[2] \in User /\ p = <<p[1], p[2]>>
    BY DEF Pair
  <2>2. CASE p[1] # a
    BY <1>1, <2>1, <2>2 DEF CreateApp, RowsOK, IInv, TierNeedsMember, PeopleOK, Flags, FlagsOf
  <2>3. CASE p[1] = a
    <3>1. ledger'[p] = NoRow /\ member[p] = "none" /\ tier[p] = "none" /\ tierBy[p] = "none"
      BY <1>1, <2>1, <2>3 DEF RowsOK
    <3>2. CASE p = <<a, u>>
      BY <1>1, <3>1, <3>2, AccessAssumption DEF CreateApp, RowsOK, NoRow, FlagsOf
    <3>3. CASE p # <<a, u>>
      BY <1>1, <3>1, <3>3 DEF CreateApp, RowsOK, NoRow, FlagsOf
    <3> QED BY <3>2, <3>3
  <2> QED BY <2>2, <2>3
<1>5. RowsOK'
  BY <1>1, <1>3, <1>4 DEF RowsOK
<1>6. LedgerIsWanted'
  BY <1>1, LedgerStays DEF IInv, CreateApp
<1>7. BehindOK'
  BY Zenon DEF IInv, BehindOK, CreateApp, directory
<1> QED BY <1>2, <1>4, <1>5, <1>6, <1>7 DEF IInv, TierNeedsMember, Flags

\* What goes with a user or an app goes from every table.
LEMMA CascadeKeeps ==
    ASSUME IInv, NEW gone \in SUBSET Pair, Cascade(gone), PeopleOK', DirectoryOK',
           behind' = behind,
           \A p \in gone : p \notin apps' \X users',
           \A p \in Pair \ gone :
              /\ p \in apps' \X users' <=> p \in apps \X users
              /\ p[2] = creator[p[1]] => p[2] = creator'[p[1]]
              /\ Wanted(p)' = Wanted(p)
    PROVE  IInv'
<1>1. RowsOK /\ HeldOK /\ PeopleOK
  BY DEF IInv
<1>2. HeldOK'
  <2>1. \A p \in held : p \in Pair /\ p \in apps \X users
    BY <1>1 DEF HeldOK, PeopleOK, Pair
  <2> QED BY <2>1 DEF Cascade, HeldOK
<1>3. NoRow \in Ledger /\ NoRow.tier = "none" /\ ~NoRow.madeMember /\ ~NoRow.madeTier
  BY DEF NoRow, Ledger
<1>4. /\ member' \in [Pair -> Writer] /\ tierBy' \in [Pair -> Writer]
      /\ tier' \in [Pair -> Tier \cup {"none"}] /\ ledger' \in [Pair -> Ledger]
  BY <1>1, <1>3 DEF Cascade, RowsOK, Writer
<1>5. ASSUME NEW p \in gone
      PROVE  /\ member'[p] = "none" /\ tier'[p] = "none" /\ tierBy'[p] = "none"
             /\ ledger'[p] = NoRow /\ Wanted(p)' = "none"
  BY WantedTypeNext DEF Cascade
<1>6. ASSUME NEW p \in Pair \ gone
      PROVE  /\ member'[p] = member[p] /\ tier'[p] = tier[p] /\ tierBy'[p] = tierBy[p]
             /\ ledger'[p] = ledger[p]
  BY DEF Cascade
<1>7. RowsOK'
  BY <1>1, <1>4, <1>5, <1>6 DEF RowsOK
<1>8. LedgerIsWanted' /\ BehindOK'
  <2>1. ASSUME ~behind'
        PROVE  \A p \in Pair : ledger'[p].tier = Wanted(p)'
    <3>1. \A p \in Pair : ledger[p].tier = Wanted(p)
      BY <2>1, Zenon DEF IInv, LedgerIsWanted
    <3> QED BY <1>3, <1>5, <1>6, <3>1
  <2>2. BehindOK'
    BY Zenon DEF IInv, BehindOK
  <2> QED BY <2>1, <2>2, Zenon DEF LedgerIsWanted
<1>9. TierNeedsMember'
  BY <1>5, <1>6 DEF IInv, TierNeedsMember
<1>10. ASSUME NEW p \in Pair PROVE FlagsOf(p)'
  <2>1. CASE p \in gone
    BY <1>3, <1>5, <2>1 DEF FlagsOf
  <2>2. CASE p \notin gone
    BY <1>6, <2>2 DEF IInv, Flags, FlagsOf
  <2> QED BY <2>1, <2>2
<1> QED BY <1>2, <1>7, <1>8, <1>9, <1>10 DEF IInv, Flags

\* A user goes, with what is about them.
LEMMA UserGone ==
    ASSUME IInv, NEW u \in User, ScimDeleteUser(u) \/ DeleteUser(u)
    PROVE  IInv'
<1>1. /\ PeopleOK /\ DirectoryOK /\ Cascade(App \X {u})
      /\ users' = users \ {u} /\ inGroup' = inGroup \ (Group \X {u})
      /\ apps' = apps /\ groups' = groups /\ grants' = grants
      /\ \A a \in App : creator[a] # u => creator'[a] = creator[a]
      /\ \A a \in App : creator[a] = u => creator'[a] = NoUser
      /\ creator' \in [App -> User \cup {NoUser}]
  BY DEF IInv, ScimDeleteUser, DeleteUser, PeopleOK
<1>2. PeopleOK'
  BY <1>1 DEF PeopleOK
<1>3. DirectoryOK'
  <2>1. inGroup' \subseteq groups' \X users'
    <3> SUFFICES ASSUME NEW g \in groups, NEW v \in users, <<g, v>> \in inGroup'
                 PROVE  v # u
      BY <1>1 DEF DirectoryOK
    <3> QED BY <1>1 DEF DirectoryOK
  <2> QED BY <1>1, <2>1 DEF DirectoryOK
<1>4. \A p \in Pair : p[1] \in App /\ p[2] \in User /\ p = <<p[1], p[2]>>
  BY DEF Pair
<1>5. ASSUME NEW p \in Pair \ (App \X {u})
      PROVE  /\ p \in apps' \X users' <=> p \in apps \X users
             /\ p[2] = creator[p[1]] => p[2] = creator'[p[1]]
             /\ Wanted(p)' = Wanted(p)
  <2>1. p[2] # u
    BY <1>4
  <2>2. \A g \in Group : /\ <<g, p[2]>> \in inGroup' <=> <<g, p[2]>> \in inGroup
                         /\ grants'[g][p[1]] = grants[g][p[1]]
    BY <1>1, <2>1
  <2>3. Wanted(p)' = Wanted(p)
    BY <2>2, WantedSame
  <2> QED BY <1>1, <1>4, <2>1, <2>3
<1>6. App \X {u} \in SUBSET Pair
  BY DEF Pair
<1>7. \A p \in App \X {u} : p \notin apps' \X users'
  BY <1>1
<1>8. behind' = behind
  BY Zenon DEF ScimDeleteUser, DeleteUser
<1> QED BY <1>1, <1>2, <1>3, <1>5, <1>6, <1>7, <1>8, CascadeKeeps

\* An app goes, with what is about it.
LEMMA AppGone ==
    ASSUME IInv, NEW a \in App, DeleteApp(a)
    PROVE  IInv'
<1>1. /\ PeopleOK /\ DirectoryOK /\ Cascade({a} \X User)
      /\ apps' = apps \ {a} /\ creator' = [creator EXCEPT ![a] = NoUser]
      /\ grants' = [g \in Group |-> [grants[g] EXCEPT ![a] = "none"]]
      /\ users' = users /\ groups' = groups /\ inGroup' = inGroup
  BY DEF IInv, DeleteApp
<1>2. PeopleOK'
  BY <1>1 DEF PeopleOK
<1>3. \A g \in Group : /\ grants'[g] \in [App -> Tier \cup {"none"}]
                       /\ \A b \in App : grants'[g][b] = IF b = a THEN "none" ELSE grants[g][b]
  BY <1>1 DEF DirectoryOK
<1>4. DirectoryOK'
  <2>1. grants' \in [Group -> [App -> Tier \cup {"none"}]]
    BY <1>1, <1>3
  <2> QED BY <1>1, <1>3, <2>1 DEF DirectoryOK
<1>5. \A p \in Pair : p[1] \in App /\ p[2] \in User /\ p = <<p[1], p[2]>>
  BY DEF Pair
<1>6. ASSUME NEW p \in Pair \ ({a} \X User)
      PROVE  /\ p \in apps' \X users' <=> p \in apps \X users
             /\ p[2] = creator[p[1]] => p[2] = creator'[p[1]]
             /\ Wanted(p)' = Wanted(p)
  <2>1. p[1] # a
    BY <1>5
  <2>2. Wanted(p)' = Wanted(p)
    BY <1>1, <1>3, <1>5, <2>1, WantedSame
  <2> QED BY <1>1, <1>5, <2>1, <2>2 DEF PeopleOK
<1>7. {a} \X User \in SUBSET Pair /\ \A p \in {a} \X User : p \notin apps' \X users'
  BY <1>1 DEF Pair
<1>8. behind' = behind
  BY Zenon DEF DeleteApp
<1> QED BY <1>1, <1>2, <1>4, <1>6, <1>7, <1>8, CascadeKeeps

\* The start of the server promotes creators.
LEMMA BootKeeps ==
    ASSUME IInv, Boot
    PROVE  IInv'
<1>1. RowsOK /\ HeldOK /\ PeopleOK
  BY DEF IInv
<1>2. \A p \in Pair : ByHand("none", p) \in Writer \ {"none"}
  BY DEF ByHand, Writer
<1>3. \A p \in Pair : Promoted(p) => /\ p \in apps \X users /\ p[2] = creator[p[1]]
                                     /\ tier[p] = "none" /\ tierBy[p] = "none"
  BY <1>1, AccessAssumption DEF Promoted, PeopleOK, RowsOK, Pair
<1>4. /\ member' \in [Pair -> Writer] /\ tierBy' \in [Pair -> Writer]
      /\ tier' \in [Pair -> Tier \cup {"none"}] /\ member' = member
  BY <1>1, <1>2, AccessAssumption DEF Boot, RowsOK
<1>5. ASSUME NEW p \in Pair
      PROVE  /\ tier'[p] = "none" <=> tierBy'[p] = "none"
             /\ p \notin apps \X users => member'[p] = "none" /\ tier'[p] = "none"
             /\ tier'[p] # "none" => member'[p] # "none" \/ p[2] = creator[p[1]]
             /\ member'[p] \in {member[p], "none", ByHand(member[p], p)}
             /\ \/ tierBy'[p] = tierBy[p] /\ tier'[p] = tier[p]
                \/ tierBy'[p] \in {"none", ByHand(tierBy[p], p)}
  <2>1. CASE Promoted(p)
    <3>1. tier'[p] = "owner" /\ tierBy'[p] = ByHand("none", p) /\ member'[p] = member[p]
      BY <1>4, <2>1 DEF Boot
    <3> QED BY <1>2, <1>3, <2>1, <3>1, AccessAssumption DEF ByHand
  <2>2. CASE ~Promoted(p)
    BY <1>1, <1>4, <2>2 DEF Boot, RowsOK, IInv, TierNeedsMember
  <2> QED BY <2>1, <2>2
<1>6. UNCHANGED <<people, directory, ledger>> /\ HeldOK'
  BY <1>1 DEF Boot, HeldOK, people
<1> QED BY <1>4, <1>5, <1>6, WritingKeeps DEF IInv

\* Every request by hand keeps the invariant.
LEMMA HandKeeps ==
    ASSUME IInv, HandStep
    PROVE  IInv'
<1>1. ASSUME NEW p \in Pair, NEW t \in Tier \cup {"none"}, SetRole(p, t) PROVE IInv'
  BY <1>1, GiveKeeps, TakeKeeps DEF SetRole
<1>2. ASSUME NEW p \in Pair, NEW t \in Tier, GrantAccess(p, t) PROVE IInv'
  BY <1>2, GiveKeeps DEF GrantAccess
<1>3. ASSUME NEW p \in Pair, RevokeAccess(p) PROVE IInv'
  BY <1>3, TakeKeeps DEF RevokeAccess
<1>4. ASSUME NEW p \in Pair, NEW on \in BOOLEAN, SetAppRole(p, on) PROVE IInv'
  <2>1. HeldOK'
    BY <1>4 DEF SetAppRole, IInv, HeldOK, people
  <2> QED BY <1>4, <2>1, HeldKeeps DEF SetAppRole
<1>5. ASSUME NEW a \in App, NEW U \in SUBSET User, AssignUsers(a, U) PROVE IInv'
  BY <1>5, AssignKeeps
<1>6. ASSUME NEW a \in App, DeleteAppRole(a) PROVE IInv'
  <2>1. HeldOK'
    BY <1>6 DEF DeleteAppRole, IInv, HeldOK, people
  <2> QED BY <1>6, <2>1, HeldKeeps DEF DeleteAppRole
<1>7. ASSUME NEW a \in App, DeleteApp(a) PROVE IInv'
  BY <1>7, AppGone
<1>8. ASSUME NEW a \in App, NEW u \in User, CreateApp(a, u) PROVE IInv'
  BY <1>8, CreateKeeps
<1>9. ASSUME NEW u \in User, ScimDeleteUser(u) \/ DeleteUser(u) PROVE IInv'
  BY <1>9, UserGone
<1> QED BY <1>1, <1>2, <1>3, <1>4, <1>5, <1>6, <1>7, <1>8, <1>9 DEF HandStep

-----------------------------------------------------------------------------
(* The invariant and its theorems.                                         *)

\* The first installation satisfies the invariant.
LEMMA InitLemma == Init => IInv
<1> SUFFICES ASSUME Init PROVE IInv
  OBVIOUS
<1>1. PeopleOK /\ HeldOK /\ DirectoryOK /\ BehindOK
  BY DEF Init, PeopleOK, HeldOK, DirectoryOK, BehindOK
<1>2. NoRow \in Ledger /\ NoRow.tier = "none" /\ ~NoRow.madeMember /\ ~NoRow.madeTier
  BY DEF NoRow, Ledger
<1>3. RowsOK
  BY <1>2 DEF Init, RowsOK, Writer
<1>4. \A p \in Pair : Wanted(p) = "none"
  BY DEF Init, Wanted, Offers
<1>5. LedgerIsWanted /\ TierNeedsMember
  BY <1>2, <1>4 DEF Init, LedgerIsWanted, TierNeedsMember
<1>6. Flags
  BY <1>2 DEF Init, Flags, FlagsOf
<1> QED BY <1>1, <1>3, <1>5, <1>6 DEF IInv

\* Every step keeps it.
LEMMA NextLemma == IInv /\ [Next]_vars => IInv'
<1> SUFFICES ASSUME IInv, [Next]_vars PROVE IInv'
  OBVIOUS
<1>1. CASE GroupStep
  BY <1>1, GroupKeeps
<1>2. CASE HandStep
  BY <1>2, HandKeeps
<1>3. CASE Boot
  BY <1>3, BootKeeps
<1>4. CASE UNCHANGED vars
  <2>1. UNCHANGED <<people, directory, access, ledger>> /\ HeldOK'
    BY <1>4 DEF vars, IInv, HeldOK, people
  <2> QED BY <2>1, HeldKeeps
<1> QED BY <1>1, <1>2, <1>3, <1>4 DEF Next

\* The inductive invariant of the permission tables.
THEOREM InvariantHolds == Spec => []IInv
<1>1. Init => IInv
  BY InitLemma
<1>2. IInv /\ [Next]_vars => IInv'
  BY NextLemma
<1> QED BY <1>1, <1>2, PTL DEF Spec

\* Every row refers to rows that exist, whatever is deleted and in which order.
THEOREM TypeTheorem == Spec => []TypeOK
<1>1. IInv => TypeOK
  BY TypeParts DEF IInv
<1> QED BY <1>1, InvariantHolds, PTL

\* After every request the ledger of the reconciler says what the groups want,
\* also after the deletions that never call it, and after the first whole group
\* request that follows a crash.
THEOREM LedgerTheorem == Spec => []LedgerIsWanted
<1>1. IInv => LedgerIsWanted
  BY DEF IInv
<1> QED BY <1>1, InvariantHolds, PTL

\* What the reconciler wrote is gone with the last group that wanted it, and is
\* the tier the groups want until then.
THEOREM LeftoverTheorem == Spec => []NoGroupLeftovers
<1>1. IInv => NoGroupLeftovers
  <2> SUFFICES ASSUME IInv, ~behind, NEW p \in Pair
               PROVE  /\ member[p] = "group" => Wanted(p) # "none"
                      /\ tierBy[p] = "group" => tier[p] = Wanted(p)
    BY Zenon DEF NoGroupLeftovers
  <2>1. FlagsOf(p) /\ ledger[p].tier = Wanted(p)
    BY Zenon DEF IInv, Flags, LedgerIsWanted
  <2> QED BY <2>1 DEF FlagsOf, NoRow
<1> QED BY <1>1, InvariantHolds, PTL

\* No tier outlives its membership, but for the promoted creator's.
THEOREM TierTheorem == Spec => []TierNeedsMember
<1>1. IInv => TierNeedsMember
  BY DEF IInv
<1> QED BY <1>1, InvariantHolds, PTL

\* No group request touches a row a hand wrote while the ledger did not list
\* the pair.
THEOREM DirectTheorem == Spec => DirectStays
<1> DEFINE Kept == \A p \in Pair :
                     /\ member[p] = "hand" => member'[p] = "hand"
                     /\ tierBy[p] = "hand" => tierBy'[p] = "hand" /\ tier'[p] = tier[p]
<1>1. IInv /\ [Next]_vars => [OfGroups => Kept]_vars
  <2> SUFFICES ASSUME IInv, Next, OfGroups PROVE Kept
    OBVIOUS
  <2>1. CASE GroupStep
    BY <2>1, GroupKeeps
  <2>2. CASE Boot
    BY <2>2 DEF Boot, OfGroups
  <2>3. CASE HandStep
    <3> SUFFICES ~OfGroups
      OBVIOUS
    <3> QED BY <2>3 DEF HandStep, OfGroups, SetRole, TakeAway, GiveTier, GrantAccess,
               RevokeAccess, SetAppRole, AssignUsers, DeleteAppRole, DeleteApp, CreateApp,
               ScimDeleteUser, DeleteUser, people
  <2> QED BY <2>1, <2>2, <2>3 DEF Next
<1> QED BY <1>1, InvariantHolds, PTL DEF Spec, DirectStays
=============================================================================
