------------------------------- MODULE MCCron -------------------------------
EXTENDS Cron
\* Two minutes in the cycle, one, and a schedule that does not parse.
MCSchedule == {{0, 1}, {1}, {}}
=============================================================================
