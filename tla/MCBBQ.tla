------------------------------- MODULE MCBBQ -------------------------------
EXTENDS BBQ
=============================================================================
