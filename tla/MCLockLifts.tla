----------------------------- MODULE MCLockLifts -----------------------------
EXTENDS Lockout
CONSTANTS l1
=============================================================================
