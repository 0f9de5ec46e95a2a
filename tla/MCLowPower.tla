----------------------------- MODULE MCLowPower -----------------------------
EXTENDS LowPower
=============================================================================
