------------------------------ MODULE MCPayment ------------------------------
EXTENDS Payment, TLC

=============================================================================
