------------------------------ MODULE MCEscrow ------------------------------
EXTENDS Escrow
=============================================================================
