--------------------------- MODULE MCIronmanSpec ---------------------------
EXTENDS Ironman, MCIronman

AllPrograms == TwoComms \cup Waves
=============================================================================
