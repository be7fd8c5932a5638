---------------------------- MODULE MCRollingLog ----------------------------
(* Instances of RollingLog for TLC: a limit that two lines pass, and enough  *)
(* lines and days to fill, number and purge files.                           *)
EXTENDS RollingLog, TLC

LoggerSymmetry == Permutations(Loggers)
=============================================================================
