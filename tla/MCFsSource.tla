------------------------------ MODULE MCFsSource ------------------------------
(* Model-checking instance of FsSource: one .yaml file, one .gz file and   *)
(* one file of another kind, walked in that order.                         *)
EXTENDS FsSource

CONSTANTS a, b, x

MCPathOrder == <<a, b, x>>
=============================================================================
