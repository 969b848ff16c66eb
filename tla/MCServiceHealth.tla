--------------------------- MODULE MCServiceHealth ---------------------------
(* TLC instances of ServiceHealth.                                         *)
EXTENDS ServiceHealth

CONSTANT c1     \* the configuration whose target comes and goes

(* Every target comes and goes.                                            *)
TwoAnswers == [c \in Configs |-> {"healthy", "unhealthy"}]

(* One target comes and goes, the others stay up.                          *)
OneFlapping == [c \in Configs |-> IF c = c1 THEN {"healthy", "unhealthy"} ELSE {"healthy"}]
=============================================================================
