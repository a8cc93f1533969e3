-------------------------------- MODULE MCLoop --------------------------------
(***************************************************************************)
(* A shell that asks and is watched by the kill switch, a default tool,    *)
(* and load_skill.  The skill, a restricted one, brings the shell into     *)
(* scope, takes the default tool out of it and puts load_skill behind the  *)
(* gate.                                                                   *)
(***************************************************************************)
EXTENDS AgentLoop, TLC

CONSTANTS read, shell, shell2, load, k, j

MCToolOf == [c \in Signatures |-> IF c = shell2 THEN shell ELSE c]
MCLoads == [c \in Signatures |-> IF c = load THEN {k} ELSE {}]
MCUsable == [l \in SUBSET Skills |-> IF l = {} THEN {read, load} ELSE {shell, load}]

(* Every tool in scope under any skills. *)
MCAllUsable == [l \in SUBSET Skills |-> Signatures]

==============================================================================
