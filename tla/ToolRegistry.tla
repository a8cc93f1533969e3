------------------------------ MODULE ToolRegistry ------------------------------
(***************************************************************************)
(* The registry of nimna/execution/tool_registry.py: which tools there     *)
(* are, in which version and in which state of their life.  A descriptor   *)
(* is its version, its state, its schemas and whether it declares effects  *)
(* on files; what it requires stays the same under a name.                 *)
(***************************************************************************)
EXTENDS Schema

CONSTANTS
  Tools,
  NoTool,
  Offered    \* the descriptors tools are registered or replaced with

VARIABLES
  tools,      \* _tools: a descriptor, or NoTool
  forgotten   \* history: tools that were unregistered

registryVars == <<tools, forgotten>>

Lifecycle == {"ENABLED", "DISABLED", "DEPRECATED", "REVOKED"}
Descriptor ==
  [version : Nat, life : Lifecycle, files : BOOLEAN,
   input : DOMAIN Schemas, output : DOMAIN Schemas]

(* validate() *)
Valid(d) == WellDefined(Schemas[d.input]) /\ WellDefined(Schemas[d.output])
Accepted == {d \in Offered : Valid(d)}

ASSUME RegistryAssumption == Offered \subseteq Descriptor

RegistryTypeOK ==
  /\ tools \in [Tools -> Descriptor \cup {NoTool}]
  /\ forgotten \subseteq Tools

(* The program registers its tools at start-up. *)
RegistryInit ==
  /\ tools \in [Tools -> Accepted \cup {NoTool}]
  /\ forgotten = {}

Registered(t) == tools[t] # NoTool

(* Mutant: a revoked tool may be enabled again. *)
MovesAlways(l) == Lifecycle

Moves(l) ==
  CASE l \in {"ENABLED", "DISABLED"} -> Lifecycle
    [] l = "DEPRECATED" -> {"DEPRECATED", "REVOKED"}
    [] OTHER -> {"REVOKED"}

Register(t) ==
  /\ ~Registered(t)
  /\ \E d \in Accepted : tools' = [tools EXCEPT ![t] = d]
  /\ UNCHANGED forgotten

(* unregister() takes any tool out, a revoked one too. *)
Unregister(t) ==
  /\ Registered(t)
  /\ tools' = [tools EXCEPT ![t] = NoTool]
  /\ forgotten' = forgotten \cup {t}

(***************************************************************************)
(* replace() keeps nothing of the old descriptor, so that a deprecated     *)
(* tool may come back enabled.                                             *)
(***************************************************************************)
Replace(t) ==
  /\ Registered(t) /\ tools[t].life # "REVOKED"
  /\ \E d \in Accepted :
       /\ d.version > tools[t].version
       /\ tools' = [tools EXCEPT ![t] = d]
  /\ UNCHANGED forgotten

SetAvailability(t) ==
  /\ Registered(t)
  /\ \E l \in Moves(tools[t].life) : tools' = [tools EXCEPT ![t].life = l]
  /\ UNCHANGED forgotten

RegistryNext ==
  \E t \in Tools : Register(t) \/ Unregister(t) \/ Replace(t) \/ SetAvailability(t)

(* A revoked tool stays revoked, and in its version, through any sequence  *)
(* of calls; only unregister() and a new register() under the same name    *)
(* bring it back, although replace() says to use a new name.               *)
RevokedIsTerminal ==
  [][\A t \in Tools : Registered(t) /\ tools[t].life = "REVOKED" =>
       tools'[t] \in {tools[t], NoTool}]_registryVars

=================================================================================
