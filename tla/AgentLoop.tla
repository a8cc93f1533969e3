------------------------------- MODULE AgentLoop -------------------------------
(***************************************************************************)
(* One run of the agent: nimna/core/agent.py, _drive (the loop over model  *)
(* turns), _execute_calls (the calls of one turn), _apply_decision and     *)
(* resume, with the limits that stop it.                                   *)
(*                                                                         *)
(* The model and the user may answer anything.  A call stands for a tool   *)
(* with its arguments, that is for a signature; what a tool returns        *)
(* matters only as success or failure.  The races between requests for     *)
(* one run are the business of ApprovalProtocol.                           *)
(***************************************************************************)
EXTENDS Naturals, Sequences, FiniteSets

CONSTANTS
  Signatures,    \* the calls a model may propose
  NoCall,        \* no call is pending
  Tools,
  ToolOf,        \* [Signatures -> Tools]
  Usable,        \* [SUBSET Skills -> SUBSET Signatures]: the calls whose tool is in
                 \* allowed_tools under these skills, whose arguments are valid and
                 \* which the policy does not deny
  Gated,         \* tools that need the user's consent
  Watched,       \* tools the kill switch listens to
  Skills,
  Loads,         \* [Signatures -> SUBSET Skills]: what load_skill would load
  Restricted,    \* skills that put every tool behind the gate
  Decisions,     \* what the approval policy may decide
  MaxSteps,      \* max_steps
  MaxToolCalls,  \* max_tool_calls
  MaxFailures,   \* max_consecutive_failures
  SeenCap,       \* seen_signatures is cut when longer than this (100) ...
  SeenKeep,      \* ... to its last so many (60)
  Verify,        \* settings.verify
  MaxBatch       \* bound: calls in one model response

Answers == {"approve", "always", "deny"}

ASSUME LoopAssumption ==
  /\ ToolOf \in [Signatures -> Tools]
  /\ Loads \in [Signatures -> SUBSET Skills]
  /\ Usable \in [SUBSET Skills -> SUBSET Signatures]
  /\ Gated \subseteq Tools /\ Watched \subseteq Tools
  /\ Restricted \subseteq Skills
  /\ NoCall \notin Signatures
  /\ Decisions \subseteq Answers \cup {"defer"}
  /\ MaxSteps \in Nat /\ MaxToolCalls \in Nat /\ MaxFailures \in Nat \ {0}
  /\ SeenCap \in Nat \ {0} /\ SeenKeep \in 1 .. SeenCap
  /\ Verify \in BOOLEAN /\ MaxBatch \in Nat \ {0}

VARIABLES
  pc,         \* "drive": top of the loop; "calls": inside a turn; "waiting"; "over"
  status,     \* state.status
  step, toolCalls, failures,
  seen,       \* seen_signatures
  batch,      \* tool_calls of the last assistant message
  idx,        \* the call of the batch that is next
  pending,    \* the deferred call
  entry,      \* how the thread came here: "run", "resume", or "resume_turn" while
              \* resume() finishes the turn that was interrupted
  approved,   \* approved_tools: a tool under the skills loaded at the time
  loaded,     \* loaded_skills
  verified,   \* verify_attempts
  lastText, repeats,
  clock,      \* max_runtime_seconds since started_at: "within" or "passed"
  \* history, read by no action
  results,    \* tool results appended for each call of the batch
  runs,       \* how often each call was executed
  grants,     \* how often the user said yes to each call
  given,      \* tools answered "always", with the skills loaded then
  unasked,    \* gated tools that ran unasked, with the skills loaded then
  cut,        \* seen_signatures has lost entries
  killed,     \* the kill switch has fired
  defied      \* the run went on after that

loopVars == <<pc, status, step, toolCalls, failures, batch, idx, pending, entry>>
textVars == <<verified, lastText, repeats>>
history == <<results, runs, grants, given, unasked, cut, killed, defied>>
vars == <<loopVars, textVars, seen, approved, loaded, clock, history>>

Texts == {"empty", "one", "other"}
Batches == UNION {[1 .. n -> Signatures] : n \in 1 .. MaxBatch}

Init ==
  /\ pc = "drive" /\ status = "running"
  /\ step = 0 /\ toolCalls = 0 /\ failures = 0
  /\ seen = <<>> /\ batch = <<>> /\ idx = 1 /\ pending = NoCall /\ entry = "run"
  /\ approved = {}
  /\ loaded \in SUBSET Skills   \* _prepare loads what the planner selected
  /\ verified = 0 /\ lastText = "empty" /\ repeats = 0
  /\ clock = "within"
  /\ results = <<>>
  /\ runs = [c \in Signatures |-> 0]
  /\ grants = [c \in Signatures |-> 0]
  /\ given = {} /\ unasked = {}
  /\ cut = FALSE /\ killed = FALSE /\ defied = FALSE

-----------------------------------------------------------------------------
(* The top of _drive: the limits are looked at here and nowhere else, but  *)
(* for max_tool_calls.                                                     *)

Exhausted ==
  \/ clock = "passed"
  \/ step >= MaxSteps
  \/ toolCalls >= MaxToolCalls
  \/ failures >= MaxFailures

(* Mutant: the loop does not notice that the run is done. *)
StopLate ==
  /\ pc = "drive" /\ Exhausted
  /\ pc' = "over" /\ status' = "done"
  /\ UNCHANGED <<step, toolCalls, failures, batch, idx, pending, entry,
                 textVars, seen, approved, loaded, clock, history>>

Stop ==
  /\ pc = "drive"
  /\ status = "done" \/ Exhausted
  /\ pc' = "over" /\ status' = "done"
  /\ UNCHANGED <<step, toolCalls, failures, batch, idx, pending, entry,
                 textVars, seen, approved, loaded, clock, history>>

AskModel ==
  /\ pc = "drive" /\ status = "running" /\ ~Exhausted
  /\ step' = step + 1
  /\ defied' = (defied \/ killed)

(* A provider error or an exceeded cost budget fails the run. *)
ProviderFails ==
  /\ pc = "drive" /\ status = "running" /\ ~Exhausted
  /\ pc' = "over" /\ status' = "error"
  /\ UNCHANGED <<step, toolCalls, failures, batch, idx, pending, entry,
                 textVars, seen, approved, loaded, clock, history>>

(***************************************************************************)
(* The guard against repeated answers stops the run at repeats >= 2, which *)
(* never happens (RepeatsBounded): a second answer is always the last.     *)
(***************************************************************************)
HearText(t) ==
  /\ lastText' = t
  /\ repeats' = IF t # "empty" /\ t = lastText THEN repeats + 1 ELSE 0

(* Mutant: verify_attempts is not looked at. *)
MayReviseAlways(t) == Verify /\ t # "empty"

MayRevise(t) == Verify /\ verified = 0 /\ t # "empty"

(* A draft that the review accepts, or that is not reviewed. *)
FinalText(t) ==
  /\ AskModel /\ HearText(t)
  /\ verified' = IF MayRevise(t) THEN verified + 1 ELSE verified
  /\ status' = "done" /\ failures' = 0
  /\ UNCHANGED <<pc, toolCalls, batch, idx, pending, entry, seen, approved, loaded, clock,
                 results, runs, grants, given, unasked, cut, killed>>

(* A draft that the review sends back. *)
RevisedText(t) ==
  /\ AskModel /\ HearText(t)
  /\ MayRevise(t)
  /\ verified' = verified + 1
  /\ UNCHANGED <<pc, status, toolCalls, failures, batch, idx, pending, entry,
                 seen, approved, loaded, clock,
                 results, runs, grants, given, unasked, cut, killed>>

(* The review is one call too many for the cost budget. *)
ReviewFails(t) ==
  /\ AskModel /\ HearText(t)
  /\ MayRevise(t)
  /\ verified' = verified + 1
  /\ pc' = "over" /\ status' = "error"
  /\ UNCHANGED <<toolCalls, failures, batch, idx, pending, entry,
                 seen, approved, loaded, clock,
                 results, runs, grants, given, unasked, cut, killed>>

(* The model proposes a batch of calls. *)
Propose(b) ==
  /\ AskModel
  /\ pc' = "calls" /\ batch' = b /\ idx' = 1
  /\ results' = [i \in DOMAIN b |-> 0]
  /\ UNCHANGED <<status, toolCalls, failures, pending, entry, textVars, seen, approved, loaded,
                 clock, runs, grants, given, unasked, cut, killed>>

-----------------------------------------------------------------------------
(* _execute_calls *)

AtCall(c) == pc = "calls" /\ idx \in DOMAIN batch /\ c = batch[idx]

(* Each way of dealing with a call appends one tool result. *)
Answered == results' = [results EXCEPT ![idx] = @ + 1]
NextCall == idx' = idx + 1 /\ Answered

Occurrences(c) == Cardinality({i \in DOMAIN seen : seen[i] = c})

(* Mutant: only _drive looks at max_tool_calls. *)
BlockedIfRepeated(c) == Occurrences(c) >= 2

(* Mutant: one repeat too many. *)
BlockedLate(c) == toolCalls >= MaxToolCalls \/ Occurrences(c) >= 3

Blocked(c) == toolCalls >= MaxToolCalls \/ Occurrences(c) >= 2

Note(c) ==
  LET longer == Append(seen, c)
  IN  IF Len(longer) > SeenCap
      THEN /\ seen' = SubSeq(longer, Len(longer) - SeenKeep + 1, Len(longer))
           /\ cut' = TRUE
      ELSE seen' = longer /\ cut' = cut

(* The limit of tool calls, or the third identical call. *)
RefuseBlocked(c) ==
  /\ AtCall(c) /\ Blocked(c)
  /\ NextCall
  /\ failures' = failures + 1
  /\ UNCHANGED <<pc, status, step, toolCalls, batch, pending, entry, textVars, seen, approved,
                 loaded, clock, runs, grants, given, unasked, cut, killed, defied>>

Reach(c) == AtCall(c) /\ ~Blocked(c) /\ Note(c)

RefuseUnusable(c) ==
  /\ Reach(c) /\ c \notin Usable[loaded]
  /\ NextCall
  /\ failures' = failures + 1
  /\ UNCHANGED <<pc, status, step, toolCalls, batch, pending, entry, textVars, approved,
                 loaded, clock, runs, grants, given, unasked, killed, defied>>

(***************************************************************************)
(* _run_tool and the counters that follow it.  The kill switch sets the    *)
(* status and leaves the rest of the batch to the caller.                  *)
(***************************************************************************)
Execute(c, ok, kill, before) ==
  /\ kill => ToolOf[c] \in Watched
  /\ runs' = [runs EXCEPT ![c] = @ + 1]
  /\ toolCalls' = toolCalls + 1
  /\ failures' = IF ok THEN 0 ELSE failures + 1
  /\ loaded' = IF ok THEN loaded \cup Loads[c] ELSE loaded
  /\ status' = IF kill THEN "done" ELSE before
  /\ killed' = (killed \/ kill)
  /\ defied' = (defied \/ killed)

NeedsConsent(c) == ToolOf[c] \in Gated \/ loaded \cap Restricted # {}

(* Mutant: an "always" counts for every tool. *)
StandingConsentForAny(c) == approved # {}

(* An "always" counts under the skills it was given for, and, as the bare   *)
(* name of the tool, under any other.                                      *)
StandingConsent(c) == <<ToolOf[c], loaded>> \in approved \/ <<ToolOf[c], {}>> \in approved

KeepConsent(c) ==
  /\ approved' = approved \cup {<<ToolOf[c], loaded>>, <<ToolOf[c], {}>>}
  /\ given' = given \cup {<<ToolOf[c], loaded>>}

RunUnasked(c, ok, kill) ==
  /\ Reach(c) /\ c \in Usable[loaded]
  /\ NeedsConsent(c) => StandingConsent(c)
  /\ Execute(c, ok, kill, status) /\ NextCall
  /\ unasked' = IF NeedsConsent(c) THEN unasked \cup {<<ToolOf[c], loaded>>} ELSE unasked
  /\ UNCHANGED <<pc, step, batch, pending, entry, textVars, approved, clock, grants, given>>

MustAsk(c) == Reach(c) /\ c \in Usable[loaded] /\ NeedsConsent(c) /\ ~StandingConsent(c)

(* The approval policy says yes at once. *)
RunAsked(c, d, ok, kill) ==
  /\ MustAsk(c) /\ d \in Decisions \cap {"approve", "always"}
  /\ Execute(c, ok, kill, status) /\ NextCall
  /\ grants' = [grants EXCEPT ![c] = @ + 1]
  /\ IF d = "always" THEN KeepConsent(c) ELSE UNCHANGED <<approved, given>>
  /\ UNCHANGED <<pc, step, batch, pending, entry, textVars, clock, unasked>>

DenyAsked(c) ==
  /\ MustAsk(c) /\ "deny" \in Decisions
  /\ NextCall
  /\ failures' = failures + 1
  /\ UNCHANGED <<pc, status, step, toolCalls, batch, pending, entry, textVars, approved,
                 loaded, clock, runs, grants, given, unasked, killed, defied>>

(* The run is saved and its thread returns. *)
Defer(c) ==
  /\ MustAsk(c) /\ "defer" \in Decisions
  /\ pending' = c /\ status' = "awaiting_approval" /\ pc' = "waiting"
  /\ UNCHANGED <<step, toolCalls, failures, batch, idx, entry, textVars, approved, loaded,
                 clock, results, runs, grants, given, unasked, killed, defied>>

(* The session is at its limit of open approvals: save_pending raises. *)
DeferRefused(c) ==
  /\ MustAsk(c) /\ "defer" \in Decisions
  /\ pending' = c /\ pc' = "over"
  /\ status' = IF entry = "run" THEN "error" ELSE "awaiting_approval"
  /\ UNCHANGED <<step, toolCalls, failures, batch, idx, entry, textVars, approved, loaded,
                 clock, results, runs, grants, given, unasked, killed, defied>>

(* Back to the loop; resume() sets the status on its way. *)
EndTurn ==
  /\ pc = "calls" /\ idx \notin DOMAIN batch
  /\ pc' = "drive"
  /\ IF entry = "resume_turn"
     THEN status' = "running" /\ entry' = "resume"
     ELSE UNCHANGED <<status, entry>>
  /\ UNCHANGED <<step, toolCalls, failures, batch, idx, pending, textVars, seen, approved, loaded, clock, history>>

-----------------------------------------------------------------------------
(* resume *)

(* Mutant: resume() goes on at pending_call_index instead of the next. *)
ResumeAgain(c) ==
  /\ pc = "waiting"
  /\ c = batch[idx]
  /\ pending' = NoCall
  /\ pc' = "calls" /\ entry' = "resume_turn"
  /\ Answered /\ UNCHANGED idx

(* Mutant: state.pending is not cleared. *)
ResumeStillPending(c) ==
  /\ pc = "waiting"
  /\ c = batch[idx]
  /\ pc' = "calls" /\ entry' = "resume_turn"
  /\ NextCall /\ UNCHANGED pending

(***************************************************************************)
(* The answer to the deferred call.  It runs without another look at the   *)
(* limits, and its signature, noted before the deferral, is noted again.   *)
(***************************************************************************)
ResumeAs(c) ==
  /\ pc = "waiting"
  /\ c = batch[idx]
  /\ pending' = NoCall
  /\ pc' = "calls" /\ entry' = "resume_turn"
  /\ NextCall

Allow(c, d, ok, kill) ==
  /\ ResumeAs(c)
  /\ Execute(c, ok, kill, "running")
  /\ seen' = Append(seen, c)
  /\ grants' = [grants EXCEPT ![c] = @ + 1]
  /\ IF d = "always" THEN KeepConsent(c) ELSE UNCHANGED <<approved, given>>
  /\ UNCHANGED <<step, batch, textVars, clock, unasked, cut>>

Deny(c) ==
  /\ ResumeAs(c)
  /\ status' = "running"
  /\ failures' = failures + 1
  /\ UNCHANGED <<step, toolCalls, batch, textVars, seen, approved, loaded, clock,
                 runs, grants, given, unasked, cut, killed, defied>>

(* Nobody answers within PENDING_TTL_SECONDS. *)
Expire ==
  /\ pc = "waiting"
  /\ pc' = "over"
  /\ UNCHANGED <<status, step, toolCalls, failures, batch, idx, pending, entry,
                 textVars, seen, approved, loaded, clock, history>>

(* started_at is saved with the run: time spent waiting counts as well. *)
TimePasses ==
  /\ pc # "over" /\ clock = "within"
  /\ clock' = "passed"
  /\ UNCHANGED <<loopVars, textVars, seen, approved, loaded, history>>

Turn ==
  \/ Stop
  \/ ProviderFails
  \/ \E t \in Texts : FinalText(t) \/ RevisedText(t) \/ ReviewFails(t)
  \/ \E b \in Batches : Propose(b)

CallStep ==
  \E c \in Signatures :
    \/ RefuseBlocked(c)
    \/ RefuseUnusable(c)
    \/ DenyAsked(c)
    \/ Defer(c)
    \/ DeferRefused(c)
    \/ \E ok, kill \in BOOLEAN :
         \/ RunUnasked(c, ok, kill)
         \/ \E d \in {"approve", "always"} : RunAsked(c, d, ok, kill)

Resume ==
  \E c \in Signatures :
    \/ Deny(c)
    \/ \E ok, kill \in BOOLEAN, d \in {"approve", "always"} : Allow(c, d, ok, kill)

Next == Turn \/ CallStep \/ EndTurn \/ Resume \/ Expire \/ TimePasses

Spec == Init /\ [][Next]_vars

(* Providers, reviews and tools have timeouts: a thread at work gets on.   *)
FairSpec == Spec /\ WF_vars(Turn \/ CallStep \/ EndTurn)

-----------------------------------------------------------------------------
(* Properties *)

(* Every variable keeps its type. *)
TypeOK ==
  /\ pc \in {"drive", "calls", "waiting", "over"}
  /\ status \in {"running", "awaiting_approval", "done", "error"}
  /\ step \in Nat /\ toolCalls \in Nat /\ failures \in Nat
  /\ seen \in Seq(Signatures)
  /\ batch \in Seq(Signatures)
  /\ idx \in Nat \ {0}
  /\ pending \in Signatures \cup {NoCall}
  /\ entry \in {"run", "resume_turn", "resume"}
  /\ approved \in SUBSET (Tools \X SUBSET Skills)
  /\ loaded \in SUBSET Skills
  /\ verified \in {0, 1} /\ lastText \in Texts /\ repeats \in Nat
  /\ clock \in {"within", "passed"}
  /\ results \in [DOMAIN batch -> Nat]
  /\ runs \in [Signatures -> Nat] /\ grants \in [Signatures -> Nat]
  /\ given \in SUBSET (Tools \X SUBSET Skills) /\ unasked \in SUBSET (Tools \X SUBSET Skills)
  /\ cut \in BOOLEAN /\ killed \in BOOLEAN /\ defied \in BOOLEAN

(***************************************************************************)
(* No run asks the model more than max_steps times or executes more than   *)
(* max_tool_calls calls, though a resumed call runs without a look at the  *)
(* limit: the room it needs was there when it was deferred.                *)
(***************************************************************************)
WithinLimits == step <= MaxSteps /\ toolCalls <= MaxToolCalls

(***************************************************************************)
(* Whatever becomes of the calls of a turn - run, refused, denied,         *)
(* deferred and resumed - each gets exactly one tool result, in order, and *)
(* all of them before the model is asked again.                            *)
(***************************************************************************)
EachCallAnswered ==
  /\ pc # "over" => \A i \in DOMAIN batch : results[i] = IF i < idx THEN 1 ELSE 0
  /\ pc = "drive" => \A i \in DOMAIN batch : results[i] = 1

(***************************************************************************)
(* The binding of an approval to its call: the call that resume() finds at *)
(* pending_call_index of the last assistant message is the call that was   *)
(* deferred, so the digest check of _apply_decision never refuses.         *)
(***************************************************************************)
PendingIsCurrent ==
  /\ pc = "waiting" => /\ status = "awaiting_approval"
                       /\ idx \in DOMAIN batch
                       /\ pending = batch[idx]
                       /\ toolCalls < MaxToolCalls
  /\ pc \in {"drive", "calls"} => pending = NoCall

(***************************************************************************)
(* No call is executed a third time with the same arguments, as long as    *)
(* seen_signatures has never been cut, whichever of its executions were    *)
(* deferred, asked or unasked.                                             *)
(***************************************************************************)
ThirdCallBlocked == cut \/ \A c \in Signatures : runs[c] <= 2

(***************************************************************************)
(* A tool behind the gate runs only as often as the user said yes to that  *)
(* very call, unless its tool was once answered "always" in this run.      *)
(***************************************************************************)
ConsentGiven ==
  \A c \in Signatures :
    ToolOf[c] \in Gated /\ (\A g \in given : g[1] # ToolOf[c]) => runs[c] <= grants[c]

(***************************************************************************)
(* A drafted answer is sent back at most once, so the same text is heard   *)
(* at most twice and the guard repeat_text_count >= 2 of _drive is dead.   *)
(***************************************************************************)
RepeatsBounded == repeats <= 1

(***************************************************************************)
(* What makes the above inductive.  Before a run is done it has heard no   *)
(* text twice, and none at all before its one review; each standing        *)
(* consent was given; until seen_signatures is cut, an executed call has   *)
(* been noted, and a deferred one was executed at most once before.        *)
(***************************************************************************)
TextsHeard ==
  pc \in {"calls", "waiting"} \/ (pc = "drive" /\ status = "running") =>
    repeats = 0 /\ (verified = 0 => lastText = "empty")

ConsentKept == \A a \in approved : \E g \in given : g[1] = a[1]

RunsNoted ==
  ~cut => /\ \A c \in Signatures : runs[c] <= Occurrences(c)
          /\ pc = "waiting" => runs[batch[idx]] <= 1

LoopInv ==
  /\ WithinLimits /\ PendingIsCurrent /\ EachCallAnswered
  /\ ThirdCallBlocked /\ ConsentGiven /\ RepeatsBounded
  /\ TextsHeard /\ ConsentKept /\ RunsNoted

(***************************************************************************)
(* A run never keeps its thread for ever: it ends or waits for an answer,  *)
(* though the model may propose calls, and the review object, for ever.    *)
(***************************************************************************)
ComesToRest == pc \in {"drive", "calls"} ~> pc \in {"waiting", "over"}

(***************************************************************************)
(* "If suspicious patterns exceed thresholds, should_kill() returns True   *)
(* and the agent must abort the session" (security/anomaly.py:4): after    *)
(* the kill switch the run executes no call and asks no model.  False: see *)
(* the README.                                                             *)
(***************************************************************************)
KillStops == ~defied

(***************************************************************************)
(* "ALWAYS should not auto-approve the same tool for a different skill     *)
(* set" (nimna/core/agent.py:892): a tool that runs unasked was answered   *)
(* "always" under the very skills loaded now, or when there were none,     *)
(* where the key is the tool's name alone.  False: see the README.         *)
(***************************************************************************)
AlwaysIsScoped ==
  \A u \in unasked : u \in given \/ <<u[1], {}>> \in given

==============================================================================
