------------------------------ MODULE LastConfig ------------------------------
(***************************************************************************)
(* The actor that fetches the fee parameters of the network, tonlib's      *)
(* LastConfig.  Fee estimates hand it a promise; it asks LastBlock for the *)
(* last masterchain block and then the lite server for the parameters of   *)
(* that block, and resolves all the promises it holds with the outcome.    *)
(*                                                                         *)
(* A caller is one query.estimateFees of the app (calculateFee in          *)
(* TonWalletClient.kt, which waits for its answer without a timeout).      *)
(* LastBlock and the lite server are external here: either answers, with a *)
(* result or with an error.                                                *)
(***************************************************************************)
EXTENDS Integers

CONSTANTS
    Callers,      \* calls of query.estimateFees
    MaxFailures,  \* bound on the errors LastBlock and the lite server answer
    MaxConfigs    \* bound on the configurations set after the first

VARIABLES
    caller,             \* caller[c]: how far the call of c got
    get_config_state_,
    ask,                \* what the actor waits for: the last block, the parameters, nothing
    failures,           \* errors so far
    configs,            \* configurations set so far
    blockFailed         \* history: whether LastBlock ever answered this actor with an error

vars == <<caller, get_config_state_, ask, failures, configs, blockFailed>>

TypeOK ==
    /\ caller \in [Callers -> {"idle", "sent", "held", "ok", "error"}]
    /\ get_config_state_ \in {"Empty", "Active", "Done"}
    /\ ask \in {"none", "block", "params"}
    /\ failures \in 0..MaxFailures
    /\ configs \in 0..MaxConfigs
    /\ blockFailed \in BOOLEAN

In(where) == {c \in Callers : caller[c] = where}

\* promises_: the callers whose promise the actor holds.
promises_ == In("held")

Init ==
    /\ caller = [c \in Callers |-> "idle"]
    /\ get_config_state_ = "Empty"
    /\ ask = "none"
    /\ failures = 0
    /\ configs = 0
    /\ blockFailed = FALSE

-----------------------------------------------------------------------------
(* The callers                                                             *)

\* query.estimateFees for a query that exists: with_last_config sends the
\* actor a promise that answers the caller.
EstimateFees(c) ==
    /\ caller[c] = "idle"
    /\ caller' = [caller EXCEPT ![c] = "sent"]
    /\ UNCHANGED <<get_config_state_, ask, failures, configs, blockFailed>>

-----------------------------------------------------------------------------
(* The actor                                                               *)

\* get_last_config resets a finished query, keeps the promise and runs loop,
\* which starts a query only from the state Empty.
GetLastConfig(c) ==
    LET reset == promises_ = {} /\ get_config_state_ = "Done"
        start == reset \/ get_config_state_ = "Empty"
    IN /\ caller[c] = "sent"
       /\ caller' = [caller EXCEPT ![c] = "held"]
       /\ get_config_state_' = IF start THEN "Active" ELSE get_config_state_
       /\ ask' = IF start THEN "block" ELSE ask
       /\ UNCHANGED <<failures, configs, blockFailed>>

\* on_ok and on_error: every promise is resolved and promises_ cleared.
Resolve(outcome) ==
    caller' = [c \in Callers |-> IF c \in promises_ THEN outcome ELSE caller[c]]

Fails ==
    /\ failures < MaxFailures
    /\ failures' = failures + 1

\* with_last_block given a block: the parameters of that block are asked for.
OnLastBlock ==
    /\ ask = "block"
    /\ ask' = "params"
    /\ UNCHANGED <<caller, get_config_state_, failures, configs, blockFailed>>

\* with_last_block given an error: the promises get it and get_config_state_
\* stays as it was.
OnLastBlockError ==
    /\ ask = "block"
    /\ Fails
    /\ ask' = "none"
    /\ Resolve("error")
    /\ blockFailed' = TRUE
    /\ UNCHANGED <<get_config_state_, configs>>

\* on_config given parameters whose proof holds.
OnConfig ==
    /\ ask = "params"
    /\ ask' = "none"
    /\ Resolve("ok")
    /\ get_config_state_' = "Done"
    /\ UNCHANGED <<failures, configs, blockFailed>>

\* on_config given an error, or parameters without a proof.
OnConfigError ==
    /\ ask = "params"
    /\ Fails
    /\ ask' = "none"
    /\ Resolve("error")
    /\ get_config_state_' = "Empty"
    /\ UNCHANGED <<configs, blockFailed>>

\* set_config: init_last_config replaces the actor.  tear_down of the old one
\* cancels the promises it holds, and a promise on its way to it is lost, which
\* answers its caller with an error too.
SetConfig ==
    /\ configs < MaxConfigs
    /\ configs' = configs + 1
    /\ caller' = [c \in Callers |->
                    IF c \in In("sent") \cup In("held") THEN "error" ELSE caller[c]]
    /\ get_config_state_' = "Empty"
    /\ ask' = "none"
    /\ blockFailed' = FALSE
    /\ UNCHANGED failures

Next ==
    \/ \E c \in Callers : EstimateFees(c) \/ GetLastConfig(c)
    \/ OnLastBlock \/ OnLastBlockError
    \/ OnConfig \/ OnConfigError
    \/ SetConfig

Spec == Init /\ [][Next]_vars

\* The scheduler runs an actor that has a message, and what the actor asked is
\* answered: send_raw_query gives up after ten seconds, and LastBlock answers
\* every caller (CallersAnswered of the module LastBlock).
FairSpec ==
    /\ Spec
    /\ \A c \in Callers : WF_vars(GetLastConfig(c))
    /\ WF_vars(OnLastBlock \/ OnLastBlockError)
    /\ WF_vars(OnConfig \/ OnConfigError)

-----------------------------------------------------------------------------
(* Properties                                                              *)

\* Client.java promises that the handler of a request is called with its result
\* or with an error: every fee estimate is answered.  The code does not keep it:
\* after one error of LastBlock the state stays Active, so get_last_config only
\* collects the promises of later callers.
FeesAnswered == \A c \in Callers : caller[c] \in {"sent", "held"} ~> caller[c] \in {"ok", "error"}

\* The extent of that: the actor holds a promise with nothing under way only once
\* LastBlock has answered it with an error.  An error of the lite server leaves
\* no promise behind (on_config sets Empty), nor does a new configuration.
StuckForCause == promises_ # {} /\ ask = "none" => blockFailed

\* The actor waits for nothing, and its state forbids it to ask again.
Deaf == get_config_state_ = "Active" /\ ask = "none"

Waiting(c) == caller[c] \in {"sent", "held"}

\* That one error is enough, and that nothing makes up for it: it leaves the
\* actor deaf, and from then on no caller that waits, or that joins them, gets a
\* result or an error by any step but a new configuration.
DeafForGood ==
    [][/\ OnLastBlockError => Deaf'
       /\ Deaf => \/ SetConfig
                  \/ Deaf' /\ \A c \in Callers : Waiting(c) => Waiting(c)']_vars
=============================================================================
