---------------------------- MODULE LastBlock ----------------------------
(***************************************************************************)
(* The native library's light client: the LastBlock actor, the lite server *)
(* it asks, and the part of TonlibClient that starts it from the state     *)
(* kept on disk and writes that state back.  Every request about an        *)
(* account first asks this actor for the last block.                       *)
(*                                                                         *)
(* Blocks of a network's chain are their heights, 0 the zero state.  A     *)
(* configuration may name an init block of an abandoned fork: -h stands    *)
(* for such a block of height h.  The actor and TonlibClient run on        *)
(* different threads, so a state on its way to the disk is a message.      *)
(*                                                                         *)
(* A new activity creates a new native client over the same directory and  *)
(* never closes the old one.  The actor modelled in full is the one of the *)
(* newest activity; of the others what matters is that they may write.     *)
(***************************************************************************)
EXTENDS Integers, Sequences

CONSTANTS
    Requests,      \* callers of get_last_block
    Networks,      \* blockchains, each with a zero state of its own
    KeyBlocks,     \* heights of the key blocks
    InitBlocks,    \* init blocks a user's configuration may name
    Configs,       \* configurations that may be set
    MasterInit,    \* height of the init block built into the library
    StartTip,      \* last block of the chain at the start
    MaxTip,        \* bound on the chain
    MaxConfigs,    \* bound on configurations set, over all process lives
    MaxLosses,     \* bound on queries lost or timed out
    None

Heights == 0..MaxTip
Height(b) == IF b < 0 THEN -b ELSE b

ASSUME BlockAssumption ==
    /\ MaxTip \in Nat /\ StartTip \in Heights
    /\ KeyBlocks \subseteq Heights \ {0}
    /\ InitBlocks \subseteq Int /\ \A b \in InitBlocks : Height(b) \in Heights
    /\ MasterInit \in 0..StartTip
    /\ MaxConfigs \in Nat /\ MaxLosses \in Nat
    /\ None \notin Int

VARIABLES
    tip,       \* the server's last block
    store,     \* LastBlockStorage: the state kept for each network, or None
    earlier,   \* native clients of earlier activities: what each was configured
               \* with, and the oldest state it may still save
    gen,       \* config_generation_, 0 while the client is not configured
    conf,      \* config_ of this generation
    lb,        \* the LastBlock actor of this generation
    wire,      \* its queries the server has, or whose answers are under way
    mail,      \* on_state_changed calls TonlibClient has not handled yet
    status,    \* where each request is; "free" before it is made and after
               \* it was answered with an error
    got,       \* got[r]: the block r was answered with, while status[r] = "ok"
    asof,      \* asof[r]: the newest block when r was taken up, if r found the
               \* actor idle, and else 0
    configs, losses   \* used up of the bounds

vars == <<tip, store, earlier, gen, conf, lb, wire, mail, status, got, asof, configs, losses>>

----------------------------------------------------------------------------
(* Types *)

QueryState == {"Empty", "Active", "Done"}
InitRefs == InitBlocks \cup {None}

\* LastBlockState
State == [zero : Networks, key : Heights, last : Heights, init : InitRefs, vert : Nat]

ASSUME NoneAssumption == None \notin State

\* the config of the user: its network, its init block, the number of hard
\* forks it lists (vert_seqno), ignore_cache_, and the network the servers it
\* lists really belong to
Config == [net : Networks, init : InitRefs, vert : Nat, ignoreCache : BOOLEAN,
           server : Networks]

ASSUME ConfigAssumption == Configs \subseteq Config

Actor == [zero : Networks, key : Heights, last : Heights, init : InitRefs,
          fatal : BOOLEAN,                 \* fatal_error_
          mc : QueryState,                 \* get_mc_info_state_
          chk : QueryState,                \* check_init_block_state_
          get : QueryState,                \* get_last_block_state_
          held : SUBSET Requests,          \* promises_
          min : Heights, cur : Heights, max : Heights,
          sync : {"Invalid", "InProgress", "Done"}]

Refs == Heights \cup InitBlocks

\* A query, and from phase "answered" on what the server said: the zero state
\* and last block, or a proof chain to block end over key block key (0: none)
Query == [kind : {"mc", "chk", "get"}, from : Refs, to : Refs \cup {None},
          phase : {"asked", "answered", "failed"},
          zero : Networks \cup {None}, end : Heights, key : Heights, complete : BOOLEAN]

Ask(kind, from, to) ==
    [kind |-> kind, from |-> from, to |-> to, phase |-> "asked",
     zero |-> None, end |-> 0, key |-> 0, complete |-> FALSE]

TypeOK ==
    /\ tip \in Heights
    /\ store \in [Networks -> State \cup {None}]
    /\ earlier \subseteq [conf : Config, st : State]
    /\ gen \in 0..MaxConfigs
    /\ conf \in Config
    /\ lb \in Actor
    /\ wire \subseteq Query
    /\ mail \in Seq([gen : 1..MaxConfigs, st : State])
    /\ status \in [Requests -> {"free", "sent", "held", "ok"}]
    /\ got \in [Requests -> Heights]
    /\ asof \in [Requests -> Heights]
    /\ configs \in 0..MaxConfigs /\ losses \in 0..MaxLosses

----------------------------------------------------------------------------
(* Operators of the actor; b is the actor's record *)

\* update_mc_last_block, update_mc_last_key_block and the bookkeeping of
\* update_state: a chain only ever moves the state forward, and not at all
\* after a fatal error
\* Faulty variant: the height of the block to come.
LastAfterNext(b, q) == IF ~b.fatal /\ b.last < q.end THEN q.end + 1 ELSE b.last
LastAfter(b, q) == IF ~b.fatal /\ b.last < q.end THEN q.end ELSE b.last
KeyAfter(b, q)  == IF ~b.fatal /\ b.key < q.key THEN q.key ELSE b.key

\* Faulty variant: max_seqno_ is left to the masterchain info.
UpdateStateNoMax(b, q) ==
    [b EXCEPT !.last = LastAfter(b, q), !.key = KeyAfter(b, q),
              !.cur = IF @ < q.end THEN q.end ELSE @]
UpdateState(b, q) ==
    LET cur == IF b.cur < q.end THEN q.end ELSE b.cur
    IN  [b EXCEPT !.last = LastAfter(b, q), !.key = KeyAfter(b, q),
                  !.cur = cur, !.max = IF @ < cur THEN cur ELSE @]

IsChanged(b, q) == LastAfter(b, q) # b.last \/ KeyAfter(b, q) # b.key

\* update_init_block
UpdateInitBlock(b) ==
    IF b.fatal \/ conf.init = None THEN b ELSE [b EXCEPT !.init = conf.init]

\* What of the actor is saved; it keeps the vert_seqno it was given
StateOf(b) ==
    [zero |-> b.zero, key |-> b.key, last |-> b.last, init |-> b.init, vert |-> conf.vert]

\* save_state: nothing is saved before the init block is checked
\* Faulty variant: saved whether the init block is checked or not.
SaveStateUnchecked(b) == <<[gen |-> gen, st |-> StateOf(b)]>>
SaveState(b) ==
    IF b.chk = "Done" THEN <<[gen |-> gen, st |-> StateOf(b)]>> ELSE <<>>

\* update_sync_state
UpdateSyncState(b) ==
    [b EXCEPT !.sync = IF b.held = {} THEN "Done" ELSE "InProgress"]

DoGetLastBlock(b) == Ask("get", b.key, None)

\* The direction of the check: the older block proves the newer one
DoCheckInitBlock(b) ==
    IF b.key >= Height(conf.init) THEN Ask("chk", conf.init, b.key)
                                  ELSE Ask("chk", b.key, conf.init)

\* sync_loop, as three parts: the check of the init block is skipped, then
\* queries are started, then the promises are answered.  The actor's zero
\* state is the configured one (ValidateConfig), so the two calls of
\* update_zero_state at its start do nothing.
SkipCheck(b) ==
    b.held # {} /\ b.chk = "Empty" /\ (conf.init = None \/ conf.init = b.init)

Checked(b) == IF SkipCheck(b) THEN [b EXCEPT !.chk = "Done"] ELSE b

Start(b) ==
    LET c == Checked(b)
        go == b.held # {}
    IN  [c EXCEPT !.mc = IF go /\ @ = "Empty" THEN "Active" ELSE @,
                  !.chk = IF go /\ @ = "Empty" THEN "Active" ELSE @,
                  !.get = IF go /\ @ = "Empty" /\ c.chk = "Done" THEN "Active" ELSE @]

Started(b) ==
    LET c == Checked(b)
    IN  {q \in {Ask("mc", 0, None), DoGetLastBlock(b)} :
            \/ q.kind = "mc" /\ b.held # {} /\ b.mc = "Empty"
            \/ q.kind = "get" /\ b.held # {} /\ b.get = "Empty" /\ c.chk = "Done"}
        \cup (IF b.held # {} /\ c.chk = "Empty" THEN {DoCheckInitBlock(b)} ELSE {})

AllDone(b) == b.mc = "Done" /\ b.chk = "Done" /\ b.get = "Done"

\* on_sync_ok clears the promises it answers
SyncLoop(b) ==
    LET s == Start(b)
    IN  UpdateSyncState(IF AllDone(s) THEN [s EXCEPT !.held = {}] ELSE s)

Answered(b) == IF AllDone(Start(b)) THEN b.held ELSE {}

\* The end of a handler that took the answer q: the actor is b, with the
\* promises it still holds, the promises of failed are answered with an error,
\* and more are the queries it has sent itself
\* Faulty variant: callers get the block the masterchain info named.
SyncAfterMax(q, b, failed, more) ==
    /\ lb' = SyncLoop(b)
    /\ wire' = (wire \ {q}) \cup more \cup Started(b)
    /\ status' = [r \in Requests |-> IF r \in Answered(b) THEN "ok"
                                     ELSE IF r \in failed THEN "free" ELSE status[r]]
    /\ got' = [r \in Requests |-> IF r \in Answered(b) THEN b.max ELSE got[r]]
    /\ asof' = [r \in Requests |-> IF r \in failed THEN 0 ELSE asof[r]]
SyncAfter(q, b, failed, more) ==
    /\ lb' = SyncLoop(b)
    /\ wire' = (wire \ {q}) \cup more \cup Started(b)
    /\ status' = [r \in Requests |-> IF r \in Answered(b) THEN "ok"
                                     ELSE IF r \in failed THEN "free" ELSE status[r]]
    /\ got' = [r \in Requests |-> IF r \in Answered(b) THEN b.last ELSE got[r]]
    /\ asof' = [r \in Requests |-> IF r \in failed THEN 0 ELSE asof[r]]

----------------------------------------------------------------------------
(* Requests *)

\* A caller asks for the last block (again)
Request(r) ==
    /\ gen # 0
    /\ status[r] \in {"free", "ok"}
    /\ status' = [status EXCEPT ![r] = "sent"]
    /\ got' = [got EXCEPT ![r] = 0]
    /\ asof' = [asof EXCEPT ![r] = 0]
    /\ UNCHANGED <<tip, store, earlier, gen, conf, lb, wire, mail, configs, losses>>

\* The promise of r is kept, and sync_loop runs; b is the actor with it
Take(r, b) ==
    /\ lb' = SyncLoop(b)
    /\ wire' = wire \cup Started(b)
    /\ status' = [s \in Requests |-> IF s \in Answered(b) THEN "ok"
                                     ELSE IF s = r THEN "held" ELSE status[s]]
    /\ got' = [s \in Requests |-> IF s \in Answered(b) THEN b.last ELSE got[s]]
    /\ asof' = [asof EXCEPT ![r] = IF lb.held = {} /\ lb.get # "Active" THEN tip ELSE 0]

\* The first of several callers starts a new synchronisation.  Faulty variant: a
\* finished one is not started again.
ResetNever(r) == [lb EXCEPT !.held = @ \cup {r}]
Reset(r) ==
    [lb EXCEPT !.get = IF lb.held = {} /\ @ = "Done" THEN "Empty" ELSE @,
               !.held = @ \cup {r}]

\* Faulty variant: no check of fatal_error_.
GetLastBlockAnyway(r) ==
    /\ status[r] = "sent"
    /\ Take(r, Reset(r))
    /\ UNCHANGED <<tip, store, earlier, gen, conf, mail, configs, losses>>
GetLastBlock(r) ==
    /\ status[r] = "sent"
    /\ IF lb.fatal
       THEN /\ status' = [status EXCEPT ![r] = "free"]
            /\ UNCHANGED <<lb, wire, got, asof>>
       ELSE Take(r, Reset(r))
    /\ UNCHANGED <<tip, store, earlier, gen, conf, mail, configs, losses>>

----------------------------------------------------------------------------
(* The network *)

Grow ==
    /\ tip < MaxTip
    /\ tip' = tip + 1
    /\ UNCHANGED <<store, earlier, gen, conf, lb, wire, mail, status, got, asof, configs, losses>>

\* k is the newest key block a chain from block b to block e passes, 0 if none
IsKeyOn(k, b, e) ==
    LET on == {j \in KeyBlocks : b < j /\ j <= e}
    IN  IF on = {} THEN k = 0 ELSE k \in on /\ \A j \in on : j <= k

\* The block a proof query asks for: its target, or the server's last block
Target(q) == IF q.to = None THEN tip ELSE q.to

\* A server of the right network that has both blocks can prove the second
Provable(q) ==
    /\ conf.server = conf.net
    /\ q.from \in 0..tip /\ Target(q) \in q.from..tip

ServeInfo(q) ==
    wire' = (wire \ {q}) \cup
        {[q EXCEPT !.phase = "answered", !.zero = conf.server, !.end = tip]}

\* A proof may stop short of its target, at a key block
ServeProof(q) ==
    \E e \in q.from..Target(q), k \in Heights :
        /\ e = Target(q) \/ (e \in KeyBlocks /\ e # q.from)
        /\ IsKeyOn(k, q.from, e)
        /\ wire' = (wire \ {q}) \cup
               {[q EXCEPT !.phase = "answered", !.end = e, !.key = k,
                          !.complete = (e = Target(q))]}

Refuse(q) == wire' = (wire \ {q}) \cup {[q EXCEPT !.phase = "failed"]}

Serve(q) ==
    /\ q.phase = "asked"
    /\ IF q.kind = "mc" THEN ServeInfo(q)
       ELSE IF Provable(q) THEN ServeProof(q) ELSE Refuse(q)
    /\ UNCHANGED <<tip, store, earlier, gen, conf, lb, mail, status, got, asof, configs, losses>>

\* The query, its answer or the connection is lost, and the time runs out
Lose(q) ==
    /\ losses < MaxLosses
    /\ losses' = losses + 1
    /\ q.phase # "failed"
    /\ Refuse(q)
    /\ UNCHANGED <<tip, store, earlier, gen, conf, lb, mail, status, got, asof, configs>>

----------------------------------------------------------------------------
(* Answers *)

\* What update_state has saved, when the answer q made the actor b
\* Faulty variant: saved before the state is assigned.
SavedBefore(q, b) == IF IsChanged(lb, q) THEN SaveState(lb) ELSE <<>>
Saved(q, b) == IF IsChanged(lb, q) THEN SaveState(b) ELSE <<>>

\* on_sync_error, by which every promise is answered
SyncError(q, b) == SyncAfter(q, [b EXCEPT !.held = {}], lb.held, {})

\* Faulty variant: an error leaves get_mc_info_state_ as it was.
OnMasterchainInfoStuck(q) ==
    /\ q.kind = "mc" /\ q.phase # "asked"
    /\ IF q.phase = "failed"
       THEN SyncError(q, lb)
       ELSE LET b == [lb EXCEPT !.mc = "Done", !.max = IF @ < q.end THEN q.end ELSE @]
            IN  IF ~lb.fatal /\ q.zero # lb.zero
                THEN SyncError(q, [b EXCEPT !.fatal = TRUE])
                ELSE SyncAfter(q, b, {}, {})
    /\ UNCHANGED <<tip, store, earlier, gen, conf, mail, configs, losses>>
OnMasterchainInfo(q) ==
    /\ q.kind = "mc" /\ q.phase # "asked"
    /\ IF q.phase = "failed"
       THEN SyncError(q, [lb EXCEPT !.mc = "Empty"])
       ELSE LET b == [lb EXCEPT !.mc = "Done", !.max = IF @ < q.end THEN q.end ELSE @]
            IN  IF ~lb.fatal /\ q.zero # lb.zero
                THEN SyncError(q, [b EXCEPT !.fatal = TRUE])
                ELSE SyncAfter(q, b, {}, {})
    /\ UNCHANGED <<tip, store, earlier, gen, conf, mail, configs, losses>>

\* Faulty variant: saved before the check is marked as done.
OnInitBlockProofEarly(q) ==
    /\ q.kind = "chk" /\ q.phase # "asked"
    /\ IF q.phase = "failed"
       THEN SyncError(q, [lb EXCEPT !.chk = "Empty"])
       ELSE LET b == UpdateState(lb, q)
            IN  IF q.complete
                THEN SyncAfter(q, UpdateInitBlock([b EXCEPT !.chk = "Done"]), {}, {})
                ELSE SyncAfter(q, b, {}, {Ask("chk", q.end, q.to)})
    /\ UNCHANGED <<tip, store, earlier, gen, conf, mail, configs, losses>>
OnInitBlockProof(q) ==
    /\ q.kind = "chk" /\ q.phase # "asked"
    /\ IF q.phase = "failed"
       THEN /\ SyncError(q, [lb EXCEPT !.chk = "Empty"])
            /\ UNCHANGED mail
       ELSE LET b == UpdateState(lb, q)
                c == UpdateInitBlock([b EXCEPT !.chk = "Done"])
            IN  IF q.complete
                THEN /\ mail' = mail \o Saved(q, b)
                                     \o (IF c.init # b.init THEN SaveState(c) ELSE <<>>)
                     /\ SyncAfter(q, c, {}, {})
                ELSE /\ mail' = mail \o Saved(q, b)
                     /\ SyncAfter(q, b, {}, {Ask("chk", q.end, q.to)})
    /\ UNCHANGED <<tip, store, earlier, gen, conf, configs, losses>>

\* A failed proof of the last block ends without sync_loop, so the state of
\* the synchronisation is not reported
\* Faulty variant: on_sync_error is forgotten as well.
FailedBlockProofKept(q) ==
    /\ lb' = [lb EXCEPT !.get = "Empty"]
    /\ wire' = wire \ {q}
    /\ UNCHANGED <<status, asof, got, mail>>
FailedBlockProof(q) ==
    /\ lb' = [lb EXCEPT !.get = "Empty", !.held = {}]
    /\ wire' = wire \ {q}
    /\ status' = [r \in Requests |-> IF r \in lb.held THEN "free" ELSE status[r]]
    /\ asof' = [r \in Requests |-> IF r \in lb.held THEN 0 ELSE asof[r]]
    /\ UNCHANGED <<got, mail>>

OnBlockProof(q) ==
    /\ q.kind = "get" /\ q.phase # "asked"
    /\ IF q.phase = "failed"
       THEN FailedBlockProof(q)
       ELSE LET b == UpdateState(lb, q)
            IN  /\ mail' = mail \o Saved(q, b)
                /\ IF q.complete
                   THEN SyncAfter(q, [b EXCEPT !.get = "Done"], {}, {})
                   ELSE SyncAfter(q, b, {}, {DoGetLastBlock(b)})
    /\ UNCHANGED <<tip, store, earlier, gen, conf, configs, losses>>

\* TonlibClient takes a state to be saved; one of an older configuration is
\* for another file, and is dropped
\* Faulty variant: the generation is not compared.
UpdateLastBlockStateLate ==
    /\ mail # <<>>
    /\ mail' = Tail(mail)
    /\ store' = [store EXCEPT ![conf.net] = Head(mail).st]
    /\ UNCHANGED <<tip, earlier, gen, conf, lb, wire, status, got, asof, configs, losses>>
UpdateLastBlockState ==
    /\ mail # <<>>
    /\ mail' = Tail(mail)
    /\ store' = IF Head(mail).gen = gen
                THEN [store EXCEPT ![conf.net] = Head(mail).st] ELSE store
    /\ UNCHANGED <<tip, earlier, gen, conf, lb, wire, status, got, asof, configs, losses>>

----------------------------------------------------------------------------
(* Configurations and process death *)

\* validate_config: the state kept for the network, or its zero state when
\* there is none, it is not to be read, or the configuration lists more hard
\* forks; then moved up to the library's own init block
\* Faulty variant: a state of as many hard forks is dropped, too.
KeptLess(c) == store[c.net] # None /\ ~c.ignoreCache /\ store[c.net].vert > c.vert
Kept(c) == store[c.net] # None /\ ~c.ignoreCache /\ store[c.net].vert >= c.vert
ZeroState(c) == [zero |-> c.net, key |-> 0, last |-> 0, init |-> None, vert |-> c.vert]
Loaded(c) ==
    [(IF Kept(c) THEN store[c.net] ELSE ZeroState(c)) EXCEPT
        !.vert = c.vert, !.key = IF @ < MasterInit THEN MasterInit ELSE @]

\* The constructor of LastBlock
NewActor(s, c) ==
    LET m == IF c.init # None /\ c.init # s.init /\ Height(c.init) < s.key
             THEN Height(c.init) ELSE s.key
    IN  [zero |-> s.zero, key |-> s.key, last |-> s.key, init |-> s.init,
         fatal |-> FALSE, mc |-> "Empty", chk |-> "Empty", get |-> "Empty",
         held |-> {}, min |-> m, cur |-> m, max |-> 0, sync |-> "Invalid"]

\* init and options.setConfig.  A state that is read has to be of the network,
\* and of no more hard forks than are listed.  The old actor and its connection
\* are dropped, which answers the requests they hold with an error.
SetConfig(c) ==
    /\ configs < MaxConfigs
    /\ store[c.net] # None /\ ~c.ignoreCache =>
           store[c.net].zero = c.net /\ store[c.net].vert <= c.vert
    /\ configs' = configs + 1
    /\ gen' = gen + 1
    /\ conf' = c
    /\ store' = [store EXCEPT ![c.net] = Loaded(c)]
    /\ lb' = NewActor(Loaded(c), c)
    /\ wire' = {}
    /\ status' = [r \in Requests |-> IF status[r] \in {"sent", "held"} THEN "free"
                                     ELSE status[r]]
    /\ asof' = [r \in Requests |-> IF status[r] = "held" THEN 0 ELSE asof[r]]
    /\ UNCHANGED <<tip, earlier, mail, got, losses>>

\* A client that is not configured yet takes the place of the present one
Replaced ==
    /\ gen # 0
    /\ gen' = 0
    /\ lb' = NewActor(Loaded(conf), conf)
    /\ wire' = {} /\ mail' = <<>>
    /\ status' = [r \in Requests |-> "free"]
    /\ got' = [r \in Requests |-> 0]
    /\ asof' = [r \in Requests |-> 0]
    /\ UNCHANGED <<tip, store, conf, configs, losses>>

\* The process dies: only the disk is left
Die == Replaced /\ earlier' = {}

\* The activity is created again.  Its TonWalletClient makes a client of its
\* own, and the one before goes on with what it has to save and is asked for.
\* Bound: only while there is a configuration left for the new client.
Unsaved == {StateOf(lb)} \cup {mail[i].st : i \in {j \in 1..Len(mail) : mail[j].gen = gen}}
Recreate ==
    /\ configs < MaxConfigs
    /\ Replaced
    /\ \E s \in Unsaved :
        /\ \A t \in Unsaved : s.key <= t.key
        /\ earlier' = earlier \cup {[conf |-> conf, st |-> s]}

\* Such a client saves what it came to, once its init block is checked: a proof
\* has led it from its key block to block e, over key block k.
LateWrite(o) ==
    /\ o.conf.server = o.conf.net
    /\ o.conf.init \in 0..tip \cup {None}
    /\ \E e \in o.st.key..tip, k \in Heights :
        /\ IsKeyOn(k, o.st.key, e)
        /\ LET s == [o.st EXCEPT !.last = IF @ < e THEN e ELSE @,
                                 !.key = IF @ < k THEN k ELSE @,
                                 !.init = IF o.conf.init = None THEN @ ELSE o.conf.init]
           IN  /\ store' = [store EXCEPT ![o.conf.net] = s]
               /\ earlier' = (earlier \ {o}) \cup {[o EXCEPT !.st = s]}
    /\ UNCHANGED <<tip, gen, conf, lb, wire, mail, status, got, asof, configs, losses>>

Init ==
    /\ tip = StartTip
    /\ store = [n \in Networks |-> None]
    /\ earlier = {}
    /\ gen = 0
    /\ conf \in [net : Networks, init : {None}, vert : {0}, ignoreCache : {FALSE},
                 server : Networks]
    /\ conf.server = conf.net
    /\ lb = NewActor(Loaded(conf), conf)
    /\ wire = {} /\ mail = <<>>
    /\ status = [r \in Requests |-> "free"]
    /\ got = [r \in Requests |-> 0]
    /\ asof = [r \in Requests |-> 0]
    /\ configs = 0 /\ losses = 0

Configure == \E c \in Configs : SetConfig(c)
Serving(k) == \E q \in wire : q.kind = k /\ Serve(q)

Next ==
    \/ \E r \in Requests : Request(r) \/ GetLastBlock(r)
    \/ Grow
    \/ \E q \in wire : Serve(q) \/ Lose(q)
    \/ \E q \in wire : OnMasterchainInfo(q) \/ OnInitBlockProof(q) \/ OnBlockProof(q)
    \/ UpdateLastBlockState
    \/ Configure
    \/ Die
    \/ Recreate
    \/ \E o \in earlier : LateWrite(o)

\* Actors handle what is in their mailboxes, and a query is answered or runs
\* into the timeout of ExtClient (10 s).  Clients of earlier activities need not
\* write anything.  That callers keep asking is the
\* assumption under which anything has to be saved.
Fairness ==
    /\ \A r \in Requests : WF_vars(Request(r)) /\ WF_vars(GetLastBlock(r))
    /\ \A k \in {"mc", "chk", "get"} : WF_vars(Serving(k))
    /\ WF_vars(\E q \in wire : OnMasterchainInfo(q))
    /\ WF_vars(\E q \in wire : OnInitBlockProof(q))
    /\ WF_vars(\E q \in wire : OnBlockProof(q))
    /\ WF_vars(UpdateLastBlockState)

Spec == Init /\ [][Next]_vars
FairSpec == Spec /\ Fairness

----------------------------------------------------------------------------
(* Properties *)

\* A query state is Active exactly while one query of its kind is under way:
\* a state left Active with no query would never be started again, and every
\* later caller would wait for ever (LastBlock.h:176, sync_loop).
OneQueryEach ==
    /\ \A k \in {"mc", "chk", "get"} : lb[k] = "Active" <=> \E q \in wire : q.kind = k
    /\ \A p, q \in wire : p.kind = q.kind => p = q

\* A request that found the actor idle is answered with a block no older than
\* the newest one at that moment: the answer of an earlier synchronisation is
\* not handed out again (get_last_block resets get_last_block_state_).
FreshAnswer == \A r \in Requests : status[r] = "ok" => got[r] >= asof[r]

\* A state that names an init block, on the disk or on its way there, was
\* proven to be in one chain with it, and nothing is saved under a
\* configuration whose init block is not checked (save_state): a saved state
\* is trusted without a check by the next start.
KeptIsChecked ==
    /\ \A n \in Networks : store[n] # None /\ store[n].init # None => store[n].init \in Heights
    /\ \A i \in 1..Len(mail) :
           mail[i].gen = gen /\ conf.init # None =>
               mail[i].st.init = conf.init /\ conf.init \in Heights

\* The file of a network holds a state of that network, also when states of an
\* older configuration are still on their way (update_last_block_state):
\* otherwise every later start fails, the zero state differing from the cached
\* one.
StoreOwnNet == \A n \in Networks : store[n] # None => store[n].zero = n

\* Whoever waits for the last block waits for a query that is under way and
\* brings the synchronisation on: the check of the init block, or, once that is
\* done, the masterchain info or the proof (sync_loop).  A later caller starts
\* nothing while promises are held, so one without such a query would have
\* everybody wait for ever.
NobodyStranded ==
    \A r \in Requests : status[r] = "held" =>
        \E q \in wire : q.kind = "chk" \/ (lb.chk = "Done" /\ q.kind \in {"mc", "get"})

\* After the servers turned out to be those of another network nobody is left
\* waiting, and nothing the servers say is saved any more (on_fatal_error).
FatalIsFinal ==
    lb.fatal => /\ lb.held = {} /\ \A r \in Requests : status[r] # "held"
                /\ conf.server # conf.net

\* Init blocks are checked "from older to newer" (LastBlock.h:177).
OlderToNewer ==
    \A q \in wire : q.kind = "chk" => Height(q.from) <= Height(q.to)

\* The display the wallet computes from a report, (current - from) /
\* (to - from), stays between 0 and 100 per cent (TonWalletClient.kt:80).
PercentInRange == lb.min <= lb.cur /\ (lb.min < lb.cur => lb.cur <= lb.max)

\* While the process has had one native client, the key block on the disk, from
\* which the next start proves everything, never moves back: not by late
\* messages, by other configurations or by a crash.  It starts over only under a
\* configuration of more hard forks or one that has the file ignored
\* (validate_config, update_last_block_state).
NotBehind(s, t) == s.vert > t.vert \/ (s.vert = t.vert /\ s.key >= t.key)
StoreForward ==
    [][earlier = {} =>
         \A n \in Networks : store[n] # None =>
           /\ store'[n] # None
           /\ \/ NotBehind(store'[n], store[n])
              \/ gen' > gen /\ conf'.net = n /\ conf'.ignoreCache]_vars

\* What the actor has proven once its init block is checked is on the disk or on
\* its way there, while it is the only one to write: if the process dies after
\* the last save is written, the next start resumes from the very key block and
\* init block the actor had (update_state, update_init_block, save_state).
NewestSave ==
    IF mail # <<>> /\ mail[Len(mail)].gen = gen THEN mail[Len(mail)].st ELSE store[conf.net]
NothingUnsaved ==
    gen # 0 /\ earlier = {} /\ lb.chk = "Done" /\ ~lb.fatal =>
        NewestSave.key = lb.key /\ NewestSave.init = lb.init

\* A caller of get_last_block gets an answer, unless the process dies.
CallersAnswered ==
    \A r \in Requests : status[r] \in {"sent", "held"} ~> status[r] \in {"free", "ok"}

\* If the process ends up alive, with one native client, servers of its network
\* and an init block they know, the file ends up with the newest key block and the init block
\* checked, whatever was lost, killed or configured before.
GoodEnd ==
    /\ gen # 0 /\ earlier = {}
    /\ conf.server = conf.net /\ conf.init \in Heights \cup {None}
InStore ==
    /\ store[conf.net] # None
    /\ \A k \in KeyBlocks : k <= tip => k <= store[conf.net].key
    /\ conf.init \in {None, store[conf.net].init}
FileCatchesUp == <>[]GoodEnd => <>[]InStore

\* To its callers and to the next start the actor is a block of the chain that
\* moves forward only: nobody is answered with a block that is not proven, that
\* is older than what an earlier caller got, or than the newest one when the
\* caller found the actor idle, whatever is lost, refused or answered late; and
\* while it is the only one to write, the file names no block the actor has not
\* come past (get_last_block, on_sync_ok, save_state, update_last_block_state).
Chain == INSTANCE ChainHead WITH
    head    <- lb.last,
    net     <- conf.net,
    kept    <- [n \in Networks |-> IF store[n] = None THEN 0 ELSE store[n].key],
    alone   <- earlier = {},
    waiting <- {r \in Requests : status[r] \in {"sent", "held"}}
HeadSpec == Chain!Spec
=============================================================================
