-------------------------- MODULE LastBlockProofs --------------------------
(***************************************************************************)
(* Theorems about LastBlock for every set of requests and networks, every  *)
(* chain and every bound.                                                  *)
(***************************************************************************)
EXTENDS LastBlock, SequenceTheorems, TLAPS

-----------------------------------------------------------------------------
(* What sync_loop leaves alone and what it changes.                        *)

LEMMA HeightsAreNat == (\A h \in Heights : h \in Int /\ h >= 0) /\ 0 \in Heights /\ MasterInit \in Heights
  BY BlockAssumption DEF Heights

LEMMA HeightOfRef == \A b \in Refs : Height(b) \in Heights /\ (b \in Heights => Height(b) = b)
  BY BlockAssumption DEF Refs, Heights, Height

LEMMA InitConf == Init => conf \in Config /\ conf.net \in Networks
<1> SUFFICES ASSUME Init PROVE conf \in Config /\ conf.net \in Networks
  OBVIOUS
<1> DEFINE i == conf.ignoreCache
<1>1. conf \in [net : Networks, init : {None}, vert : {0}, ignoreCache : {FALSE}, server : Networks]
  BY DEF Init
<1>2. i \in BOOLEAN
  <2>1. i \in {FALSE}
    BY <1>1, Zenon
  <2> QED
    BY <2>1, Zenon
<1>3. /\ conf = [net |-> conf.net, init |-> conf.init, vert |-> conf.vert,
                 ignoreCache |-> i, server |-> conf.server]
      /\ conf.net \in Networks /\ conf.server \in Networks /\ conf.init = None /\ conf.vert = 0
  BY <1>1
<1> HIDE DEF i
<1> QED
  BY <1>2, <1>3 DEF Config, InitRefs

LEMMA CheckedFacts ==
    ASSUME NEW b \in Actor
    PROVE  LET c == Checked(b)
           IN  /\ c \in Actor
               /\ c.zero = b.zero /\ c.key = b.key /\ c.last = b.last /\ c.init = b.init
               /\ c.fatal = b.fatal /\ c.min = b.min /\ c.cur = b.cur /\ c.max = b.max
               /\ c.held = b.held /\ c.mc = b.mc /\ c.get = b.get
               /\ c.chk = IF SkipCheck(b) THEN "Done" ELSE b.chk
  BY DEF Checked, Actor, QueryState

LEMMA StartFacts ==
    ASSUME NEW b \in Actor
    PROVE  LET s == Start(b)
               go == b.held # {}
               chk == IF SkipCheck(b) THEN "Done" ELSE b.chk
           IN  /\ s \in Actor
               /\ s.zero = b.zero /\ s.key = b.key /\ s.last = b.last /\ s.init = b.init
               /\ s.fatal = b.fatal /\ s.min = b.min /\ s.cur = b.cur /\ s.max = b.max
               /\ s.held = b.held
               /\ s.mc = IF go /\ b.mc = "Empty" THEN "Active" ELSE b.mc
               /\ s.chk = IF go /\ chk = "Empty" THEN "Active" ELSE chk
               /\ s.get = IF go /\ b.get = "Empty" /\ chk = "Done" THEN "Active" ELSE b.get
<1> DEFINE c == Checked(b)
<1>1. /\ c \in Actor
      /\ c.zero = b.zero /\ c.key = b.key /\ c.last = b.last /\ c.init = b.init
      /\ c.fatal = b.fatal /\ c.min = b.min /\ c.cur = b.cur /\ c.max = b.max
      /\ c.held = b.held /\ c.mc = b.mc /\ c.get = b.get
      /\ c.chk = IF SkipCheck(b) THEN "Done" ELSE b.chk
  BY CheckedFacts
<1>2. Start(b) =
        [c EXCEPT !.mc = IF b.held # {} /\ c.mc = "Empty" THEN "Active" ELSE c.mc,
                  !.chk = IF b.held # {} /\ c.chk = "Empty" THEN "Active" ELSE c.chk,
                  !.get = IF b.held # {} /\ c.get = "Empty" /\ c.chk = "Done" THEN "Active"
                          ELSE c.get]
  BY DEF Start
<1> HIDE DEF c
<1> QED
  BY <1>1, <1>2 DEF Actor, QueryState

LEMMA SyncLoopFacts ==
    ASSUME NEW b \in Actor
    PROVE  LET s == SyncLoop(b)
           IN  /\ s \in Actor
               /\ s.zero = b.zero /\ s.key = b.key /\ s.last = b.last /\ s.init = b.init
               /\ s.fatal = b.fatal /\ s.min = b.min /\ s.cur = b.cur /\ s.max = b.max
               /\ s.mc = Start(b).mc /\ s.chk = Start(b).chk /\ s.get = Start(b).get
               /\ s.held = b.held \ Answered(b)
               /\ Answered(b) \subseteq b.held
<1> DEFINE t == Start(b)
           u == IF AllDone(t) THEN [t EXCEPT !.held = {}] ELSE t
<1>1. t \in Actor
      /\ t.zero = b.zero /\ t.key = b.key /\ t.last = b.last /\ t.init = b.init
      /\ t.fatal = b.fatal /\ t.min = b.min /\ t.cur = b.cur /\ t.max = b.max
      /\ t.held = b.held
  BY StartFacts
<1>2. Answered(b) = IF AllDone(t) THEN b.held ELSE {}
  BY DEF Answered
<1>3. SyncLoop(b) = [u EXCEPT !.sync = IF u.held = {} THEN "Done" ELSE "InProgress"]
  BY DEF SyncLoop, UpdateSyncState
<1> HIDE DEF t
<1>4. u \in Actor
      /\ u.zero = b.zero /\ u.key = b.key /\ u.last = b.last /\ u.init = b.init
      /\ u.fatal = b.fatal /\ u.min = b.min /\ u.cur = b.cur /\ u.max = b.max
      /\ u.held = b.held \ Answered(b)
      /\ u.mc = t.mc /\ u.chk = t.chk /\ u.get = t.get
  BY <1>1, <1>2 DEF Actor
<1> HIDE DEF u
<1>5. Answered(b) \subseteq b.held
  BY <1>2
<1> QED
  BY <1>3, <1>4, <1>5 DEF t, Actor

-----------------------------------------------------------------------------
(* Types.                                                                  *)

LEMMA UpdateStateFacts ==
    ASSUME NEW b \in Actor, NEW q \in Query
    PROVE  LET u == UpdateState(b, q)
           IN  /\ u \in Actor
               /\ u.last = LastAfter(b, q) /\ u.key = KeyAfter(b, q)
               /\ u.zero = b.zero /\ u.init = b.init /\ u.fatal = b.fatal /\ u.min = b.min
               /\ u.held = b.held /\ u.mc = b.mc /\ u.chk = b.chk /\ u.get = b.get
               /\ b.cur <= u.cur /\ u.cur <= u.max
               /\ b.last <= u.last /\ b.key <= u.key
<1>1. LastAfter(b, q) \in Heights /\ KeyAfter(b, q) \in Heights
      /\ b.last <= LastAfter(b, q) /\ b.key <= KeyAfter(b, q)
  BY HeightsAreNat DEF LastAfter, KeyAfter, Actor, Query
<1>2. b.cur \in Heights /\ b.max \in Heights /\ q.end \in Heights
  BY DEF Actor, Query
<1> DEFINE cur == IF b.cur < q.end THEN q.end ELSE b.cur
           max == IF b.max < cur THEN cur ELSE b.max
<1>3. cur \in Heights /\ max \in Heights /\ b.cur <= cur /\ cur <= max
  BY <1>2, HeightsAreNat
<1>4. UpdateState(b, q) = [b EXCEPT !.last = LastAfter(b, q), !.key = KeyAfter(b, q),
                                    !.cur = cur, !.max = max]
  BY DEF UpdateState
<1> HIDE DEF cur, max
<1> QED
  BY <1>1, <1>3, <1>4 DEF Actor

LEMMA UpdateInitFacts ==
    ASSUME NEW b \in Actor, conf \in Config
    PROVE  LET u == UpdateInitBlock(b)
           IN  /\ u \in Actor
               /\ u.last = b.last /\ u.key = b.key
               /\ u.zero = b.zero /\ u.fatal = b.fatal /\ u.min = b.min
               /\ u.held = b.held /\ u.mc = b.mc /\ u.chk = b.chk /\ u.get = b.get
               /\ u.cur = b.cur /\ u.max = b.max
               /\ u.init = IF b.fatal \/ conf.init = None THEN b.init ELSE conf.init
  BY DEF UpdateInitBlock, Actor, Config

LEMMA AskType ==
    ASSUME NEW kind \in {"mc", "chk", "get"}, NEW from \in Refs, NEW to \in Refs \cup {None}
    PROVE  /\ Ask(kind, from, to) \in Query
           /\ Ask(kind, from, to).kind = kind /\ Ask(kind, from, to).phase = "asked"
           /\ Ask(kind, from, to).from = from /\ Ask(kind, from, to).to = to
  BY HeightsAreNat DEF Ask, Query

\* What sync_loop sends, kind by kind.
LEMMA StartedFacts ==
    ASSUME NEW b \in Actor, conf \in Config
    PROVE  /\ Started(b) \subseteq Query
           /\ \A q \in Started(b) : q.phase = "asked" /\ b.held # {}
           /\ \A q \in Started(b) : q.kind \in {"mc", "chk", "get"} /\ b[q.kind] = "Empty"
           /\ \A p, q \in Started(b) : p.kind = q.kind => p = q
           /\ (\E q \in Started(b) : q.kind = "mc") <=> Start(b).mc = "Active" /\ b.mc # "Active"
           /\ (\E q \in Started(b) : q.kind = "chk") <=> Start(b).chk = "Active" /\ b.chk # "Active"
           /\ (\E q \in Started(b) : q.kind = "get") <=> Start(b).get = "Active" /\ b.get # "Active"
           /\ \A q \in Started(b) : q.kind = "chk" =>
                  /\ conf.init # None /\ q.to # None
                  /\ q.from = conf.init \/ q.to = conf.init
                  /\ Height(q.from) <= Height(q.to)
<1> DEFINE mc == Ask("mc", 0, None)  get == DoGetLastBlock(b)  chk == DoCheckInitBlock(b)
           empty == IF SkipCheck(b) THEN "Done" ELSE b.chk
<1>1. mc \in Query /\ mc.kind = "mc" /\ mc.phase = "asked"
  BY AskType, HeightsAreNat DEF Refs
<1>2. get \in Query /\ get.kind = "get" /\ get.phase = "asked"
  BY AskType DEF DoGetLastBlock, Refs, Actor
<1>3. Checked(b).chk = empty
  BY CheckedFacts
<1>4. Started(b) = {q \in {mc, get} : \/ q.kind = "mc" /\ b.held # {} /\ b.mc = "Empty"
                                      \/ q.kind = "get" /\ b.held # {} /\ b.get = "Empty"
                                         /\ empty = "Done"}
                   \cup (IF b.held # {} /\ empty = "Empty" THEN {chk} ELSE {})
  BY <1>3 DEF Started
<1>5. ASSUME b.held # {}, empty = "Empty"
      PROVE  /\ conf.init # None /\ chk \in Query /\ chk.kind = "chk" /\ chk.phase = "asked"
             /\ chk.to # None /\ (chk.from = conf.init \/ chk.to = conf.init)
             /\ Height(chk.from) <= Height(chk.to)
  <2>1. b.chk = "Empty" /\ conf.init # None
    BY <1>5 DEF SkipCheck, Actor, QueryState
  <2>2. conf.init \in InitBlocks /\ b.key \in Heights
    BY <2>1 DEF Config, InitRefs, Actor
  <2>3. conf.init \in Refs /\ b.key \in Refs /\ Height(b.key) = b.key
        /\ Height(conf.init) \in Heights
    BY <2>2, HeightOfRef DEF Refs
  <2>4. b.key \in Int /\ conf.init \in Int /\ Height(conf.init) \in Int
    BY <2>2, <2>3, HeightsAreNat, BlockAssumption
  <2>5. CASE b.key >= Height(conf.init)
    <3>1. chk = Ask("chk", conf.init, b.key)
      BY <2>5 DEF DoCheckInitBlock
    <3> HIDE DEF chk
    <3> QED
      BY <2>1, <2>3, <2>4, <2>5, <3>1, AskType, BlockAssumption
  <2>6. CASE ~(b.key >= Height(conf.init))
    <3>1. chk = Ask("chk", b.key, conf.init)
      BY <2>6 DEF DoCheckInitBlock
    <3> HIDE DEF chk
    <3> QED
      BY <2>1, <2>3, <2>4, <2>6, <3>1, AskType, BlockAssumption
  <2> QED
    BY <2>5, <2>6
<1>6. /\ Start(b).mc = (IF b.held # {} /\ b.mc = "Empty" THEN "Active" ELSE b.mc)
      /\ Start(b).chk = (IF b.held # {} /\ empty = "Empty" THEN "Active" ELSE empty)
      /\ Start(b).get = (IF b.held # {} /\ b.get = "Empty" /\ empty = "Done" THEN "Active"
                         ELSE b.get)
  BY StartFacts
<1>7. empty \in QueryState /\ (empty = "Empty" => b.chk = "Empty")
      /\ (empty = "Active" <=> b.chk = "Active")
      /\ b.mc \in QueryState /\ b.get \in QueryState
  BY DEF SkipCheck, Actor, QueryState
<1> HIDE DEF mc, get, chk, empty
<1> QED
  BY <1>1, <1>2, <1>4, <1>5, <1>6, <1>7 DEF QueryState

LEMMA SyncAfterType ==
    ASSUME TypeOK, NEW q \in wire, NEW b \in Actor, NEW failed, NEW more \in SUBSET Query,
           SyncAfter(q, b, failed, more)
    PROVE  /\ lb' \in Actor /\ wire' \subseteq Query
           /\ status' \in [Requests -> {"free", "sent", "held", "ok"}]
           /\ got' \in [Requests -> Heights] /\ asof' \in [Requests -> Heights]
<1>1. lb' \in Actor /\ wire' \subseteq Query
  BY SyncLoopFacts, StartedFacts DEF SyncAfter, TypeOK
<1>2. b.last \in Heights /\ 0 \in Heights
  BY HeightsAreNat DEF Actor
<1> QED
  BY <1>1, <1>2 DEF SyncAfter, TypeOK

LEMMA NewActorFacts ==
    ASSUME NEW s \in State, NEW c \in Config
    PROVE  LET a == NewActor(s, c)
           IN  /\ a \in Actor
               /\ a.zero = s.zero /\ a.key = s.key /\ a.last = s.key /\ a.init = s.init
               /\ a.fatal = FALSE /\ a.held = {}
               /\ a.mc = "Empty" /\ a.chk = "Empty" /\ a.get = "Empty"
               /\ a.min = a.cur
<1> DEFINE m == IF c.init # None /\ c.init # s.init /\ Height(c.init) < s.key
                THEN Height(c.init) ELSE s.key
<1>1. s.key \in Heights /\ (c.init # None => Height(c.init) \in Heights)
  BY HeightOfRef DEF State, Config, InitRefs, Refs
<1>2. m \in Heights /\ 0 \in Heights
  BY <1>1, HeightsAreNat
<1> HIDE DEF m
<1>3. NewActor(s, c) =
        [zero |-> s.zero, key |-> s.key, last |-> s.key, init |-> s.init,
         fatal |-> FALSE, mc |-> "Empty", chk |-> "Empty", get |-> "Empty",
         held |-> {}, min |-> m, cur |-> m, max |-> 0, sync |-> "Invalid"]
  BY DEF NewActor, m
<1> QED
  BY <1>1, <1>2, <1>3 DEF Actor, QueryState, State

LEMMA LoadedFacts ==
    ASSUME NEW c \in Config, store \in [Networks -> State \cup {None}]
    PROVE  /\ Loaded(c) \in State /\ Loaded(c).vert = c.vert /\ Loaded(c).key \in Heights
           /\ ~Kept(c) => Loaded(c).zero = c.net /\ Loaded(c).init = None
                          /\ Loaded(c).key = MasterInit
           /\ Kept(c) => /\ store[c.net] # None /\ store[c.net] \in State
                         /\ Loaded(c).zero = store[c.net].zero
                         /\ Loaded(c).init = store[c.net].init
                         /\ Loaded(c).key >= store[c.net].key
                         /\ ~c.ignoreCache /\ store[c.net].vert >= c.vert
                         /\ Loaded(c).key \in {MasterInit, store[c.net].key}
<1> DEFINE s == IF Kept(c) THEN store[c.net] ELSE ZeroState(c)
<1>1. c.net \in Networks /\ c.vert \in Nat
  BY DEF Config
<1>2. ZeroState(c) \in State /\ ZeroState(c).zero = c.net /\ ZeroState(c).init = None
      /\ ZeroState(c).key = 0
  BY <1>1, HeightsAreNat DEF ZeroState, State, InitRefs
<1>3. Kept(c) => /\ store[c.net] # None /\ store[c.net] \in State
                 /\ ~c.ignoreCache /\ store[c.net].vert >= c.vert
  BY <1>1 DEF Kept
<1>4. s \in State /\ (~Kept(c) => s = ZeroState(c)) /\ (Kept(c) => s = store[c.net])
  BY <1>2, <1>3
<1> DEFINE k == IF s.key < MasterInit THEN MasterInit ELSE s.key
<1>5. Loaded(c) = [s EXCEPT !.vert = c.vert, !.key = k]
  BY DEF Loaded
<1> HIDE DEF s
<1>6. /\ s.key \in Heights /\ s.key \in Int /\ s.key >= 0 /\ MasterInit \in Heights
      /\ MasterInit \in Int /\ MasterInit >= 0
  BY <1>4, HeightsAreNat DEF State
<1>7. k \in Heights /\ k >= s.key /\ k \in {MasterInit, s.key} /\ (s.key = 0 => k = MasterInit)
  BY <1>6
<1> HIDE DEF k
<1>8. /\ Loaded(c) \in State /\ Loaded(c).vert = c.vert /\ Loaded(c).key = k
      /\ Loaded(c).zero = s.zero /\ Loaded(c).init = s.init
  BY <1>1, <1>4, <1>5, <1>7 DEF State
<1> QED
  BY <1>2, <1>3, <1>4, <1>7, <1>8

\* What a client of an earlier activity writes.
LEMMA LateFacts ==
    ASSUME TypeOK, NEW o \in earlier, LateWrite(o)
    PROVE  /\ o \in [conf : Config, st : State] /\ o.conf.net \in Networks
           /\ UNCHANGED <<tip, gen, conf, lb, wire, mail, status, got, asof, configs, losses>>
           /\ \E s \in State :
                 /\ store' = [store EXCEPT ![o.conf.net] = s]
                 /\ \A n \in Networks : store'[n] = store[n] \/ (n = o.conf.net /\ store'[n] = s)
                 /\ store' \in [Networks -> State \cup {None}]
                 /\ earlier' \subseteq [conf : Config, st : State] /\ earlier' # {}
                 /\ \A p \in earlier' : p \in earlier \/ (p.conf = o.conf /\ p.st = s)
                 /\ s.zero = o.st.zero /\ s.init \in {o.st.init} \cup Heights
                 /\ s.key <= tip
<1>1. /\ o \in [conf : Config, st : State] /\ o.conf \in Config /\ o.st \in State
      /\ o.conf.net \in Networks /\ o.conf.init \in InitRefs /\ tip \in Heights
      /\ earlier \subseteq [conf : Config, st : State]
      /\ store \in [Networks -> State \cup {None}]
  BY DEF TypeOK, Config
<1>2. PICK e \in o.st.key..tip, k \in Heights :
        /\ IsKeyOn(k, o.st.key, e)
        /\ LET s == [o.st EXCEPT !.last = IF @ < e THEN e ELSE @,
                                 !.key = IF @ < k THEN k ELSE @,
                                 !.init = IF o.conf.init = None THEN @ ELSE o.conf.init]
           IN  /\ store' = [store EXCEPT ![o.conf.net] = s]
               /\ earlier' = (earlier \ {o}) \cup {[o EXCEPT !.st = s]}
  BY DEF LateWrite
<1> DEFINE last == IF o.st.last < e THEN e ELSE o.st.last
           key == IF o.st.key < k THEN k ELSE o.st.key
           init == IF o.conf.init = None THEN o.st.init ELSE o.conf.init
           s == [o.st EXCEPT !.last = last, !.key = key, !.init = init]
           p == [o EXCEPT !.st = s]
<1>3. store' = [store EXCEPT ![o.conf.net] = s] /\ earlier' = (earlier \ {o}) \cup {p}
  BY <1>2
<1>4. /\ o.st.key \in Heights /\ o.st.last \in Heights /\ e \in Int /\ tip \in Int
      /\ o.st.key \in Int /\ o.st.last \in Int /\ k \in Int /\ o.st.key <= e /\ e <= tip
      /\ e \in Heights
  <2>1. o.st.key \in Heights /\ o.st.last \in Heights
    BY <1>1 DEF State
  <2>2. o.st.key \in 0..MaxTip /\ tip \in 0..MaxTip /\ MaxTip \in Nat
    BY <1>1, <2>1, BlockAssumption DEF Heights
  <2> QED
    BY <1>1, <1>2, <2>1, <2>2, HeightsAreNat DEF Heights
<1>5. k <= e \/ k = 0
  <2> DEFINE on == {j \in KeyBlocks : o.st.key < j /\ j <= e}
  <2>1. IF on = {} THEN k = 0 ELSE k \in on /\ \A j \in on : j <= k
    BY <1>2 DEF IsKeyOn
  <2> QED
    BY <2>1
<1>6. last \in Heights /\ key \in Heights /\ key <= tip
  BY <1>2, <1>4, <1>5, HeightsAreNat
<1>7. init \in InitRefs /\ init \in {o.st.init} \cup Heights
  <2>1. o.conf.init # None => o.conf.init \in Heights
    <3>1. o.conf.init \in 0..tip \cup {None}
      BY DEF LateWrite
    <3> QED
      BY <1>1, <3>1, BlockAssumption DEF Heights
  <2>2. o.st.init \in InitRefs
    BY <1>1 DEF State
  <2> QED
    BY <1>1, <2>1, <2>2
<1> HIDE DEF last, key, init
<1>8. s \in State /\ s.zero = o.st.zero /\ s.key = key /\ s.init = init
  BY <1>1, <1>6, <1>7 DEF State
<1> HIDE DEF s
<1>9. p \in [conf : Config, st : State] /\ p.conf = o.conf /\ p.st = s
  BY <1>1, <1>8
<1> HIDE DEF p
<1>10. store' \in [Networks -> State \cup {None}]
       /\ \A n \in Networks : store'[n] = store[n] \/ (n = o.conf.net /\ store'[n] = s)
  BY <1>1, <1>3, <1>8
<1>11. /\ earlier' \subseteq [conf : Config, st : State] /\ earlier' # {}
       /\ \A x \in earlier' : x \in earlier \/ (x.conf = o.conf /\ x.st = s)
  BY <1>1, <1>3, <1>9
<1>12. UNCHANGED <<tip, gen, conf, lb, wire, mail, status, got, asof, configs, losses>>
  BY DEF LateWrite
<1> QED
  BY <1>1, <1>3, <1>6, <1>7, <1>8, <1>10, <1>11, <1>12

\* The client that an activity leaves behind has its configuration, and a state
\* that is the actor's or on its way to the disk.
LEMMA LeftFacts ==
    ASSUME TypeOK, Recreate
    PROVE  /\ earlier' \subseteq [conf : Config, st : State] /\ earlier' # {}
           /\ \E s \in State :
                 /\ \A p \in earlier' : p \in earlier \/ (p.conf = conf /\ p.st = s)
                 /\ \/ s.zero = lb.zero /\ s.key = lb.key /\ s.init = lb.init
                    \/ \E i \in 1..Len(mail) : mail[i].gen = gen /\ mail[i].st = s
<1> DEFINE M == [gen : 1..MaxConfigs, st : State]
<1>1. /\ lb \in Actor /\ conf \in Config /\ mail \in Seq(M)
      /\ earlier \subseteq [conf : Config, st : State]
  BY DEF TypeOK
<1>2. PICK s \in Unsaved : earlier' = earlier \cup {[conf |-> conf, st |-> s]}
  BY DEF Recreate
<1>3. StateOf(lb) \in State /\ StateOf(lb).zero = lb.zero /\ StateOf(lb).key = lb.key
      /\ StateOf(lb).init = lb.init
  BY <1>1 DEF StateOf, State, Actor, Config
<1>4. s = StateOf(lb) \/ \E i \in 1..Len(mail) : mail[i].gen = gen /\ mail[i].st = s
  BY <1>2 DEF Unsaved
<1>5. \A i \in 1..Len(mail) : mail[i].st \in State
  <2>1. \A m \in M : m.st \in State
    OBVIOUS
  <2> HIDE DEF M
  <2> QED
    BY <1>1, <2>1, ElementOfSeq
<1>6. s \in State
  BY <1>3, <1>4, <1>5
<1>7. \A p \in earlier' : p \in earlier \/ (p.conf = conf /\ p.st = s)
  BY <1>2
<1>8. earlier' \subseteq [conf : Config, st : State] /\ earlier' # {}
  <2> DEFINE p == [conf |-> conf, st |-> s]
  <2>1. p \in [conf : Config, st : State] /\ earlier' = earlier \cup {p}
    BY <1>1, <1>2, <1>6
  <2> HIDE DEF p
  <2> QED
    BY <1>1, <2>1
<1>9. \/ s.zero = lb.zero /\ s.key = lb.key /\ s.init = lb.init
      \/ \E i \in 1..Len(mail) : mail[i].gen = gen /\ mail[i].st = s
  BY <1>3, <1>4
<1> QED
  BY <1>6, <1>7, <1>8, <1>9

\* The actor after each kind of answer is one.
LEMMA AnswerTypes ==
    ASSUME TypeOK, NEW q \in wire
    PROVE  /\ q \in Query /\ lb \in Actor /\ conf \in Config
           /\ [lb EXCEPT !.mc = "Empty", !.held = {}] \in Actor
           /\ [[lb EXCEPT !.mc = "Empty"] EXCEPT !.held = {}] \in Actor
           /\ [[lb EXCEPT !.chk = "Empty"] EXCEPT !.held = {}] \in Actor
           /\ LET b == [lb EXCEPT !.mc = "Done", !.max = IF @ < q.end THEN q.end ELSE @]
              IN  b \in Actor /\ [[b EXCEPT !.fatal = TRUE] EXCEPT !.held = {}] \in Actor
           /\ LET b == UpdateState(lb, q)
              IN  /\ b \in Actor /\ [b EXCEPT !.get = "Done"] \in Actor
                  /\ UpdateInitBlock([b EXCEPT !.chk = "Done"]) \in Actor
                  /\ DoGetLastBlock(b) \in Query
                  /\ StateOf(b) \in State
                  /\ StateOf(UpdateInitBlock([b EXCEPT !.chk = "Done"])) \in State
           /\ q.kind = "chk" => Ask("chk", q.end, q.to) \in Query
<1>1. q \in Query /\ lb \in Actor /\ conf \in Config
  BY DEF TypeOK
<1>2. q.end \in Heights /\ lb.max \in Heights /\ lb.key \in Heights
      /\ q.to \in Refs \cup {None}
  BY <1>1 DEF Query, Actor
<1>3. /\ [lb EXCEPT !.mc = "Empty", !.held = {}] \in Actor
      /\ [[lb EXCEPT !.mc = "Empty"] EXCEPT !.held = {}] \in Actor
      /\ [[lb EXCEPT !.chk = "Empty"] EXCEPT !.held = {}] \in Actor
  BY <1>1 DEF Actor, QueryState
<1>4. LET b == [lb EXCEPT !.mc = "Done", !.max = IF @ < q.end THEN q.end ELSE @]
      IN  b \in Actor /\ [[b EXCEPT !.fatal = TRUE] EXCEPT !.held = {}] \in Actor
  BY <1>1, <1>2 DEF Actor, QueryState
<1> DEFINE b == UpdateState(lb, q)
           d == [b EXCEPT !.chk = "Done"]
<1>5. b \in Actor
  BY <1>1, UpdateStateFacts
<1> HIDE DEF b
<1>6. [b EXCEPT !.get = "Done"] \in Actor /\ d \in Actor
  BY <1>5 DEF Actor, QueryState
<1>7. UpdateInitBlock(d) \in Actor
  BY <1>1, <1>6, UpdateInitFacts
<1>8. DoGetLastBlock(b) \in Query
  BY <1>5, AskType DEF DoGetLastBlock, Actor, Refs
<1>9. \A a \in Actor : StateOf(a) \in State
  BY <1>1 DEF StateOf, State, Actor, Config
<1>10. q.kind = "chk" => Ask("chk", q.end, q.to) \in Query
  BY <1>2, AskType DEF Refs
<1> QED
  BY <1>1, <1>3, <1>4, <1>5, <1>6, <1>7, <1>8, <1>9, <1>10 DEF b

LEMMA SavedType ==
    ASSUME TypeOK, gen # 0, NEW b \in Actor
    PROVE  /\ SaveState(b) \in Seq([gen : 1..MaxConfigs, st : State])
           /\ \A q : Saved(q, b) \in Seq([gen : 1..MaxConfigs, st : State])
<1>1. StateOf(b) \in State
  BY DEF StateOf, State, Actor, Config, TypeOK
<1>2. gen \in 1..MaxConfigs
  BY BlockAssumption DEF TypeOK
<1> DEFINE S == [gen : 1..MaxConfigs, st : State]
           rec == [gen |-> gen, st |-> StateOf(b)]
<1>3. rec \in S
  BY <1>1, <1>2
<1> HIDE DEF rec, S
<1>4. <<rec>> \in Seq(S) /\ << >> \in Seq(S)
  BY <1>3
<1> QED
  BY <1>4 DEF SaveState, Saved, rec, S

\* Nothing but the file exists while the process is down.
Down ==
    /\ gen <= configs
    /\ gen = 0 => /\ wire = {} /\ mail = <<>> /\ lb.held = {}
                  /\ \A r \in Requests : status[r] = "free"

TypeInv == TypeOK /\ Down

LEMMA TakeType ==
    ASSUME TypeInv, NEW r \in Requests, GetLastBlock(r)
    PROVE  /\ lb' \in Actor /\ wire' \subseteq Query /\ gen # 0
           /\ status' \in [Requests -> {"free", "sent", "held", "ok"}]
           /\ got' \in [Requests -> Heights] /\ asof' \in [Requests -> Heights]
<1>1. lb \in Actor /\ wire \subseteq Query /\ conf \in Config /\ gen # 0
      /\ tip \in Heights
  BY DEF GetLastBlock, TypeInv, TypeOK, Down
<1>2. CASE lb.fatal
  BY <1>1, <1>2 DEF GetLastBlock, TypeInv, TypeOK
<1>3. CASE ~lb.fatal
  <2> DEFINE b == Reset(r)
  <2>1. b \in Actor
    BY <1>1 DEF Reset, Actor, QueryState
  <2>2. Take(r, b)
    BY <1>3 DEF GetLastBlock
  <2> HIDE DEF b
  <2>3. lb' \in Actor /\ wire' \subseteq Query
    BY <1>1, <2>1, <2>2, SyncLoopFacts, StartedFacts DEF Take
  <2>4. b.last \in Heights /\ 0 \in Heights
    BY <2>1, HeightsAreNat DEF Actor
  <2> QED
    BY <1>1, <2>2, <2>3, <2>4 DEF Take, TypeInv, TypeOK
<1> QED
  BY <1>2, <1>3

\* Every variable keeps its type, also when states to be saved outlive the
\* configuration they belong to.
THEOREM TypeCorrect == Spec => []TypeInv
<1>1. Init => TypeInv
  <2> SUFFICES ASSUME Init PROVE TypeInv
    OBVIOUS
  <2>1. conf \in Config /\ conf.net \in Networks
    BY InitConf DEF Init
  <2>2. store \in [Networks -> State \cup {None}]
    BY DEF Init
  <2>3. lb \in Actor /\ lb.held = {}
    <3>1. Loaded(conf) \in State
      BY <2>1, <2>2, LoadedFacts
    <3> QED
      BY <2>1, <3>1, NewActorFacts DEF Init
  <2>4. tip \in Heights /\ 0 \in Heights /\ mail \in Seq([gen : 1..MaxConfigs, st : State])
    BY BlockAssumption, HeightsAreNat DEF Init
  <2>5. gen \in 0..MaxConfigs /\ configs \in 0..MaxConfigs /\ losses \in 0..MaxLosses
    BY BlockAssumption DEF Init
  <2> QED
    BY <2>1, <2>2, <2>3, <2>4, <2>5 DEF Init, TypeInv, TypeOK, Down
<1>2. TypeInv /\ [Next]_vars => TypeInv'
  <2> SUFFICES ASSUME TypeInv, [Next]_vars PROVE TypeInv'
    OBVIOUS
  <2> USE DEF TypeInv
  <2>0. /\ lb \in Actor /\ conf \in Config /\ conf.net \in Networks /\ wire \subseteq Query
        /\ store \in [Networks -> State \cup {None}]
        /\ earlier \subseteq [conf : Config, st : State]
        /\ mail \in Seq([gen : 1..MaxConfigs, st : State])
    BY DEF TypeOK, Config
  <2>1. ASSUME NEW r \in Requests, Request(r) PROVE TypeInv'
    BY <2>1, HeightsAreNat DEF Request, TypeOK, Down
  <2>2. ASSUME NEW r \in Requests, GetLastBlock(r) PROVE TypeInv'
    <3>1. UNCHANGED <<tip, store, earlier, gen, conf, mail, configs, losses>>
      BY <2>2 DEF GetLastBlock
    <3> QED
      BY <2>2, <3>1, TakeType DEF TypeOK, Down
  <2>3. CASE Grow
    BY <2>3, BlockAssumption DEF Grow, TypeOK, Down, Heights
  <2>4. ASSUME NEW q \in wire, Serve(q) PROVE TypeInv'
    <3>1. gen # 0 /\ q \in Query /\ UNCHANGED <<tip, store, earlier, gen, conf, lb, mail, status, got, asof, configs, losses>>
      BY <2>4 DEF Serve, TypeOK, Down
    <3>2. CASE q.kind = "mc"
      <4>1. wire' = (wire \ {q}) \cup
              {[q EXCEPT !.phase = "answered", !.zero = conf.server, !.end = tip]}
        BY <2>4, <3>2 DEF Serve, ServeInfo
      <4>2. [q EXCEPT !.phase = "answered", !.zero = conf.server, !.end = tip] \in Query
        BY <3>1 DEF TypeOK, Query, Config
      <4> QED
        BY <3>1, <4>1, <4>2 DEF TypeOK, Down
    <3>3. CASE q.kind # "mc" /\ Provable(q)
      <4>1. ServeProof(q) /\ Provable(q)
        BY <2>4, <3>3 DEF Serve
      <4>2. PICK e \in q.from..Target(q), k \in Heights :
              wire' = (wire \ {q}) \cup
               {[q EXCEPT !.phase = "answered", !.end = e, !.key = k,
                          !.complete = (e = Target(q))]}
        BY <4>1 DEF ServeProof
      <4>3. e \in Heights
        <5>1. q.from \in 0..tip /\ Target(q) \in q.from..tip /\ tip \in 0..MaxTip
          BY <4>1 DEF Provable, TypeOK, Heights
        <5> QED
          BY <5>1, BlockAssumption DEF Heights
      <4>4. [q EXCEPT !.phase = "answered", !.end = e, !.key = k,
                      !.complete = (e = Target(q))] \in Query
        BY <3>1, <4>3 DEF Query
      <4> QED
        BY <3>1, <4>2, <4>4 DEF TypeOK, Down
    <3>4. CASE q.kind # "mc" /\ ~Provable(q)
      <4>1. wire' = (wire \ {q}) \cup {[q EXCEPT !.phase = "failed"]}
        BY <2>4, <3>4 DEF Serve, Refuse
      <4>2. [q EXCEPT !.phase = "failed"] \in Query
        BY <3>1 DEF Query
      <4> QED
        BY <3>1, <4>1, <4>2 DEF TypeOK, Down
    <3> QED
      BY <3>2, <3>3, <3>4
  <2>5. ASSUME NEW q \in wire, Lose(q) PROVE TypeInv'
    <3>1. losses' \in 0..MaxLosses
      BY <2>5, BlockAssumption DEF Lose, TypeOK
    <3> QED
      BY <2>5, <3>1 DEF Lose, Refuse, TypeOK, Query, Down
  <2>6. ASSUME NEW q \in wire, OnMasterchainInfo(q) PROVE TypeInv'
    <3>1. UNCHANGED <<tip, store, earlier, gen, conf, mail, configs, losses>> /\ gen # 0
      BY <2>6 DEF OnMasterchainInfo, Down
    <3>2. lb.held \in SUBSET Requests /\ {} \in SUBSET Requests
      BY <2>6 DEF TypeOK, Actor
    <3>3. \E b \in Actor, f \in SUBSET Requests : SyncAfter(q, b, f, {})
      BY <3>2, <2>6, AnswerTypes DEF OnMasterchainInfo, SyncError
    <3> QED
      BY <3>1, <3>3, SyncAfterType DEF TypeOK, Down
  <2>7. ASSUME NEW q \in wire, OnInitBlockProof(q) PROVE TypeInv'
    <3>1. UNCHANGED <<tip, store, earlier, gen, conf, configs, losses>> /\ gen # 0
      BY <2>7 DEF OnInitBlockProof, Down
    <3>2. /\ lb' \in Actor /\ wire' \subseteq Query
          /\ status' \in [Requests -> {"free", "sent", "held", "ok"}]
          /\ got' \in [Requests -> Heights] /\ asof' \in [Requests -> Heights]
      <4>1. CASE q.phase = "failed"
        <5> DEFINE a == [[lb EXCEPT !.chk = "Empty"] EXCEPT !.held = {}]
        <5>1. SyncAfter(q, a, lb.held, {})
          BY <2>7, <4>1 DEF OnInitBlockProof, SyncError
        <5>2. a \in Actor /\ {} \in SUBSET Query
          BY AnswerTypes
        <5> HIDE DEF a
        <5> QED
          BY <5>1, <5>2, SyncAfterType
      <4>2. CASE q.phase # "failed" /\ q.complete
        <5> DEFINE a == UpdateInitBlock([UpdateState(lb, q) EXCEPT !.chk = "Done"])
        <5>1. SyncAfter(q, a, {}, {})
          BY <2>7, <4>2 DEF OnInitBlockProof
        <5>2. a \in Actor /\ {} \in SUBSET Query
          BY AnswerTypes
        <5> HIDE DEF a
        <5> QED
          BY <5>1, <5>2, SyncAfterType
      <4>3. CASE q.phase # "failed" /\ ~q.complete
        <5>1. SyncAfter(q, UpdateState(lb, q), {}, {Ask("chk", q.end, q.to)})
          BY <2>7, <4>3 DEF OnInitBlockProof
        <5>2. UpdateState(lb, q) \in Actor /\ Ask("chk", q.end, q.to) \in Query
          BY <2>7, AnswerTypes DEF OnInitBlockProof
        <5>3. {Ask("chk", q.end, q.to)} \in SUBSET Query
          BY <5>2
        <5> QED
          BY <5>1, <5>2, <5>3, SyncAfterType
      <4> QED
        BY <4>1, <4>2, <4>3
    <3> DEFINE b == UpdateState(lb, q)
               c == UpdateInitBlock([b EXCEPT !.chk = "Done"])
               S == Seq([gen : 1..MaxConfigs, st : State])
               x == Saved(q, b)
               y == IF c.init # b.init THEN SaveState(c) ELSE <<>>
    <3>3. b \in Actor /\ c \in Actor
      BY AnswerTypes
    <3>4. mail' \in {mail, mail \o x, mail \o x \o y}
      BY <2>7 DEF OnInitBlockProof
    <3> HIDE DEF b, c
    <3>5. x \in S /\ SaveState(c) \in S /\ <<>> \in S /\ mail \in S
      <4>1. x \in S
        BY <3>1, <3>3, SavedType
      <4>2. SaveState(c) \in S
        BY <3>1, <3>3, SavedType
      <4> QED
        BY <4>1, <4>2, <2>0
    <3>6. y \in S
      BY <3>5
    <3> HIDE DEF x, y, S
    <3>7. mail \o x \in S /\ mail \o x \o y \in S
      BY <3>5, <3>6 DEF S
    <3>8. mail' \in S
      BY <3>4, <3>5, <3>7
    <3> QED
      BY <3>1, <3>2, <3>8 DEF TypeOK, Down, S
  <2>8. ASSUME NEW q \in wire, OnBlockProof(q) PROVE TypeInv'
    <3>1. UNCHANGED <<tip, store, earlier, gen, conf, configs, losses>> /\ gen # 0
      BY <2>8 DEF OnBlockProof, Down
    <3>2. CASE q.phase = "failed"
      <4>1. FailedBlockProof(q)
        BY <2>8, <3>2 DEF OnBlockProof
      <4>2. lb' \in Actor
        BY <4>1, <2>0 DEF FailedBlockProof, Actor, QueryState
      <4>3. status' \in [Requests -> {"free", "sent", "held", "ok"}]
            /\ asof' \in [Requests -> Heights] /\ got' \in [Requests -> Heights]
        BY <4>1, HeightsAreNat DEF FailedBlockProof, TypeOK
      <4>4. wire' \subseteq Query /\ mail' = mail
        BY <4>1, <2>0 DEF FailedBlockProof
      <4> QED
        BY <3>1, <4>2, <4>3, <4>4 DEF TypeOK, Down
    <3>3. CASE q.phase # "failed"
      <4> DEFINE b == UpdateState(lb, q)
                 S == Seq([gen : 1..MaxConfigs, st : State])
                 x == Saved(q, b)
      <4>1. mail' = mail \o x
        BY <2>8, <3>3 DEF OnBlockProof
      <4>2. \E a \in Actor, more \in SUBSET Query : SyncAfter(q, a, {}, more)
        BY <2>8, <3>3, AnswerTypes DEF OnBlockProof
      <4>3. b \in Actor
        BY AnswerTypes
      <4> HIDE DEF b
      <4>4. x \in S /\ mail \in S
        BY <3>1, <4>3, <2>0, SavedType
      <4> HIDE DEF x
      <4>5. mail' \in S
        BY <4>1, <4>4
      <4> QED
        BY <3>1, <4>2, <4>5, SyncAfterType DEF TypeOK, Down
    <3> QED
      BY <3>2, <3>3
  <2>9. CASE UpdateLastBlockState
    <3>1. Head(mail) \in [gen : 1..MaxConfigs, st : State]
          /\ Tail(mail) \in Seq([gen : 1..MaxConfigs, st : State])
      BY <2>9, <2>0, HeadTailProperties DEF UpdateLastBlockState
    <3>2. store' \in [Networks -> State \cup {None}] /\ mail' \in Seq([gen : 1..MaxConfigs, st : State])
      BY <2>9, <2>0, <3>1 DEF UpdateLastBlockState
    <3>3. gen # 0 /\ gen' = gen
      BY <2>9 DEF UpdateLastBlockState, Down
    <3> QED
      BY <2>9, <3>2, <3>3 DEF UpdateLastBlockState, TypeOK, Down
  <2>10. ASSUME NEW c \in Config, SetConfig(c) PROVE TypeInv'
    <3>1. c.net \in Networks /\ Loaded(c) \in State
      BY <2>0, LoadedFacts DEF Config
    <3>e. UNCHANGED earlier
      BY <2>10 DEF SetConfig
    <3>2. lb' \in Actor /\ store' \in [Networks -> State \cup {None}]
      BY <2>0, <2>10, <3>1, NewActorFacts DEF SetConfig
    <3>3. gen' \in 0..MaxConfigs /\ gen' # 0 /\ configs' \in 0..MaxConfigs
      BY <2>10, BlockAssumption DEF SetConfig, TypeOK, Down
    <3> QED
      BY <2>10, <3>2, <3>3, <3>e, HeightsAreNat DEF SetConfig, TypeOK, Down
  <2>11. CASE Replaced /\ earlier' \subseteq [conf : Config, st : State]
    <3>1. Loaded(conf) \in State
      BY <2>0, LoadedFacts
    <3>2. lb' \in Actor /\ lb'.held = {}
      BY <2>0, <2>11, <3>1, NewActorFacts DEF Replaced
    <3>3. gen' = 0 /\ gen' \in 0..MaxConfigs /\ mail' = <<>>
      BY <2>11, BlockAssumption DEF Replaced
    <3> QED
      BY <2>11, <3>2, <3>3, HeightsAreNat DEF Replaced, TypeOK, Down
  <2>13. CASE Die \/ Recreate
    <3>1. Die => Replaced /\ earlier' \subseteq [conf : Config, st : State]
      BY DEF Die
    <3>2. Recreate => Replaced /\ earlier' \subseteq [conf : Config, st : State]
      BY LeftFacts DEF Recreate
    <3> QED
      BY <2>11, <2>13, <3>1, <3>2
  <2>14. ASSUME NEW o \in earlier, LateWrite(o) PROVE TypeInv'
    BY <2>14, LateFacts DEF TypeOK, Down
  <2>12. CASE UNCHANGED vars
    BY <2>12 DEF vars, TypeOK, Down
  <2> QED
    BY <2>1, <2>2, <2>3, <2>4, <2>5, <2>6, <2>7, <2>8, <2>9, <2>10, <2>12, <2>13, <2>14,
       ConfigAssumption DEF Next, Configure
<1> QED
  BY <1>1, <1>2, PTL DEF Spec

-----------------------------------------------------------------------------
(* What the three answer handlers do, in one form.                         *)

\* The callers answered with an error, and the queries the handler itself sends.
Failed(q) == q.phase = "failed" \/ (q.kind = "mc" /\ ~lb.fatal /\ q.zero # lb.zero)
Lost(q) == IF Failed(q) THEN lb.held ELSE {}
Proof(q) == q.kind \in {"chk", "get"} /\ q.phase = "answered"
More(q) ==
    IF ~Proof(q) \/ q.complete THEN {}
    ELSE IF q.kind = "chk" THEN {Ask("chk", q.end, q.to)}
                           ELSE {Ask("get", KeyAfter(lb, q), None)}

\* The actor a that the handler of q hands to sync_loop, field by field.
Effect(q, a) ==
    /\ a.zero = lb.zero /\ a.min = lb.min /\ a.held = lb.held \ Lost(q)
    /\ a.mc = IF q.kind = "mc" THEN (IF q.phase = "failed" THEN "Empty" ELSE "Done")
              ELSE lb.mc
    /\ a.chk = IF q.kind # "chk" THEN lb.chk
               ELSE IF q.phase = "failed" THEN "Empty" ELSE IF q.complete THEN "Done" ELSE lb.chk
    /\ a.get = IF q.kind # "get" THEN lb.get
               ELSE IF q.phase = "failed" THEN "Empty" ELSE IF q.complete THEN "Done" ELSE lb.get
    /\ a.fatal <=> lb.fatal \/ (q.kind = "mc" /\ q.phase = "answered" /\ q.zero # lb.zero)
    /\ a.key = IF Proof(q) THEN KeyAfter(lb, q) ELSE lb.key
    /\ a.last = IF Proof(q) THEN LastAfter(lb, q) ELSE lb.last
    /\ a.init = IF Proof(q) /\ q.kind = "chk" /\ q.complete /\ ~lb.fatal /\ conf.init # None
                THEN conf.init ELSE lb.init
    /\ Proof(q) => a.cur <= a.max /\ lb.cur <= a.cur
    /\ ~Proof(q) => a.cur = lb.cur /\ lb.max <= a.max

\* What sync_loop then makes of it.
Outcome(q, a) ==
    /\ wire' = (wire \ {q}) \cup More(q) \cup Started(a)
    /\ lb' \in Actor
    /\ lb'.zero = a.zero /\ lb'.key = a.key /\ lb'.last = a.last /\ lb'.init = a.init
    /\ lb'.fatal = a.fatal /\ lb'.min = a.min /\ lb'.cur = a.cur /\ lb'.max = a.max
    /\ lb'.mc = Start(a).mc /\ lb'.chk = Start(a).chk /\ lb'.get = Start(a).get
    /\ lb'.held = a.held \ Answered(a)
    /\ status' = [r \in Requests |-> IF r \in Answered(a) THEN "ok"
                                     ELSE IF r \in Lost(q) THEN "free" ELSE status[r]]
    /\ got' = [r \in Requests |-> IF r \in Answered(a) THEN a.last ELSE got[r]]
    /\ asof' = [r \in Requests |-> IF r \in Lost(q) THEN 0 ELSE asof[r]]

AnswerOf(q) == OnMasterchainInfo(q) \/ OnInitBlockProof(q) \/ OnBlockProof(q)

LEMMA OutcomeOfSync ==
    ASSUME NEW q \in wire, NEW a \in Actor, SyncAfter(q, a, Lost(q), More(q))
    PROVE  Outcome(q, a)
  BY SyncLoopFacts DEF SyncAfter, Outcome

LEMMA IdleStart ==
    ASSUME NEW a \in Actor, conf \in Config, a.held = {}
    PROVE  /\ Started(a) = {} /\ Answered(a) = {}
           /\ Start(a).mc = a.mc /\ Start(a).chk = a.chk /\ Start(a).get = a.get
<1>1. ~SkipCheck(a)
  BY DEF SkipCheck
<1> QED
  BY <1>1, StartFacts, StartedFacts DEF Answered

LEMMA InfoAnswer ==
    ASSUME TypeInv, NEW q \in wire, OnMasterchainInfo(q)
    PROVE  \E a \in Actor : Effect(q, a) /\ Outcome(q, a)
<1>0. q \in Query /\ lb \in Actor /\ q.kind = "mc" /\ q.phase \in {"answered", "failed"}
      /\ q.end \in Heights /\ lb.max \in Heights /\ q.end \in Int /\ lb.max \in Int
      /\ lb.fatal \in BOOLEAN /\ lb.held \ {} = lb.held
  BY HeightsAreNat DEF OnMasterchainInfo, TypeInv, TypeOK, Query, Actor
<1>1. CASE q.phase = "failed"
  <2> DEFINE a == [[lb EXCEPT !.mc = "Empty"] EXCEPT !.held = {}]
  <2>1. /\ a \in Actor /\ a.held = {} /\ a.mc = "Empty"
        /\ a.zero = lb.zero /\ a.key = lb.key /\ a.last = lb.last /\ a.init = lb.init /\ a.fatal = lb.fatal
        /\ a.chk = lb.chk /\ a.get = lb.get /\ a.min = lb.min /\ a.cur = lb.cur /\ a.max = lb.max
    BY <1>0 DEF Actor, QueryState
  <2>2. Lost(q) = lb.held /\ More(q) = {}
    BY <1>0, <1>1 DEF Lost, Failed, More, Proof
  <2>3. SyncAfter(q, a, lb.held, {})
    BY <1>1 DEF OnMasterchainInfo, SyncError
  <2> HIDE DEF a
  <2>4. Effect(q, a)
    BY <1>0, <1>1, <2>1, <2>2, HeightsAreNat DEF Effect, Proof, Actor
  <2> QED
    BY <2>1, <2>4, <2>2, <2>3, OutcomeOfSync
<1>2. CASE q.phase = "answered"
  <2> DEFINE max == IF lb.max < q.end THEN q.end ELSE lb.max
             b == [lb EXCEPT !.mc = "Done", !.max = max]
             c == [[b EXCEPT !.fatal = TRUE] EXCEPT !.held = {}]
  <2>0. max \in Heights /\ lb.max <= max
    BY <1>0
  <2>1. CASE ~lb.fatal /\ q.zero # lb.zero
    <3>1. SyncAfter(q, c, b.held, {})
      BY <1>0, <1>2, <2>1 DEF OnMasterchainInfo, SyncError, Actor
    <3> HIDE DEF max
    <3>2. c \in Actor /\ Effect(q, c) /\ b.held = lb.held
      BY <1>0, <1>2, <2>0, <2>1 DEF Effect, Lost, Failed, Proof, Actor, QueryState
    <3>3. Lost(q) = lb.held /\ More(q) = {}
      BY <1>0, <1>2, <2>1 DEF Lost, Failed, More, Proof
    <3> HIDE DEF c, b
    <3> QED
      BY <3>1, <3>2, <3>3, OutcomeOfSync
  <2>2. CASE ~(~lb.fatal /\ q.zero # lb.zero)
    <3>1. SyncAfter(q, b, {}, {})
      BY <1>0, <1>2, <2>2 DEF OnMasterchainInfo, SyncError
    <3> HIDE DEF max
    <3>2. b \in Actor /\ Effect(q, b)
      BY <1>0, <1>2, <2>0, <2>2 DEF Effect, Lost, Failed, Proof, Actor, QueryState
    <3>3. Lost(q) = {} /\ More(q) = {}
      BY <1>0, <1>2, <2>2 DEF Lost, Failed, More, Proof
    <3> HIDE DEF b
    <3> QED
      BY <3>1, <3>2, <3>3, OutcomeOfSync
  <2> QED
    BY <2>1, <2>2
<1> QED
  BY <1>0, <1>1, <1>2

LEMMA InitAnswer ==
    ASSUME TypeInv, NEW q \in wire, OnInitBlockProof(q)
    PROVE  \E a \in Actor : Effect(q, a) /\ Outcome(q, a)
<1>0. q \in Query /\ lb \in Actor /\ q.kind = "chk" /\ q.phase \in {"answered", "failed"}
      /\ lb.fatal \in BOOLEAN /\ lb.held \ {} = lb.held /\ conf \in Config
      /\ lb.cur \in Int /\ lb.max \in Int
  BY HeightsAreNat DEF OnInitBlockProof, TypeInv, TypeOK, Query, Actor
<1>1. CASE q.phase = "failed"
  <2> DEFINE a == [[lb EXCEPT !.chk = "Empty"] EXCEPT !.held = {}]
  <2>1. /\ a \in Actor /\ a.held = {} /\ a.chk = "Empty"
        /\ a.zero = lb.zero /\ a.key = lb.key /\ a.last = lb.last /\ a.init = lb.init /\ a.fatal = lb.fatal
        /\ a.mc = lb.mc /\ a.get = lb.get /\ a.min = lb.min /\ a.cur = lb.cur /\ a.max = lb.max
    BY <1>0 DEF Actor, QueryState
  <2>2. Lost(q) = lb.held /\ More(q) = {}
    BY <1>0, <1>1 DEF Lost, Failed, More, Proof
  <2>3. SyncAfter(q, a, lb.held, {})
    BY <1>1 DEF OnInitBlockProof, SyncError
  <2> HIDE DEF a
  <2>4. Effect(q, a)
    BY <1>0, <1>1, <2>1, <2>2, HeightsAreNat DEF Effect, Proof, Actor
  <2> QED
    BY <2>1, <2>4, <2>2, <2>3, OutcomeOfSync
<1>2. CASE q.phase = "answered"
  <2> DEFINE b == UpdateState(lb, q)
             d == [b EXCEPT !.chk = "Done"]
             c == UpdateInitBlock(d)
  <2>0. Lost(q) = {} /\ Proof(q)
    BY <1>0, <1>2 DEF Lost, Failed, Proof
  <2>1. /\ b \in Actor
        /\ b.last = LastAfter(lb, q) /\ b.key = KeyAfter(lb, q)
        /\ b.zero = lb.zero /\ b.init = lb.init /\ b.fatal = lb.fatal /\ b.min = lb.min
        /\ b.held = lb.held /\ b.mc = lb.mc /\ b.chk = lb.chk /\ b.get = lb.get
        /\ lb.cur <= b.cur /\ b.cur <= b.max
    BY <1>0, UpdateStateFacts
  <2>2. CASE q.complete
    <3>1. SyncAfter(q, c, {}, {})
      BY <1>2, <2>2 DEF OnInitBlockProof
    <3> HIDE DEF b
    <3>2. /\ d \in Actor /\ d.chk = "Done"
          /\ d.last = b.last /\ d.key = b.key
          /\ d.zero = b.zero /\ d.init = b.init /\ d.fatal = b.fatal /\ d.min = b.min
          /\ d.held = b.held /\ d.mc = b.mc /\ d.get = b.get
          /\ d.cur = b.cur /\ d.max = b.max
      BY <2>1 DEF Actor, QueryState
    <3> HIDE DEF d
    <3>3. /\ c \in Actor
          /\ c.last = d.last /\ c.key = d.key
          /\ c.zero = d.zero /\ c.fatal = d.fatal /\ c.min = d.min
          /\ c.held = d.held /\ c.mc = d.mc /\ c.chk = d.chk /\ c.get = d.get
          /\ c.cur = d.cur /\ c.max = d.max
          /\ c.init = IF d.fatal \/ conf.init = None THEN d.init ELSE conf.init
      BY <1>0, <3>2, UpdateInitFacts
    <3> HIDE DEF c
    <3>4. Effect(q, c)
      BY <1>0, <1>2, <2>0, <2>1, <2>2, <3>2, <3>3 DEF Effect
    <3>5. More(q) = {}
      BY <2>2 DEF More
    <3> QED
      BY <2>0, <3>1, <3>3, <3>4, <3>5, OutcomeOfSync
  <2>3. CASE ~q.complete
    <3>1. SyncAfter(q, b, {}, {Ask("chk", q.end, q.to)})
      BY <1>2, <2>3 DEF OnInitBlockProof
    <3> HIDE DEF b
    <3>2. Effect(q, b)
      BY <1>0, <1>2, <2>0, <2>1, <2>3 DEF Effect
    <3>3. More(q) = {Ask("chk", q.end, q.to)}
      BY <1>0, <2>0, <2>3 DEF More
    <3> QED
      BY <2>0, <2>1, <3>1, <3>2, <3>3, OutcomeOfSync
  <2> QED
    BY <2>2, <2>3
<1> QED
  BY <1>0, <1>1, <1>2

LEMMA BlockAnswer ==
    ASSUME TypeInv, NEW q \in wire, OnBlockProof(q)
    PROVE  \E a \in Actor : Effect(q, a) /\ Outcome(q, a)
<1>0. q \in Query /\ lb \in Actor /\ q.kind = "get" /\ q.phase \in {"answered", "failed"}
      /\ lb.fatal \in BOOLEAN /\ lb.held \ {} = lb.held /\ conf \in Config
      /\ lb.cur \in Int /\ lb.max \in Int
  BY HeightsAreNat DEF OnBlockProof, TypeInv, TypeOK, Query, Actor
<1>1. CASE q.phase = "failed"
  <2> DEFINE a == [lb EXCEPT !.get = "Empty", !.held = {}]
  <2>1. /\ a \in Actor /\ a.held = {} /\ a.get = "Empty"
        /\ a.zero = lb.zero /\ a.key = lb.key /\ a.last = lb.last /\ a.init = lb.init /\ a.fatal = lb.fatal
        /\ a.mc = lb.mc /\ a.chk = lb.chk /\ a.min = lb.min /\ a.cur = lb.cur /\ a.max = lb.max
    BY <1>0 DEF Actor, QueryState
  <2>2. Lost(q) = lb.held /\ More(q) = {}
    BY <1>0, <1>1 DEF Lost, Failed, More, Proof
  <2>3. /\ lb' = a /\ wire' = wire \ {q} /\ got' = got
        /\ status' = [r \in Requests |-> IF r \in lb.held THEN "free" ELSE status[r]]
        /\ asof' = [r \in Requests |-> IF r \in lb.held THEN 0 ELSE asof[r]]
    BY <1>1 DEF OnBlockProof, FailedBlockProof
  <2> HIDE DEF a
  <2>4. Effect(q, a)
    BY <1>0, <1>1, <2>1, <2>2, HeightsAreNat DEF Effect, Proof, Actor
  <2>5. /\ Started(a) = {} /\ Answered(a) = {}
        /\ Start(a).mc = a.mc /\ Start(a).chk = a.chk /\ Start(a).get = a.get
    BY <1>0, <2>1, IdleStart
  <2>6. got = [r \in Requests |-> got[r]]
    BY DEF TypeInv, TypeOK
  <2> QED
    BY <2>1, <2>4, <2>2, <2>3, <2>5, <2>6 DEF Outcome
<1>2. CASE q.phase = "answered"
  <2> DEFINE b == UpdateState(lb, q)
             d == [b EXCEPT !.get = "Done"]
  <2>0. Lost(q) = {} /\ Proof(q)
    BY <1>0, <1>2 DEF Lost, Failed, Proof
  <2>1. /\ b \in Actor
        /\ b.last = LastAfter(lb, q) /\ b.key = KeyAfter(lb, q)
        /\ b.zero = lb.zero /\ b.init = lb.init /\ b.fatal = lb.fatal /\ b.min = lb.min
        /\ b.held = lb.held /\ b.mc = lb.mc /\ b.chk = lb.chk /\ b.get = lb.get
        /\ lb.cur <= b.cur /\ b.cur <= b.max
    BY <1>0, UpdateStateFacts
  <2>2. CASE q.complete
    <3>1. SyncAfter(q, d, {}, {})
      BY <1>2, <2>2 DEF OnBlockProof
    <3> HIDE DEF b
    <3>2. /\ d \in Actor /\ d.get = "Done"
          /\ d.last = b.last /\ d.key = b.key
          /\ d.zero = b.zero /\ d.init = b.init /\ d.fatal = b.fatal /\ d.min = b.min
          /\ d.held = b.held /\ d.mc = b.mc /\ d.chk = b.chk
          /\ d.cur = b.cur /\ d.max = b.max
      BY <2>1 DEF Actor, QueryState
    <3> HIDE DEF d
    <3>4. Effect(q, d)
      BY <1>0, <1>2, <2>0, <2>1, <2>2, <3>2 DEF Effect
    <3>5. More(q) = {}
      BY <2>2 DEF More
    <3> QED
      BY <2>0, <3>1, <3>2, <3>4, <3>5, OutcomeOfSync
  <2>3. CASE ~q.complete
    <3>1. SyncAfter(q, b, {}, {Ask("get", b.key, None)})
      BY <1>2, <2>3 DEF OnBlockProof, DoGetLastBlock
    <3> HIDE DEF b
    <3>2. Effect(q, b)
      BY <1>0, <1>2, <2>0, <2>1, <2>3 DEF Effect
    <3>3. More(q) = {Ask("get", b.key, None)}
      BY <1>0, <2>0, <2>1, <2>3 DEF More
    <3> QED
      BY <2>0, <2>1, <3>1, <3>2, <3>3, OutcomeOfSync
  <2> QED
    BY <2>2, <2>3
<1> QED
  BY <1>0, <1>1, <1>2

LEMMA AnswerEffect ==
    ASSUME TypeInv, NEW q \in wire, AnswerOf(q)
    PROVE  \E a \in Actor : Effect(q, a) /\ Outcome(q, a)
  BY InfoAnswer, InitAnswer, BlockAnswer DEF AnswerOf

-----------------------------------------------------------------------------
(* One query of a kind, exactly while its state is Active.                 *)

One(w, b) ==
    /\ b.mc = "Active" <=> \E q \in w : q.kind = "mc"
    /\ b.chk = "Active" <=> \E q \in w : q.kind = "chk"
    /\ b.get = "Active" <=> \E q \in w : q.kind = "get"
    /\ \A p, q \in w : p.kind = q.kind => p = q

LEMMA OneMeans ==
    ASSUME NEW w, NEW b
    PROVE  One(w, b) <=>
             /\ \A k \in {"mc", "chk", "get"} : b[k] = "Active" <=> \E q \in w : q.kind = k
             /\ \A p, q \in w : p.kind = q.kind => p = q
<1>1. (\A k \in {"mc", "chk", "get"} : b[k] = "Active" <=> \E q \in w : q.kind = k) <=>
        /\ b.mc = "Active" <=> \E q \in w : q.kind = "mc"
        /\ b.chk = "Active" <=> \E q \in w : q.kind = "chk"
        /\ b.get = "Active" <=> \E q \in w : q.kind = "get"
  OBVIOUS
<1> QED
  BY <1>1 DEF One

LEMMA SyncKeepsOne ==
    ASSUME NEW w \in SUBSET Query, NEW a \in Actor, conf \in Config, One(w, a),
           NEW b, b.mc = Start(a).mc, b.chk = Start(a).chk, b.get = Start(a).get
    PROVE  One(w \cup Started(a), b)
<1>1. /\ Start(a).mc = "Active" <=> a.mc = "Active" \/ \E q \in Started(a) : q.kind = "mc"
      /\ Start(a).chk = "Active" <=> a.chk = "Active" \/ \E q \in Started(a) : q.kind = "chk"
      /\ Start(a).get = "Active" <=> a.get = "Active" \/ \E q \in Started(a) : q.kind = "get"
  <2>1. /\ a.mc = "Active" => Start(a).mc = "Active"
        /\ a.chk = "Active" => Start(a).chk = "Active"
        /\ a.get = "Active" => Start(a).get = "Active"
    BY StartFacts DEF SkipCheck
  <2> QED
    BY <2>1, StartedFacts
<1>2. \A p \in w, q \in Started(a) : p.kind # q.kind
  <2> SUFFICES ASSUME NEW p \in w, NEW q \in Started(a), p.kind = q.kind PROVE FALSE
    OBVIOUS
  <2>1. q.kind \in {"mc", "chk", "get"} /\ a[q.kind] = "Empty"
    BY StartedFacts
  <2>2. a["mc"] = "Active" \/ a["chk"] = "Active" \/ a["get"] = "Active"
    BY <2>1 DEF One
  <2>3. CASE q.kind = "mc"
    BY <2>1, <2>3 DEF One
  <2>4. CASE q.kind = "chk"
    BY <2>1, <2>4 DEF One
  <2>5. CASE q.kind = "get"
    BY <2>1, <2>5 DEF One
  <2> QED
    BY <2>1, <2>3, <2>4, <2>5
<1>3. \A p, q \in Started(a) : p.kind = q.kind => p = q
  BY StartedFacts
<1> QED
  BY <1>1, <1>2, <1>3 DEF One

\* Who is held is in promises_.
HeldAgree == \A r \in Requests : status[r] = "held" <=> r \in lb.held

Waiting == HeldAgree /\ OneQueryEach

LEMMA MoreFacts ==
    ASSUME TypeInv, NEW q \in wire, q.kind \in {"mc", "chk", "get"}
    PROVE  /\ More(q) \subseteq Query
           /\ \A p \in More(q) : p.kind = q.kind /\ p.phase = "asked"
           /\ More(q) # {} <=> Proof(q) /\ ~q.complete
           /\ \A p, s \in More(q) : p = s
<1>1. q \in Query /\ lb \in Actor
  BY DEF TypeInv, TypeOK
<1>2. q.end \in Refs /\ KeyAfter(lb, q) \in Refs /\ q.to \in Refs \cup {None}
  BY <1>1, HeightsAreNat DEF Query, Refs, KeyAfter, Actor
<1>3. /\ Ask("chk", q.end, q.to) \in Query
      /\ Ask("chk", q.end, q.to).kind = "chk" /\ Ask("chk", q.end, q.to).phase = "asked"
      /\ Ask("get", KeyAfter(lb, q), None) \in Query
      /\ Ask("get", KeyAfter(lb, q), None).kind = "get"
      /\ Ask("get", KeyAfter(lb, q), None).phase = "asked"
  BY <1>2, AskType
<1> QED
  BY <1>3 DEF More, Proof

LEMMA AnswerWaiting ==
    ASSUME TypeInv, Waiting, NEW q \in wire, AnswerOf(q)
    PROVE  Waiting'
<1>1. PICK a \in Actor : Effect(q, a) /\ Outcome(q, a)
  BY AnswerEffect
<1>2. q \in Query /\ lb \in Actor /\ conf \in Config /\ wire \subseteq Query
      /\ q.kind \in {"mc", "chk", "get"} /\ q.phase \in {"answered", "failed"}
  BY DEF TypeInv, TypeOK, Query, AnswerOf, OnMasterchainInfo, OnInitBlockProof, OnBlockProof
<1>3. One((wire \ {q}) \cup More(q), a)
  <2>1. One(wire, lb)
    BY OneMeans DEF Waiting, OneQueryEach
  <2> DEFINE m == More(q)
  <2>2. /\ m \subseteq Query
        /\ \A p \in m : p.kind = q.kind
        /\ m # {} <=> Proof(q) /\ ~q.complete
        /\ \A p, s \in m : p = s
    BY <1>2, MoreFacts
  <2> DEFINE w == (wire \ {q}) \cup m
  <2> SUFFICES One(w, a)
    OBVIOUS
  <2> HIDE DEF m, w
  <2>3. CASE q.kind = "mc"
    <3>1. a.chk = lb.chk /\ a.get = lb.get
      BY <1>1, <2>3 DEF Effect
    <3>2. lb.mc = "Active" /\ \A p \in wire \ {q} : p.kind # "mc"
      BY <2>1, <2>3 DEF One
    <3>3. a.mc = "Active" <=> m # {}
      BY <1>1, <1>2, <2>2, <2>3, <3>2 DEF Effect, Proof
    <3>4. (\E p \in w : p.kind = "mc") <=> m # {}
      BY <2>2, <2>3, <3>2 DEF w
    <3>5. /\ (\E p \in w : p.kind = "chk") <=> \E p \in wire : p.kind = "chk"
          /\ (\E p \in w : p.kind = "get") <=> \E p \in wire : p.kind = "get"
      BY <2>2, <2>3 DEF w
    <3>6. \A p, s \in w : p.kind = s.kind => p = s
      <4>1. \A p, s \in wire \ {q} : p.kind = s.kind => p = s
        BY <2>1 DEF One
      <4>2. \A p \in wire \ {q}, s \in m : p.kind # s.kind
        BY <2>2, <2>3, <3>2
      <4> QED
        BY <2>2, <4>1, <4>2 DEF w
    <3> QED
      BY <2>1, <3>1, <3>3, <3>4, <3>5, <3>6 DEF One
  <2>4. CASE q.kind = "chk"
    <3>1. a.mc = lb.mc /\ a.get = lb.get
      BY <1>1, <2>4 DEF Effect
    <3>2. lb.chk = "Active" /\ \A p \in wire \ {q} : p.kind # "chk"
      BY <2>1, <2>4 DEF One
    <3>3. a.chk = "Active" <=> m # {}
      BY <1>1, <1>2, <2>2, <2>4, <3>2 DEF Effect, Proof
    <3>4. (\E p \in w : p.kind = "chk") <=> m # {}
      BY <2>2, <2>4, <3>2 DEF w
    <3>5. /\ (\E p \in w : p.kind = "mc") <=> \E p \in wire : p.kind = "mc"
          /\ (\E p \in w : p.kind = "get") <=> \E p \in wire : p.kind = "get"
      BY <2>2, <2>4 DEF w
    <3>6. \A p, s \in w : p.kind = s.kind => p = s
      <4>1. \A p, s \in wire \ {q} : p.kind = s.kind => p = s
        BY <2>1 DEF One
      <4>2. \A p \in wire \ {q}, s \in m : p.kind # s.kind
        BY <2>2, <2>4, <3>2
      <4> QED
        BY <2>2, <4>1, <4>2 DEF w
    <3> QED
      BY <2>1, <3>1, <3>3, <3>4, <3>5, <3>6 DEF One
  <2>5. CASE q.kind = "get"
    <3>1. a.mc = lb.mc /\ a.chk = lb.chk
      BY <1>1, <2>5 DEF Effect
    <3>2. lb.get = "Active" /\ \A p \in wire \ {q} : p.kind # "get"
      BY <2>1, <2>5 DEF One
    <3>3. a.get = "Active" <=> m # {}
      BY <1>1, <1>2, <2>2, <2>5, <3>2 DEF Effect, Proof
    <3>4. (\E p \in w : p.kind = "get") <=> m # {}
      BY <2>2, <2>5, <3>2 DEF w
    <3>5. /\ (\E p \in w : p.kind = "mc") <=> \E p \in wire : p.kind = "mc"
          /\ (\E p \in w : p.kind = "chk") <=> \E p \in wire : p.kind = "chk"
      BY <2>2, <2>5 DEF w
    <3>6. \A p, s \in w : p.kind = s.kind => p = s
      <4>1. \A p, s \in wire \ {q} : p.kind = s.kind => p = s
        BY <2>1 DEF One
      <4>2. \A p \in wire \ {q}, s \in m : p.kind # s.kind
        BY <2>2, <2>5, <3>2
      <4> QED
        BY <2>2, <4>1, <4>2 DEF w
    <3> QED
      BY <2>1, <3>1, <3>3, <3>4, <3>5, <3>6 DEF One
  <2> QED
    BY <1>2, <2>3, <2>4, <2>5
<1>4. More(q) \subseteq Query
  BY <1>2, MoreFacts
<1>5. OneQueryEach'
  <2>1. (wire \ {q}) \cup More(q) \in SUBSET Query
    BY <1>2, <1>4
  <2>2. One(wire', lb')
    BY <1>1, <1>2, <1>3, <2>1, SyncKeepsOne DEF Outcome
  <2> QED
    BY <2>2, OneMeans DEF OneQueryEach
<1>6. HeldAgree'
  <2>1. Answered(a) \subseteq a.held
    BY SyncLoopFacts
  <2> QED
    BY <1>1, <2>1 DEF HeldAgree, Waiting, Outcome, Effect, Lost
<1> QED
  BY <1>5, <1>6 DEF Waiting

\* What get_last_block hands to sync_loop when there was no fatal error.
LEMMA ResetFacts ==
    ASSUME TypeInv, NEW r \in Requests
    PROVE  LET a == Reset(r)
           IN  /\ a \in Actor /\ a.held = lb.held \cup {r}
               /\ a.zero = lb.zero /\ a.key = lb.key /\ a.last = lb.last /\ a.init = lb.init
               /\ a.fatal = lb.fatal /\ a.min = lb.min /\ a.cur = lb.cur /\ a.max = lb.max
               /\ a.mc = lb.mc /\ a.chk = lb.chk
               /\ a.get = IF lb.held = {} /\ lb.get = "Done" THEN "Empty" ELSE lb.get
  BY DEF Reset, Actor, QueryState, TypeInv, TypeOK

LEMMA TakeWaiting ==
    ASSUME TypeInv, Waiting, NEW r \in Requests, GetLastBlock(r)
    PROVE  Waiting'
<1>1. lb \in Actor /\ conf \in Config /\ wire \in SUBSET Query /\ One(wire, lb)
  BY OneMeans DEF TypeInv, TypeOK, Waiting, OneQueryEach
<1>2. CASE lb.fatal
  <2>1. UNCHANGED <<lb, wire>> /\ status' = [status EXCEPT ![r] = "free"] /\ status[r] = "sent"
    BY <1>2 DEF GetLastBlock
  <2>2. HeldAgree'
    BY <2>1 DEF HeldAgree, Waiting, TypeInv, TypeOK
  <2>3. OneQueryEach'
    BY <2>1 DEF OneQueryEach, Waiting
  <2> QED
    BY <2>2, <2>3 DEF Waiting
<1>3. CASE ~lb.fatal
  <2> DEFINE a == Reset(r)
  <2>1. /\ a \in Actor /\ a.held = lb.held \cup {r}
        /\ a.mc = lb.mc /\ a.chk = lb.chk
        /\ a.get = IF lb.held = {} /\ lb.get = "Done" THEN "Empty" ELSE lb.get
    BY ResetFacts
  <2>2. Take(r, a)
    BY <1>3 DEF GetLastBlock
  <2> HIDE DEF a
  <2>3. One(wire, a)
    BY <1>1, <2>1 DEF One
  <2>4. /\ lb'.mc = Start(a).mc /\ lb'.chk = Start(a).chk /\ lb'.get = Start(a).get
        /\ lb'.held = a.held \ Answered(a) /\ Answered(a) \subseteq a.held
        /\ wire' = wire \cup Started(a)
    BY <2>1, <2>2, SyncLoopFacts DEF Take
  <2>5. One(wire', lb')
    BY <1>1, <2>1, <2>3, <2>4, SyncKeepsOne
  <2>6. OneQueryEach'
    BY <2>5, OneMeans DEF OneQueryEach
  <2>7. HeldAgree'
    BY <2>1, <2>2, <2>4 DEF Take, HeldAgree, Waiting
  <2> QED
    BY <2>6, <2>7 DEF Waiting
<1> QED
  BY <1>2, <1>3

-----------------------------------------------------------------------------
(* What a server's answer, a refusal or a loss makes of a query.           *)

Reply(q, p) ==
    /\ wire' = (wire \ {q}) \cup {p}
    /\ p.kind = q.kind /\ p.from = q.from /\ p.to = q.to
    /\ p.phase \in {"answered", "failed"}
    /\ p.phase = "answered" /\ p.kind = "mc" => p.zero = conf.server
    /\ Proof(p) => /\ Provable(q) /\ q.from <= p.end /\ p.end <= Target(q)
                   /\ p.key <= p.end /\ p.end <= tip
                   /\ p.complete => p.end = Target(q)

LEMMA ReplyOfServer ==
    ASSUME TypeInv, NEW q \in wire, Serve(q) \/ Lose(q)
    PROVE  /\ \E p \in Query : Reply(q, p)
           /\ UNCHANGED <<tip, store, earlier, gen, conf, lb, mail, status, got, asof, configs>>
<1>1. q \in Query /\ tip \in Heights /\ conf \in Config
  BY DEF TypeInv, TypeOK
<1>2. CASE Lose(q)
  <2> DEFINE p == [q EXCEPT !.phase = "failed"]
  <2>1. wire' = (wire \ {q}) \cup {p}
    BY <1>2 DEF Lose, Refuse
  <2>2. p \in Query /\ p.kind = q.kind /\ p.from = q.from /\ p.to = q.to /\ p.phase = "failed"
    BY <1>1 DEF Query
  <2> HIDE DEF p
  <2>3. Reply(q, p)
    BY <2>1, <2>2 DEF Reply, Proof
  <2> QED
    BY <1>2, <2>2, <2>3 DEF Lose
<1>3. CASE Serve(q) /\ q.kind = "mc"
  <2> DEFINE p == [q EXCEPT !.phase = "answered", !.zero = conf.server, !.end = tip]
  <2>1. wire' = (wire \ {q}) \cup {p}
    BY <1>3 DEF Serve, ServeInfo
  <2>2. p \in Query /\ p.kind = "mc" /\ p.from = q.from /\ p.to = q.to /\ p.phase = "answered"
        /\ p.zero = conf.server
    BY <1>1, <1>3 DEF Query, Config
  <2> HIDE DEF p
  <2>3. Reply(q, p)
    BY <1>3, <2>1, <2>2 DEF Reply, Proof
  <2> QED
    BY <1>3, <2>2, <2>3 DEF Serve
<1>4. CASE Serve(q) /\ q.kind # "mc" /\ Provable(q)
  <2>1. PICK e \in q.from..Target(q), k \in Heights :
            /\ IsKeyOn(k, q.from, e)
            /\ wire' = (wire \ {q}) \cup
                 {[q EXCEPT !.phase = "answered", !.end = e, !.key = k,
                            !.complete = (e = Target(q))]}
    BY <1>4 DEF Serve, ServeProof
  <2> DEFINE p == [q EXCEPT !.phase = "answered", !.end = e, !.key = k,
                            !.complete = (e = Target(q))]
  <2>2. e \in Heights /\ q.from <= e /\ e <= Target(q) /\ e <= tip
    <3>1. q.from \in 0..tip /\ Target(q) \in q.from..tip /\ tip \in 0..MaxTip
      BY <1>1, <1>4 DEF Provable, Heights
    <3> QED
      BY <3>1, BlockAssumption DEF Heights
  <2>6. k <= e
    <3>1. k = 0 \/ k \in {j \in KeyBlocks : q.from < j /\ j <= e}
      BY <2>1 DEF IsKeyOn
    <3> QED
      BY <2>2, <3>1, HeightsAreNat
  <2>3. /\ p \in Query /\ p.kind = q.kind /\ p.from = q.from /\ p.to = q.to
        /\ p.phase = "answered" /\ p.end = e /\ p.key = k /\ (p.complete <=> e = Target(q))
    BY <1>1, <2>2 DEF Query
  <2>4. wire' = (wire \ {q}) \cup {p}
    BY <2>1
  <2> HIDE DEF p
  <2>5. Reply(q, p)
    BY <1>4, <2>2, <2>3, <2>4, <2>6 DEF Reply
  <2> QED
    BY <1>4, <2>3, <2>5 DEF Serve
<1>5. CASE Serve(q) /\ q.kind # "mc" /\ ~Provable(q)
  <2> DEFINE p == [q EXCEPT !.phase = "failed"]
  <2>1. wire' = (wire \ {q}) \cup {p}
    BY <1>5 DEF Serve, Refuse
  <2>2. p \in Query /\ p.kind = q.kind /\ p.from = q.from /\ p.to = q.to /\ p.phase = "failed"
    BY <1>1 DEF Query
  <2> HIDE DEF p
  <2>3. Reply(q, p)
    BY <2>1, <2>2 DEF Reply, Proof
  <2> QED
    BY <1>5, <2>2, <2>3 DEF Serve
<1> QED
  BY <1>2, <1>3, <1>4, <1>5

LEMMA ReplyOne ==
    ASSUME OneQueryEach, NEW q \in wire, NEW p, Reply(q, p), UNCHANGED lb
    PROVE  OneQueryEach'
<1>1. One(wire, lb)
  BY OneMeans DEF OneQueryEach
<1>2. wire' = (wire \ {q}) \cup {p} /\ p.kind = q.kind
  BY DEF Reply
<1>3. \A k : (\E s \in wire' : s.kind = k) <=> \E s \in wire : s.kind = k
  BY <1>2
<1>4. \A s, t \in wire' : s.kind = t.kind => s = t
  BY <1>1, <1>2 DEF One
<1>5. One(wire', lb')
  BY <1>1, <1>3, <1>4 DEF One
<1> QED
  BY <1>5, OneMeans DEF OneQueryEach

\* A new actor, whichever configuration it is for.
LEMMA FreshActor ==
    ASSUME store \in [Networks -> State \cup {None}], NEW c \in Config, NEW a,
           a = NewActor(Loaded(c), c)
    PROVE  /\ a \in Actor
           /\ a.zero = Loaded(c).zero /\ a.key = Loaded(c).key
           /\ a.last = a.key /\ a.init = Loaded(c).init
           /\ a.fatal = FALSE /\ a.held = {}
           /\ a.mc = "Empty" /\ a.chk = "Empty" /\ a.get = "Empty"
           /\ a.min = a.cur
<1>1. Loaded(c) \in State
  BY LoadedFacts
<1> QED
  BY <1>1, NewActorFacts

\* In every state one query of a kind is under way exactly while its state is
\* Active, so that no state of the actor is left that would never be started
\* again.
THEOREM WaitingCorrect == Spec => [](HeldAgree /\ OneQueryEach)
<1>1. Init => Waiting
  <2> SUFFICES ASSUME Init PROVE Waiting
    OBVIOUS
  <2>1. conf \in Config /\ conf.net \in Networks /\ store \in [Networks -> State \cup {None}]
    BY InitConf DEF Init
  <2>2. lb.held = {} /\ lb.mc = "Empty" /\ lb.chk = "Empty" /\ lb.get = "Empty"
    BY <2>1, FreshActor DEF Init
  <2>3. One(wire, lb)
    BY <2>2 DEF One, Init
  <2> QED
    BY <2>2, <2>3, OneMeans DEF Init, Waiting, HeldAgree, OneQueryEach
<1>2. TypeInv /\ Waiting /\ [Next]_vars => Waiting'
  <2> SUFFICES ASSUME TypeInv, Waiting, [Next]_vars PROVE Waiting'
    OBVIOUS
  <2>0. UNCHANGED <<lb, wire, status>> => Waiting'
    BY DEF Waiting, HeldAgree, OneQueryEach
  <2>1. ASSUME NEW r \in Requests, Request(r) PROVE Waiting'
    <3>1. UNCHANGED <<lb, wire>> /\ status' = [status EXCEPT ![r] = "sent"]
          /\ status[r] \in {"free", "ok"}
      BY <2>1 DEF Request
    <3> QED
      BY <3>1 DEF Waiting, HeldAgree, OneQueryEach, TypeInv, TypeOK
  <2>2. ASSUME NEW r \in Requests, GetLastBlock(r) PROVE Waiting'
    BY <2>2, TakeWaiting
  <2>3. CASE Grow
    BY <2>0, <2>3 DEF Grow
  <2>4. ASSUME NEW q \in wire, Serve(q) \/ Lose(q) PROVE Waiting'
    BY <2>4, ReplyOfServer, ReplyOne DEF Waiting, HeldAgree
  <2>5. ASSUME NEW q \in wire, AnswerOf(q) PROVE Waiting'
    BY <2>5, AnswerWaiting
  <2>6. CASE UpdateLastBlockState
    BY <2>0, <2>6 DEF UpdateLastBlockState
  <2>7. ASSUME NEW c \in Config, SetConfig(c) \/ Replaced PROVE Waiting'
    <3>1. c.net \in Networks /\ conf \in Config /\ conf.net \in Networks
          /\ store \in [Networks -> State \cup {None}]
      BY DEF Config, TypeInv, TypeOK
    <3>2. lb' = NewActor(Loaded(c), c) \/ lb' = NewActor(Loaded(conf), conf)
      BY <2>7 DEF SetConfig, Replaced
    <3>3. lb'.held = {} /\ lb'.mc = "Empty" /\ lb'.chk = "Empty" /\ lb'.get = "Empty"
      BY <3>1, <3>2, FreshActor
    <3>4. wire' = {} /\ \A r \in Requests : status'[r] # "held"
      BY <2>7 DEF SetConfig, Replaced, TypeInv, TypeOK
    <3>5. One(wire', lb')
      BY <3>3, <3>4 DEF One
    <3> QED
      BY <3>3, <3>4, <3>5, OneMeans DEF Waiting, HeldAgree, OneQueryEach
  <2>8. CASE UNCHANGED vars
    BY <2>0, <2>8 DEF vars
  <2>9. ASSUME NEW o \in earlier, LateWrite(o) PROVE Waiting'
    BY <2>0, <2>9 DEF LateWrite
  <2> QED
    BY <2>1, <2>2, <2>3, <2>4, <2>5, <2>6, <2>7, <2>8, <2>9, ConfigAssumption
    DEF Next, Configure, Die, Recreate, AnswerOf, TypeInv, TypeOK
<1> QED
  BY <1>1, <1>2, TypeCorrect, PTL DEF Spec, Waiting

-----------------------------------------------------------------------------
(* What is saved.                                                          *)

Note == [gen |-> gen, st |-> StateOf(lb')]

\* An answer saves the state the actor is left with, or nothing; and nothing
\* before the init block is checked or after a fatal error.
LEMMA MailGrows ==
    ASSUME TypeInv, Waiting, NEW q \in wire, AnswerOf(q)
    PROVE  \E x \in Seq({Note}) :
               /\ mail' = mail \o x
               /\ x = <<>> \/ (lb'.chk = "Done" /\ ~lb'.fatal)
<1>0. /\ q \in Query /\ lb \in Actor /\ conf \in Config
      /\ mail = mail \o <<>> /\ <<>> \in Seq({Note}) /\ <<Note>> \in Seq({Note})
      /\ lb.fatal \in BOOLEAN
  <2>1. mail = mail \o <<>>
    BY ConcatProperties DEF TypeInv, TypeOK
  <2> QED
    BY <2>1 DEF TypeInv, TypeOK, Actor
<1>1. CASE OnMasterchainInfo(q)
  BY <1>0, <1>1 DEF OnMasterchainInfo
<1>2. CASE q.phase = "failed"
  BY <1>0, <1>2 DEF AnswerOf, OnMasterchainInfo, OnInitBlockProof, OnBlockProof, FailedBlockProof
<1> DEFINE b == UpdateState(lb, q)
           d == [b EXCEPT !.chk = "Done"]
           c == UpdateInitBlock(d)
           e == [b EXCEPT !.get = "Done"]
<1>3. /\ b \in Actor
      /\ b.last = LastAfter(lb, q) /\ b.key = KeyAfter(lb, q)
      /\ b.zero = lb.zero /\ b.init = lb.init /\ b.fatal = lb.fatal
      /\ b.chk = lb.chk /\ b.get = lb.get /\ b.held = lb.held
  BY <1>0, UpdateStateFacts
<1>4. lb.fatal => Saved(q, b) = <<>>
  BY <1>0 DEF Saved, IsChanged, LastAfter, KeyAfter
<1>5. \A a \in Actor : StateOf(lb') = StateOf(a) =>
          SaveState(a) = IF a.chk = "Done" THEN <<Note>> ELSE <<>>
  BY DEF SaveState, Note
<1>6. \A a \in Actor : SyncAfter(q, a, {}, {}) \/ SyncAfter(q, a, {}, {Ask("chk", q.end, q.to)})
                       \/ SyncAfter(q, a, {}, {DoGetLastBlock(b)}) =>
          /\ StateOf(lb') = StateOf(a) /\ lb'.fatal = a.fatal
          /\ a.chk = "Done" => lb'.chk = "Done"
  <2> SUFFICES ASSUME NEW a \in Actor, lb' = SyncLoop(a)
               PROVE  /\ StateOf(lb') = StateOf(a) /\ lb'.fatal = a.fatal
                      /\ a.chk = "Done" => lb'.chk = "Done"
    BY DEF SyncAfter
  <2>1. /\ lb'.zero = a.zero /\ lb'.key = a.key /\ lb'.last = a.last /\ lb'.init = a.init
        /\ lb'.fatal = a.fatal /\ lb'.chk = Start(a).chk
    BY SyncLoopFacts
  <2>2. a.chk = "Done" => Start(a).chk = "Done"
    BY StartFacts
  <2> QED
    BY <2>1, <2>2 DEF StateOf
<1>7. CASE OnInitBlockProof(q) /\ q.phase # "failed"
  <2>1. lb.chk = "Active"
    <3>1. q.kind = "chk"
      BY <1>7 DEF OnInitBlockProof
    <3>2. lb["chk"] = "Active"
      BY <3>1 DEF Waiting, OneQueryEach
    <3> QED
      BY <3>2
  <2>2. Saved(q, b) = <<>>
    BY <1>3, <2>1 DEF Saved, SaveState
  <2>3. CASE ~q.complete
    <3>1. mail' = mail \o Saved(q, b)
      BY <1>7, <2>3 DEF OnInitBlockProof
    <3> QED
      BY <1>0, <2>2, <3>1
  <2>4. CASE q.complete
    <3> DEFINE x == IF c.init # b.init THEN SaveState(c) ELSE <<>>
    <3>1. mail' = mail \o Saved(q, b) \o x /\ SyncAfter(q, c, {}, {})
      BY <1>7, <2>4 DEF OnInitBlockProof
    <3>2. mail' = mail \o x
      BY <1>0, <2>2, <3>1
    <3> HIDE DEF b
    <3>3. d \in Actor /\ d.chk = "Done" /\ d.init = b.init /\ d.fatal = b.fatal
      BY <1>3 DEF Actor, QueryState
    <3> HIDE DEF d
    <3>4. /\ c \in Actor /\ c.chk = "Done" /\ c.fatal = b.fatal
          /\ c.fatal => c.init = b.init
      BY <1>0, <3>3, UpdateInitFacts
    <3> HIDE DEF c
    <3>5. StateOf(lb') = StateOf(c) /\ lb'.fatal = c.fatal /\ lb'.chk = "Done"
      BY <1>6, <3>1, <3>4
    <3>6. SaveState(c) = <<Note>>
      BY <1>5, <3>4, <3>5
    <3> QED
      BY <1>0, <3>2, <3>4, <3>5, <3>6
  <2> QED
    BY <2>3, <2>4
<1>8. CASE OnBlockProof(q) /\ q.phase # "failed"
  <2>1. mail' = mail \o Saved(q, b)
    BY <1>8 DEF OnBlockProof
  <2>2. SyncAfter(q, e, {}, {}) \/ SyncAfter(q, b, {}, {DoGetLastBlock(b)})
    BY <1>8 DEF OnBlockProof
  <2> HIDE DEF b
  <2>3. /\ e \in Actor /\ StateOf(e) = StateOf(b) /\ e.chk = b.chk /\ e.fatal = b.fatal
    BY <1>3 DEF Actor, QueryState, StateOf
  <2> HIDE DEF e
  <2>4. /\ StateOf(lb') = StateOf(b) /\ lb'.fatal = b.fatal
        /\ b.chk = "Done" => lb'.chk = "Done"
    BY <1>3, <1>6, <2>2, <2>3
  <2>5. Saved(q, b) = <<>> \/ (Saved(q, b) = <<Note>> /\ b.chk = "Done")
    BY <1>3, <1>5, <2>4 DEF Saved
  <2> QED
    BY <1>0, <1>3, <1>4, <2>1, <2>4, <2>5
<1> QED
  BY <1>1, <1>2, <1>7, <1>8 DEF AnswerOf

LEMMA Appended ==
    ASSUME NEW T, NEW s \in Seq(T), NEW e \in T, NEW x \in Seq({e})
    PROVE  \A i \in 1..Len(s \o x) :
               \/ i \in 1..Len(s) /\ (s \o x)[i] = s[i]
               \/ i > Len(s) /\ (s \o x)[i] = e
<1>1. Len(s) \in Nat /\ Len(x) \in Nat /\ \A i \in 1..Len(x) : x[i] = e
  BY LenProperties, ElementOfSeq
<1>2. x \in Seq(T)
  BY ElementOfSeq
<1> QED
  BY <1>1, <1>2, ConcatProperties

LEMMA Dropped ==
    ASSUME NEW T, NEW s \in Seq(T), s # <<>>
    PROVE  /\ Head(s) = s[1] /\ 1 \in 1..Len(s)
           /\ \A i \in 1..Len(Tail(s)) : Tail(s)[i] = s[i + 1] /\ i + 1 \in 1..Len(s)
<1>1. Len(s) \in Nat /\ Len(s) >= 1
  BY LenProperties, EmptySeq
<1> QED
  BY <1>1, HeadTailProperties

-----------------------------------------------------------------------------
(* The file of a network, and the states on their way to it.               *)

\* Notes of the present configuration carry its network, and their key blocks
\* grow to the actor's, from the one on the disk if nobody else writes it.
Notes ==
    /\ \A i \in 1..Len(mail) :
           /\ mail[i].gen <= gen
           /\ mail[i].gen = gen => /\ mail[i].st.zero = conf.net
                                   /\ mail[i].st.vert = conf.vert
                                   /\ earlier = {} => store[conf.net].key <= mail[i].st.key
                                   /\ mail[i].st.key <= lb.key
    /\ \A i, j \in 1..Len(mail) : i <= j /\ mail[i].gen = gen /\ mail[j].gen = gen =>
                                      mail[i].st.key <= mail[j].st.key

\* The file of n is not removed, and moves back only if it is to be ignored.
Forward(n) ==
    store[n] # None =>
        /\ store'[n] # None
        /\ \/ NotBehind(store'[n], store[n])
           \/ gen' > gen /\ conf'.net = n /\ conf'.ignoreCache

Nets ==
    /\ lb.zero = conf.net
    /\ gen # 0 => store[conf.net] # None
    /\ gen # 0 /\ earlier = {} => /\ store[conf.net].key <= lb.key
                                  /\ store[conf.net].vert = conf.vert
    /\ StoreOwnNet
    /\ \A o \in earlier : o.st.zero = o.conf.net
    /\ \A q \in wire : q.kind = "mc" /\ q.phase = "answered" => q.zero = conf.server
    /\ FatalIsFinal
    /\ Notes

LEMMA MailTypes ==
    ASSUME TypeInv
    PROVE  \A i \in 1..Len(mail) : mail[i].gen \in Int /\ mail[i].st.key \in Int
<1> DEFINE M == [gen : 1..MaxConfigs, st : State]
<1>1. \A m \in M : m.gen \in Int /\ m.st.key \in Int
  <2>1. \A m \in M : m.gen \in 1..MaxConfigs /\ m.st.key \in Heights
    BY DEF State
  <2> QED
    BY <2>1, HeightsAreNat
<1>2. mail \in Seq(M)
  BY DEF TypeInv, TypeOK
<1> HIDE DEF M
<1> QED
  BY <1>1, <1>2, ElementOfSeq

\* A step that leaves the actor's key block and the network parts alone.
LEMMA NetsKept ==
    ASSUME Nets, UNCHANGED <<store, earlier, gen, conf, mail>>, lb'.zero = lb.zero, lb'.key = lb.key
    PROVE  /\ lb'.zero = conf'.net /\ StoreOwnNet' /\ Notes'
           /\ gen' # 0 => store'[conf'.net] # None
           /\ gen' # 0 /\ earlier' = {} => /\ store'[conf'.net].key <= lb'.key
                                           /\ store'[conf'.net].vert = conf'.vert
           /\ \A o \in earlier' : o.st.zero = o.conf.net
  BY DEF Nets, Notes, StoreOwnNet

LEMMA AnswerNets ==
    ASSUME TypeInv, Waiting, Nets, NEW q \in wire, AnswerOf(q)
    PROVE  Nets'
<1>0. /\ q \in Query /\ lb \in Actor /\ conf \in Config /\ wire \subseteq Query /\ gen # 0
      /\ q.kind \in {"mc", "chk", "get"} /\ q.phase \in {"answered", "failed"}
      /\ gen \in 1..MaxConfigs /\ gen \in Int /\ conf.net \in Networks
      /\ store \in [Networks -> State \cup {None}] /\ mail \in Seq([gen : 1..MaxConfigs, st : State])
      /\ lb.fatal \in BOOLEAN
  <2>1. q \in Query /\ lb \in Actor /\ conf \in Config /\ wire \subseteq Query /\ gen # 0
        /\ gen \in 1..MaxConfigs
    BY BlockAssumption DEF TypeInv, TypeOK, Down
  <2>2. q.phase # "asked"
    BY DEF AnswerOf, OnMasterchainInfo, OnInitBlockProof, OnBlockProof
  <2> QED
    BY <2>1, <2>2 DEF TypeInv, TypeOK, Query, Config, Actor
<1>1. UNCHANGED <<store, earlier, gen, conf>>
  BY DEF AnswerOf, OnMasterchainInfo, OnInitBlockProof, OnBlockProof
<1>2. PICK a \in Actor : Effect(q, a) /\ Outcome(q, a)
  BY AnswerEffect
<1>3. PICK x \in Seq({Note}) : mail' = mail \o x
  BY MailGrows
<1>4. /\ lb' \in Actor /\ lb'.zero = lb.zero /\ lb'.fatal = a.fatal
      /\ lb.key \in Int /\ lb'.key \in Heights /\ lb'.key \in Int /\ lb.key <= lb'.key
  <2>1. KeyAfter(lb, q) \in Heights /\ lb.key <= KeyAfter(lb, q) /\ lb.key \in Heights
        /\ lb.key <= lb.key
    BY <1>0, HeightsAreNat DEF KeyAfter, Actor, Query
  <2> QED
    BY <1>2, <2>1, HeightsAreNat DEF Effect, Outcome
<1>5. store[conf.net] # None /\ store[conf.net] \in State /\ store[conf.net].key \in Int
      /\ (earlier = {} => store[conf.net].key <= lb.key)
  BY <1>0, HeightsAreNat DEF Nets, State
<1>6. Notes'
  <2> DEFINE M == [gen : 1..MaxConfigs, st : State]
  <2>1. Note \in M /\ Note.gen = gen /\ Note.st.zero = lb'.zero /\ Note.st.key = lb'.key
        /\ Note.st.vert = conf.vert
    BY <1>0, <1>4 DEF Note, StateOf, State, Actor, Config
  <2> HIDE DEF M
  <2>2. \A i \in 1..Len(mail') :
               \/ i \in 1..Len(mail) /\ mail'[i] = mail[i]
               \/ i > Len(mail) /\ mail'[i] = Note
    <3>1. mail \in Seq(M) /\ Note \in M
      BY <1>0, <2>1 DEF M
    <3> QED
      BY <1>3, <3>1, Appended
  <2>3. \A i \in 1..Len(mail) : mail[i].gen \in Int /\ mail[i].st.key \in Int
    BY MailTypes
  <2>4. \A i \in 1..Len(mail') :
           /\ mail'[i].gen <= gen
           /\ mail'[i].gen = gen => /\ mail'[i].st.zero = conf.net
                                    /\ mail'[i].st.vert = conf.vert
                                    /\ earlier = {} => store[conf.net].key <= mail'[i].st.key
                                    /\ mail'[i].st.key <= lb'.key
    <3> SUFFICES ASSUME NEW i \in 1..Len(mail')
                 PROVE  /\ mail'[i].gen <= gen
                        /\ mail'[i].gen = gen => /\ mail'[i].st.zero = conf.net
                                                 /\ mail'[i].st.vert = conf.vert
                                                 /\ earlier = {} => store[conf.net].key <= mail'[i].st.key
                                                 /\ mail'[i].st.key <= lb'.key
      OBVIOUS
    <3>1. CASE i \in 1..Len(mail) /\ mail'[i] = mail[i]
      BY <1>4, <1>5, <2>3, <3>1 DEF Nets, Notes
    <3>2. CASE mail'[i] = Note
      <4>1. mail'[i].gen = gen /\ mail'[i].st.zero = conf.net /\ mail'[i].st.key = lb'.key
            /\ mail'[i].st.vert = conf.vert
        BY <1>4, <2>1, <3>2 DEF Nets
      <4> QED
        BY <1>0, <1>4, <1>5, <4>1
    <3> QED
      BY <2>2, <3>1, <3>2
  <2>5. \A i, j \in 1..Len(mail') : i <= j /\ mail'[i].gen = gen /\ mail'[j].gen = gen =>
                                      mail'[i].st.key <= mail'[j].st.key
    <3> SUFFICES ASSUME NEW i \in 1..Len(mail'), NEW j \in 1..Len(mail'), i <= j,
                        mail'[i].gen = gen, mail'[j].gen = gen
                 PROVE  mail'[i].st.key <= mail'[j].st.key
      OBVIOUS
    <3>1. Len(mail) \in Nat
      BY <1>0, LenProperties
    <3>2. CASE j > Len(mail) /\ mail'[j] = Note
      BY <1>4, <2>1, <2>4, <3>2
    <3>3. CASE j \in 1..Len(mail) /\ mail'[j] = mail[j]
      <4>1. i \in 1..Len(mail) /\ mail'[i] = mail[i]
        BY <2>2, <3>1, <3>3
      <4> QED
        BY <3>3, <4>1 DEF Nets, Notes
    <3> QED
      BY <2>2, <3>2, <3>3
  <2> QED
    BY <1>1, <2>4, <2>5 DEF Notes
<1>7. \A p \in wire' : p.kind = "mc" /\ p.phase = "answered" => p.zero = conf'.server
  <2>1. \A p \in More(q) \cup Started(a) : p.phase = "asked"
    BY <1>0, MoreFacts, StartedFacts
  <2> QED
    BY <1>1, <1>2, <2>1 DEF Outcome, Nets
<1>8. FatalIsFinal'
  <2> SUFFICES ASSUME a.fatal PROVE lb'.held = {} /\ (\A r \in Requests : status'[r] # "held")
                                    /\ conf.server # conf.net
    BY <1>1, <1>4 DEF FatalIsFinal
  <2>1. CASE lb.fatal
    <3>1. lb.held = {} /\ (\A r \in Requests : status[r] # "held") /\ conf.server # conf.net
      BY <2>1 DEF Nets, FatalIsFinal
    <3>2. a.held = {}
      BY <1>2, <3>1 DEF Effect
    <3> QED
      BY <1>2, <3>1, <3>2 DEF Outcome
  <2>2. CASE ~lb.fatal
    <3>1. q.kind = "mc" /\ q.phase = "answered" /\ q.zero # lb.zero
      BY <1>2, <2>2 DEF Effect
    <3>2. Lost(q) = lb.held
      BY <2>2, <3>1 DEF Lost, Failed
    <3>3. a.held = {}
      BY <1>2, <3>2 DEF Effect
    <3>4. Answered(a) = {} /\ lb'.held = {}
      BY <1>0, <1>2, <3>3, IdleStart DEF Outcome
    <3>5. \A r \in Requests : status'[r] # "held"
      BY <1>2, <3>2, <3>4 DEF Outcome, Waiting, HeldAgree
    <3> QED
      BY <3>1, <3>4, <3>5 DEF Nets
  <2> QED
    BY <2>1, <2>2
<1> QED
  BY <1>1, <1>2, <1>4, <1>5, <1>6, <1>7, <1>8 DEF Nets, StoreOwnNet, Effect, Outcome

LEMMA TakeNets ==
    ASSUME TypeInv, Waiting, Nets, NEW r \in Requests, GetLastBlock(r)
    PROVE  Nets'
<1>0. lb \in Actor /\ conf \in Config /\ UNCHANGED <<store, earlier, gen, conf, mail>>
      /\ status \in [Requests -> {"free", "sent", "held", "ok"}]
  BY DEF TypeInv, TypeOK, GetLastBlock
<1>1. CASE lb.fatal
  <2>1. UNCHANGED <<lb, wire>> /\ status' = [status EXCEPT ![r] = "free"]
    BY <1>1 DEF GetLastBlock
  <2>2. FatalIsFinal'
    BY <1>0, <2>1 DEF FatalIsFinal, Nets
  <2> QED
    BY <1>0, <2>1, <2>2, NetsKept DEF Nets
<1>2. CASE ~lb.fatal
  <2> DEFINE a == Reset(r)
  <2>1. /\ a \in Actor /\ a.zero = lb.zero /\ a.key = lb.key /\ a.fatal = lb.fatal
    BY ResetFacts
  <2>2. Take(r, a)
    BY <1>2 DEF GetLastBlock
  <2> HIDE DEF a
  <2>3. lb'.zero = lb.zero /\ lb'.key = lb.key /\ ~lb'.fatal /\ wire' = wire \cup Started(a)
    BY <1>2, <2>1, <2>2, SyncLoopFacts DEF Take
  <2>4. \A p \in Started(a) : p.phase = "asked"
    BY <1>0, <2>1, StartedFacts
  <2>5. \A p \in wire' : p.kind = "mc" /\ p.phase = "answered" => p.zero = conf'.server
    BY <1>0, <2>3, <2>4 DEF Nets
  <2>6. FatalIsFinal'
    BY <2>3 DEF FatalIsFinal
  <2> QED
    BY <1>0, <2>3, <2>5, <2>6, NetsKept DEF Nets
<1> QED
  BY <1>1, <1>2

LEMMA SaveNets ==
    ASSUME TypeInv, Nets, UpdateLastBlockState
    PROVE  /\ Nets'
           /\ earlier = {} => \A n \in Networks : Forward(n)
<1> DEFINE M == [gen : 1..MaxConfigs, st : State]
           m == Head(mail)
<1>0. /\ UNCHANGED <<tip, earlier, gen, conf, lb, wire, status, got, asof, configs, losses>>
      /\ mail' = Tail(mail) /\ mail # <<>> /\ mail \in Seq(M)
      /\ store' = IF m.gen = gen THEN [store EXCEPT ![conf.net] = m.st] ELSE store
      /\ store \in [Networks -> State \cup {None}] /\ conf.net \in Networks /\ gen # 0
  BY DEF UpdateLastBlockState, TypeInv, TypeOK, Down, Config
<1>1. m \in M
  BY <1>0, HeadTailProperties
<1> HIDE DEF M
<1>2. /\ m = mail[1] /\ 1 \in 1..Len(mail)
      /\ \A i \in 1..Len(mail') : mail'[i] = mail[i + 1] /\ i + 1 \in 1..Len(mail)
  BY <1>0, Dropped
<1>3. m.st # None /\ m.st \in State /\ store[conf.net] # None /\ store[conf.net] \in State
  BY <1>0, <1>1, NoneAssumption DEF M, Nets
<1>4. m.st.key \in Int /\ store[conf.net].key \in Int
  BY <1>3, HeightsAreNat DEF State
<1>5. CASE m.gen # gen
  <2>1. store' = store
    BY <1>0, <1>5
  <2>2. Notes'
    <3>1. \A i \in 1..Len(mail') :
           /\ mail'[i].gen <= gen
           /\ mail'[i].gen = gen => /\ mail'[i].st.zero = conf.net
                                    /\ mail'[i].st.vert = conf.vert
                                    /\ earlier = {} => store[conf.net].key <= mail'[i].st.key
                                    /\ mail'[i].st.key <= lb.key
      BY <1>2 DEF Nets, Notes
    <3>2. \A i, j \in 1..Len(mail') : i <= j /\ mail'[i].gen = gen /\ mail'[j].gen = gen =>
                                      mail'[i].st.key <= mail'[j].st.key
      <4>1. \A i, j \in 1..Len(mail') : i <= j => i + 1 <= j + 1
        OBVIOUS
      <4> QED
        BY <1>2, <4>1 DEF Nets, Notes
    <3> QED
      BY <1>0, <2>1, <3>1, <3>2 DEF Notes
  <2>3. \A n \in Networks : Forward(n)
    BY <1>0, <2>1, HeightsAreNat DEF Forward, NotBehind, State
  <2> QED
    BY <1>0, <2>1, <2>2, <2>3 DEF Nets, StoreOwnNet, FatalIsFinal
<1>6. CASE m.gen = gen
  <2>1. /\ m.st.zero = conf.net /\ m.st.vert = conf.vert /\ m.st.key <= lb.key
        /\ earlier = {} => store[conf.net].key <= m.st.key /\ store[conf.net].vert = conf.vert
    BY <1>0, <1>2, <1>6 DEF Nets, Notes
  <2>2. /\ store'[conf.net] = m.st
        /\ \A n \in Networks : n # conf.net => store'[n] = store[n]
    BY <1>0, <1>6
  <2>3. Notes'
    <3>1. \A i \in 1..Len(mail') :
           /\ mail'[i].gen <= gen
           /\ mail'[i].gen = gen => /\ mail'[i].st.zero = conf.net
                                    /\ mail'[i].st.vert = conf.vert
                                    /\ m.st.key <= mail'[i].st.key
                                    /\ mail'[i].st.key <= lb.key
      <4>1. \A i \in 1..Len(mail') : 1 <= i + 1
        OBVIOUS
      <4> QED
        BY <1>2, <1>6, <4>1 DEF Nets, Notes
    <3>2. \A i, j \in 1..Len(mail') : i <= j /\ mail'[i].gen = gen /\ mail'[j].gen = gen =>
                                      mail'[i].st.key <= mail'[j].st.key
      <4>1. \A i, j \in 1..Len(mail') : i <= j => i + 1 <= j + 1
        OBVIOUS
      <4> QED
        BY <1>2, <4>1 DEF Nets, Notes
    <3> QED
      BY <1>0, <2>2, <3>1, <3>2 DEF Notes
  <2>4. StoreOwnNet'
    BY <2>1, <2>2 DEF Nets, StoreOwnNet
  <2>5. ASSUME earlier = {}, NEW n \in Networks PROVE Forward(n)
    <3>1. store[n] # None => store[n].key >= store[n].key
      BY <1>0, HeightsAreNat DEF State
    <3>2. CASE n = conf.net
      BY <1>3, <1>4, <2>1, <2>2, <2>5, <3>2 DEF Forward, NotBehind
    <3>3. CASE n # conf.net
      BY <2>2, <3>1, <3>3 DEF Forward, NotBehind
    <3> QED
      BY <3>2, <3>3
  <2> QED
    BY <1>0, <1>3, <2>1, <2>2, <2>3, <2>4, <2>5 DEF Nets, FatalIsFinal
<1> QED
  BY <1>5, <1>6

LEMMA ConfigNets ==
    ASSUME TypeInv, Waiting, Nets, NEW c \in Config, SetConfig(c)
    PROVE  /\ Nets'
           /\ \A n \in Networks : Forward(n)
<1> DEFINE M == [gen : 1..MaxConfigs, st : State]
<1>0. /\ c.net \in Networks /\ store \in [Networks -> State \cup {None}]
      /\ gen' = gen + 1 /\ gen \in Nat /\ conf' = c /\ mail' = mail /\ wire' = {}
      /\ earlier' = earlier
      /\ store' = [store EXCEPT ![c.net] = Loaded(c)]
      /\ lb' = NewActor(Loaded(c), c) /\ mail \in Seq(M)
  BY DEF SetConfig, TypeInv, TypeOK, Config
<1>1. /\ Loaded(c) \in State /\ Loaded(c) # None /\ Loaded(c).zero = c.net
      /\ Loaded(c).key \in Int /\ Loaded(c).vert = c.vert /\ c.vert \in Nat
  <2>1. Loaded(c) \in State /\ Loaded(c).key \in Heights /\ Loaded(c).vert = c.vert
        /\ c.vert \in Nat
    BY <1>0, LoadedFacts DEF Config
  <2>2. Loaded(c).zero = c.net
    BY <1>0, LoadedFacts DEF Nets, StoreOwnNet
  <2> QED
    BY <2>1, <2>2, NoneAssumption, HeightsAreNat
<1>2. lb'.zero = c.net /\ lb'.key = Loaded(c).key /\ lb'.fatal = FALSE
  BY <1>0, <1>1, FreshActor
<1>3. store'[c.net] = Loaded(c) /\ \A n \in Networks : n # c.net => store'[n] = store[n]
  BY <1>0
<1>4. Notes'
  <2>1. \A i \in 1..Len(mail) : mail[i].gen \in Int
    BY MailTypes
  <2>2. \A i \in 1..Len(mail) : mail[i].gen < gen'
    BY <1>0, <2>1 DEF Nets, Notes
  <2> QED
    BY <1>0, <2>1, <2>2 DEF Notes
<1>5. \A n \in Networks : Forward(n)
  <2>0. \A n \in Networks : store[n] # None => store[n].key \in Int /\ store[n].vert \in Nat
    BY <1>0, HeightsAreNat DEF State
  <2>1. CASE Kept(c)
    <3>1. store[c.net] # None /\ Loaded(c).key >= store[c.net].key
          /\ store[c.net].vert = c.vert
      <4>1. /\ store[c.net] # None /\ Loaded(c).key >= store[c.net].key
            /\ store[c.net].vert >= c.vert /\ ~c.ignoreCache
        BY <1>0, <2>1, LoadedFacts
      <4>2. store[c.net].vert <= c.vert
        BY <4>1 DEF SetConfig
      <4> QED
        BY <1>0, <1>1, <2>0, <4>1, <4>2
    <3> QED
      BY <1>0, <1>1, <1>3, <2>0, <3>1 DEF Forward, NotBehind
  <2>2. CASE ~Kept(c) /\ ~c.ignoreCache
    <3>1. store[c.net] # None => store[c.net].vert < c.vert
      BY <1>0, <1>1, <2>0, <2>2 DEF Kept
    <3> QED
      BY <1>0, <1>1, <1>3, <2>0, <3>1 DEF Forward, NotBehind
  <2>3. CASE c.ignoreCache
    BY <1>0, <1>1, <1>3, <2>0, <2>3 DEF Forward, NotBehind
  <2> QED
    BY <2>1, <2>2, <2>3
<1>6. StoreOwnNet'
  BY <1>1, <1>3 DEF Nets, StoreOwnNet
<1> QED
  BY <1>0, <1>1, <1>2, <1>3, <1>4, <1>5, <1>6 DEF Nets, FatalIsFinal

\* Every step keeps Nets, and moves no file back while nobody else writes.
LEMMA NetsStep ==
    ASSUME TypeInv, Waiting, Nets, [Next]_vars
    PROVE  /\ Nets'
           /\ earlier = {} => \A n \in Networks : Forward(n)
<1>0. \A n \in Networks : store[n] # None => store[n].key >= store[n].key
  BY HeightsAreNat DEF TypeInv, TypeOK, State
<1>a. UNCHANGED store => \A n \in Networks : Forward(n)
  BY <1>0 DEF Forward, NotBehind
<1>1. ASSUME NEW r \in Requests, Request(r) PROVE Nets' /\ UNCHANGED store
  <2>1. UNCHANGED <<store, earlier, gen, conf, lb, wire, mail>> /\ status' = [status EXCEPT ![r] = "sent"]
    BY <1>1 DEF Request
  <2>2. FatalIsFinal'
    BY <2>1 DEF Nets, FatalIsFinal, TypeInv, TypeOK
  <2> QED
    BY <2>1, <2>2, NetsKept DEF Nets
<1>2. ASSUME NEW r \in Requests, GetLastBlock(r) PROVE Nets' /\ UNCHANGED store
  BY <1>2, TakeNets DEF GetLastBlock
<1>3. CASE Grow
  <2>1. UNCHANGED <<store, earlier, gen, conf, lb, wire, mail, status>>
    BY <1>3 DEF Grow
  <2> QED
    BY <2>1, <1>a, NetsKept DEF Nets, FatalIsFinal
<1>4. ASSUME NEW q \in wire, Serve(q) \/ Lose(q) PROVE Nets' /\ UNCHANGED store
  <2>1. UNCHANGED <<tip, store, earlier, gen, conf, lb, mail, status, got, asof, configs>>
    BY <1>4, ReplyOfServer
  <2>2. PICK p \in Query : Reply(q, p)
    BY <1>4, ReplyOfServer
  <2>3. \A s \in wire' : s.kind = "mc" /\ s.phase = "answered" => s.zero = conf'.server
    BY <2>1, <2>2 DEF Nets, Reply
  <2>4. FatalIsFinal'
    BY <2>1 DEF Nets, FatalIsFinal
  <2> QED
    BY <2>1, <2>3, <2>4, NetsKept DEF Nets
<1>5. ASSUME NEW q \in wire, AnswerOf(q) PROVE Nets' /\ UNCHANGED store
  BY <1>5, AnswerNets DEF AnswerOf, OnMasterchainInfo, OnInitBlockProof, OnBlockProof
<1>6. CASE UpdateLastBlockState
  BY <1>6, SaveNets
<1>7. ASSUME NEW c \in Config, SetConfig(c)
      PROVE  Nets' /\ \A n \in Networks : Forward(n)
  BY <1>7, ConfigNets
<1>8. ASSUME Replaced, \A o \in earlier' : o.st.zero = o.conf.net
      PROVE  Nets' /\ UNCHANGED store
  <2>1. /\ UNCHANGED <<store, conf>> /\ gen' = 0 /\ mail' = <<>> /\ wire' = {}
        /\ lb' = NewActor(Loaded(conf), conf)
        /\ conf \in Config /\ conf.net \in Networks /\ store \in [Networks -> State \cup {None}]
    BY <1>8 DEF Replaced, TypeInv, TypeOK, Config
  <2>2. Loaded(conf).zero = conf.net
    BY <2>1, LoadedFacts DEF Nets, StoreOwnNet
  <2>3. lb'.zero = conf.net /\ lb'.fatal = FALSE
    BY <2>1, <2>2, FreshActor
  <2>4. Notes'
    BY <2>1 DEF Notes
  <2> QED
    BY <1>8, <2>1, <2>3, <2>4 DEF Nets, StoreOwnNet, FatalIsFinal
<1>10. CASE Die
  BY <1>8, <1>10, <1>a DEF Die
<1>11. CASE Recreate
  <2>1. PICK s \in State :
          /\ \A p \in earlier' : p \in earlier \/ (p.conf = conf /\ p.st = s)
          /\ \/ s.zero = lb.zero /\ s.key = lb.key /\ s.init = lb.init
             \/ \E i \in 1..Len(mail) : mail[i].gen = gen /\ mail[i].st = s
    BY <1>11, LeftFacts DEF TypeInv
  <2>2. s.zero = conf.net
    BY <2>1 DEF Nets, Notes
  <2>3. \A o \in earlier' : o.st.zero = o.conf.net
    BY <2>1, <2>2 DEF Nets
  <2> QED
    BY <1>8, <1>11, <1>a, <2>3 DEF Recreate
<1>12. ASSUME NEW o \in earlier, LateWrite(o) PROVE Nets'
  <2>1. UNCHANGED <<tip, gen, conf, lb, wire, mail, status>> /\ o.conf.net \in Networks
    BY <1>12, LateFacts DEF TypeInv
  <2>2. PICK s \in State :
          /\ store' = [store EXCEPT ![o.conf.net] = s]
          /\ \A n \in Networks : store'[n] = store[n] \/ (n = o.conf.net /\ store'[n] = s)
          /\ earlier' # {}
          /\ \A p \in earlier' : p \in earlier \/ (p.conf = o.conf /\ p.st = s)
          /\ s.zero = o.st.zero
    BY <1>12, LateFacts DEF TypeInv
  <2>3. s.zero = o.conf.net /\ s # None
    BY <2>2, NoneAssumption DEF Nets
  <2>4. StoreOwnNet' /\ \A p \in earlier' : p.st.zero = p.conf.net
    BY <2>2, <2>3 DEF Nets, StoreOwnNet
  <2>5. gen # 0 => store'[conf.net] # None
    <3>1. conf.net \in Networks
      BY DEF TypeInv, TypeOK, Config
    <3> QED
      BY <2>2, <2>3, <3>1 DEF Nets
  <2>6. Notes'
    BY <2>1, <2>2 DEF Nets, Notes
  <2> QED
    BY <2>1, <2>2, <2>4, <2>5, <2>6 DEF Nets, FatalIsFinal
<1>9. CASE UNCHANGED vars
  <2>1. UNCHANGED <<store, earlier, gen, conf, lb, wire, mail, status>>
    BY <1>9 DEF vars
  <2> QED
    BY <2>1, <1>a, NetsKept DEF Nets, FatalIsFinal
<1> QED
  BY <1>a, <1>1, <1>2, <1>3, <1>4, <1>5, <1>6, <1>7, <1>9, <1>10, <1>11, <1>12,
     ConfigAssumption DEF Next, Configure, AnswerOf

LEMMA NetsInvariant == Spec => [](TypeInv /\ Waiting /\ Nets)
<1>1. Init => Nets
  <2> SUFFICES ASSUME Init PROVE Nets
    OBVIOUS
  <2>1. conf \in Config /\ conf.net \in Networks /\ store \in [Networks -> State \cup {None}]
        /\ store[conf.net] = None
    BY InitConf DEF Init
  <2>2. lb.zero = conf.net /\ lb.fatal = FALSE
    <3>1. Loaded(conf).zero = conf.net
      BY <2>1, LoadedFacts
    <3>2. lb = NewActor(Loaded(conf), conf)
      BY DEF Init
    <3> QED
      BY <2>1, <3>1, <3>2, FreshActor
  <2>3. Notes
    BY DEF Init, Notes
  <2> QED
    BY <2>1, <2>2, <2>3 DEF Init, Nets, StoreOwnNet, FatalIsFinal
<1>2. TypeInv /\ Waiting /\ Nets /\ [Next]_vars => Nets'
  BY NetsStep
<1> QED
  BY <1>1, <1>2, TypeCorrect, WaitingCorrect, PTL DEF Spec, Waiting

\* The file of a network never holds another network's state, however late a
\* state of an older configuration arrives.
THEOREM StoreOwnNetHolds == Spec => []StoreOwnNet
<1>1. Nets => StoreOwnNet
  BY DEF Nets
<1> QED
  BY <1>1, NetsInvariant, PTL

\* Once the servers turned out to be another network's nobody waits.
THEOREM FatalIsFinalHolds == Spec => []FatalIsFinal
<1>1. Nets => FatalIsFinal
  BY DEF Nets
<1> QED
  BY <1>1, NetsInvariant, PTL

\* While nobody else writes, the key block on the disk never moves back, unless
\* hard forks are added or the file is to be ignored.
THEOREM StoreForwardHolds == Spec => StoreForward
<1>1. TypeInv /\ Waiting /\ Nets /\ [Next]_vars =>
        (earlier = {} => \A n \in Networks : Forward(n))
  BY NetsStep
<1>2. TypeInv /\ Waiting /\ Nets /\ [Next]_vars =>
        [earlier = {} =>
          \A n \in Networks : store[n] # None =>
            /\ store'[n] # None
            /\ \/ NotBehind(store'[n], store[n])
               \/ gen' > gen /\ conf'.net = n /\ conf'.ignoreCache]_vars
  BY <1>1 DEF Forward
<1> QED
  BY <1>2, NetsInvariant, PTL DEF Spec, StoreForward

-----------------------------------------------------------------------------
(* The check of the init block.                                            *)

Known == Heights \cup {None}

\* A check is of the configured init block, or goes on from a part of one that
\* was proven; a proof was of blocks of the chain.
Checking(q) ==
    /\ q.kind = "chk" => /\ q.to # None /\ Height(q.from) <= Height(q.to)
                         /\ conf.init \in {q.from, q.to} \cup Heights
    /\ Proof(q) => /\ q.from \in Heights
                   /\ q.to # None => q.to \in Heights /\ q.end <= q.to

Checks ==
    /\ \A q \in wire : Checking(q)
    /\ lb.chk = "Done" /\ ~lb.fatal /\ conf.init # None => lb.init = conf.init
    /\ lb.init \in Known
    /\ \A n \in Networks : store[n] # None => store[n].init \in Known
    /\ \A o \in earlier : o.st.init \in Known
    /\ \A i \in 1..Len(mail) :
           /\ mail[i].st.init \in Known
           /\ mail[i].gen = gen /\ conf.init # None => mail[i].st.init = conf.init

LEMMA ChecksImply == Checks => OlderToNewer /\ KeptIsChecked
<1>1. \A x \in Known : x # None => x \in Heights
  BY DEF Known
<1> QED
  BY <1>1 DEF Checks, Checking, OlderToNewer, KeptIsChecked

LEMMA AskedChecking ==
    ASSUME NEW a \in Actor, conf \in Config
    PROVE  \A q \in Started(a) : Checking(q)
<1> SUFFICES ASSUME NEW q \in Started(a) PROVE Checking(q)
  OBVIOUS
<1>1. q.phase = "asked"
  BY StartedFacts
<1>2. ASSUME q.kind = "chk"
      PROVE  q.to # None /\ Height(q.from) <= Height(q.to)
             /\ conf.init \in {q.from, q.to} \cup Heights
  BY <1>2, StartedFacts
<1> QED
  BY <1>1, <1>2 DEF Checking, Proof

LEMMA MoreChecking ==
    ASSUME TypeInv, NEW q \in wire, Checking(q)
    PROVE  \A p \in More(q) : Checking(p)
<1> SUFFICES ASSUME NEW p \in More(q) PROVE Checking(p)
  OBVIOUS
<1>1. q \in Query /\ lb \in Actor
  BY DEF TypeInv, TypeOK
<1>2. Proof(q) /\ ~q.complete /\ q.kind \in {"chk", "get"}
  BY DEF More, Proof
<1>3. p.kind = q.kind /\ p.phase = "asked"
  BY <1>2, MoreFacts
<1>4. CASE q.kind = "get"
  BY <1>3, <1>4 DEF Checking, Proof
<1>5. CASE q.kind = "chk"
  <2>1. p = Ask("chk", q.end, q.to)
    BY <1>2, <1>5 DEF More
  <2>2. q.end \in Heights /\ q.end \in Refs /\ q.to \in Refs \cup {None}
    BY <1>1 DEF Query, Refs
  <2>3. p.from = q.end /\ p.to = q.to
    BY <2>1, <2>2, AskType
  <2>4. /\ q.from \in Heights /\ q.to # None /\ q.to \in Heights /\ q.end <= q.to
        /\ conf.init \in {q.from, q.to} \cup Heights
    BY <1>2, <1>5 DEF Checking
  <2>5. Height(q.end) = q.end /\ Height(q.to) = q.to
    BY <2>2, <2>4, HeightOfRef DEF Refs
  <2> QED
    BY <1>3, <1>5, <2>3, <2>4, <2>5 DEF Checking, Proof
<1> QED
  BY <1>2, <1>4, <1>5

LEMMA AnswerChecks ==
    ASSUME TypeInv, Waiting, Checks, NEW q \in wire, AnswerOf(q)
    PROVE  Checks'
<1>0. /\ lb \in Actor /\ conf \in Config /\ UNCHANGED <<store, earlier, gen, conf>> /\ q \in Query
      /\ mail \in Seq([gen : 1..MaxConfigs, st : State]) /\ gen \in 1..MaxConfigs
      /\ q.phase \in {"answered", "failed"}
  <2>1. /\ UNCHANGED <<store, earlier, gen, conf>> /\ gen # 0 /\ q \in Query /\ q.phase # "asked"
    BY DEF TypeInv, TypeOK, Down, AnswerOf, OnMasterchainInfo, OnInitBlockProof, OnBlockProof
  <2> QED
    BY <2>1, BlockAssumption DEF TypeInv, TypeOK, Query
<1>1. PICK a \in Actor : Effect(q, a) /\ Outcome(q, a)
  BY AnswerEffect
<1>2. PICK x \in Seq({Note}) : /\ mail' = mail \o x
                               /\ x = <<>> \/ (lb'.chk = "Done" /\ ~lb'.fatal)
  BY MailGrows
<1>3. \A p \in wire' : Checking(p)
  BY <1>0, <1>1, AskedChecking, MoreChecking DEF Outcome, Checks
<1>4. lb'.init \in Known
  <2>1. CASE Proof(q) /\ q.kind = "chk" /\ q.complete /\ ~lb.fatal /\ conf.init # None
    <3>1. Checking(q)
      BY DEF Checks
    <3>2. conf.init \in Heights
      BY <2>1, <3>1 DEF Checking
    <3> QED
      BY <1>1, <2>1, <3>2 DEF Outcome, Effect, Known
  <2>2. CASE ~(Proof(q) /\ q.kind = "chk" /\ q.complete /\ ~lb.fatal /\ conf.init # None)
    <3>1. a.init = lb.init
      BY <1>1, <2>2 DEF Effect
    <3> QED
      BY <1>1, <3>1 DEF Outcome, Checks
  <2> QED
    BY <2>1, <2>2
<1>5. lb'.chk = "Done" /\ ~lb'.fatal /\ conf.init # None => lb'.init = conf.init
  <2> SUFFICES ASSUME lb'.chk = "Done", ~lb'.fatal, conf.init # None PROVE a.init = conf.init
    BY <1>1 DEF Outcome
  <2>1. ~a.fatal /\ Start(a).chk = "Done"
    BY <1>1 DEF Outcome
  <2>2. ~lb.fatal
    BY <1>1, <2>1 DEF Effect
  <2>3. a.chk = "Done" \/ SkipCheck(a)
    BY <2>1, StartFacts
  <2>4. CASE SkipCheck(a)
    BY <2>4 DEF SkipCheck
  <2>5. CASE a.chk = "Done" /\ q.kind = "chk"
    <3>1. q.phase # "failed"
      BY <1>1, <2>5 DEF Effect
    <3>2. Proof(q)
      BY <1>0, <2>5, <3>1 DEF Proof
    <3>3. lb.chk = "Active"
      <4>1. lb["chk"] = "Active"
        BY <2>5 DEF Waiting, OneQueryEach
      <4> QED
        BY <4>1
    <3>4. q.complete
      BY <1>1, <2>5, <3>1, <3>3 DEF Effect
    <3> QED
      BY <1>1, <2>2, <2>5, <3>2, <3>4 DEF Effect
  <2>6. CASE a.chk = "Done" /\ q.kind # "chk"
    <3>1. lb.chk = "Done" /\ a.init = lb.init
      BY <1>1, <2>6 DEF Effect
    <3> QED
      BY <2>2, <3>1 DEF Checks
  <2> QED
    BY <2>3, <2>4, <2>5, <2>6
<1>6. \A i \in 1..Len(mail') :
           /\ mail'[i].st.init \in Known
           /\ mail'[i].gen = gen /\ conf.init # None => mail'[i].st.init = conf.init
  <2> DEFINE M == [gen : 1..MaxConfigs, st : State]
  <2>1. Note \in M /\ Note.st.init = lb'.init
    <3>1. lb' \in Actor
      BY <1>1 DEF Outcome
    <3>2. conf.vert \in Nat /\ gen \in 1..MaxConfigs
      BY <1>0 DEF Config
    <3> QED
      BY <3>1, <3>2 DEF Note, StateOf, State, Actor
  <2> HIDE DEF M
  <2>2. \A i \in 1..Len(mail') :
               \/ i \in 1..Len(mail) /\ mail'[i] = mail[i]
               \/ x # <<>> /\ mail'[i] = Note
    <3>1. mail \in Seq(M) /\ Note \in M
      BY <1>0, <2>1 DEF M
    <3>2. CASE x = <<>>
      <4>1. mail' = mail
        BY <1>2, <3>1, <3>2, ConcatProperties
      <4> QED
        BY <4>1
    <3>3. CASE x # <<>>
      BY <1>2, <3>1, <3>3, Appended
    <3> QED
      BY <3>2, <3>3
  <2> QED
    BY <1>2, <1>4, <1>5, <2>1, <2>2 DEF Checks
<1> QED
  BY <1>0, <1>3, <1>4, <1>5, <1>6 DEF Checks, Checking, Proof

LEMMA TakeChecks ==
    ASSUME TypeInv, Checks, NEW r \in Requests, GetLastBlock(r)
    PROVE  Checks'
<1>0. lb \in Actor /\ conf \in Config /\ UNCHANGED <<store, earlier, gen, conf, mail>>
  BY DEF TypeInv, TypeOK, GetLastBlock
<1>1. CASE lb.fatal
  <2>1. UNCHANGED <<lb, wire>>
    BY <1>1 DEF GetLastBlock
  <2> QED
    BY <1>0, <2>1 DEF Checks, Checking, Proof
<1>2. CASE ~lb.fatal
  <2> DEFINE a == Reset(r)
  <2>1. /\ a \in Actor /\ a.init = lb.init /\ a.chk = lb.chk /\ a.fatal = lb.fatal
    BY ResetFacts
  <2>2. Take(r, a)
    BY <1>2 DEF GetLastBlock
  <2> HIDE DEF a
  <2>3. /\ lb'.init = lb.init /\ ~lb'.fatal /\ wire' = wire \cup Started(a)
        /\ lb'.chk = Start(a).chk
    BY <1>2, <2>1, <2>2, SyncLoopFacts DEF Take
  <2>4. \A p \in Started(a) : Checking(p)
    BY <1>0, <2>1, AskedChecking
  <2>5. lb'.chk = "Done" /\ conf.init # None => lb'.init = conf.init
    <3>1. lb'.chk = "Done" => a.chk = "Done" \/ SkipCheck(a)
      BY <2>1, <2>3, StartFacts
    <3> QED
      BY <1>2, <2>1, <2>3, <3>1 DEF SkipCheck, Checks
  <2> QED
    BY <1>0, <2>3, <2>4, <2>5 DEF Checks, Checking, Proof
<1> QED
  BY <1>1, <1>2

LEMMA ReplyChecking ==
    ASSUME TypeInv, NEW q \in wire, Checking(q), NEW p \in Query, Reply(q, p)
    PROVE  Checking(p)
<1>1. p.kind = q.kind /\ p.from = q.from /\ p.to = q.to
  BY DEF Reply
<1>2. ASSUME Proof(p)
      PROVE  p.from \in Heights /\ (p.to # None => p.to \in Heights /\ p.end <= p.to)
  <2>1. q.from \in 0..tip /\ Target(q) \in q.from..tip /\ p.end <= Target(q)
        /\ tip \in 0..MaxTip
    BY <1>2 DEF Reply, Provable, TypeInv, TypeOK, Heights
  <2>2. q.from \in Heights /\ Target(q) \in Heights
    BY <2>1, BlockAssumption DEF Heights
  <2>3. q.to # None => Target(q) = q.to
    BY DEF Target
  <2> QED
    BY <1>1, <2>1, <2>2, <2>3
<1> QED
  BY <1>1, <1>2 DEF Checking

LEMMA ChecksStep ==
    ASSUME TypeInv, Waiting, Nets, Checks, [Next]_vars
    PROVE  Checks'
<1>0. UNCHANGED <<store, earlier, gen, conf, mail, lb, wire>> => Checks'
  BY DEF Checks, Checking, Proof
<1>1. ASSUME NEW r \in Requests, Request(r) PROVE Checks'
  BY <1>0, <1>1 DEF Request
<1>2. ASSUME NEW r \in Requests, GetLastBlock(r) PROVE Checks'
  BY <1>2, TakeChecks
<1>3. CASE Grow
  BY <1>0, <1>3 DEF Grow
<1>4. ASSUME NEW q \in wire, Serve(q) \/ Lose(q) PROVE Checks'
  <2>1. UNCHANGED <<store, earlier, gen, conf, lb, mail>>
    BY <1>4, ReplyOfServer
  <2>2. PICK p \in Query : Reply(q, p)
    BY <1>4, ReplyOfServer
  <2>3. Checking(p)
    BY <2>2, ReplyChecking DEF Checks
  <2>4. \A s \in wire' : Checking(s)
    BY <2>2, <2>3 DEF Reply, Checks
  <2> QED
    BY <2>1, <2>4 DEF Checks, Checking, Proof
<1>5. ASSUME NEW q \in wire, AnswerOf(q) PROVE Checks'
  BY <1>5, AnswerChecks
<1>6. CASE UpdateLastBlockState
  <2> DEFINE M == [gen : 1..MaxConfigs, st : State]
             m == Head(mail)
  <2>1. /\ UNCHANGED <<earlier, gen, conf, lb, wire>>
        /\ mail' = Tail(mail) /\ mail # <<>> /\ mail \in Seq(M)
        /\ store' = store \/ store' = [store EXCEPT ![conf.net] = m.st]
        /\ store \in [Networks -> State \cup {None}]
    BY <1>6 DEF UpdateLastBlockState, TypeInv, TypeOK
  <2> HIDE DEF M
  <2>2. /\ m = mail[1] /\ 1 \in 1..Len(mail)
        /\ \A i \in 1..Len(mail') : mail'[i] = mail[i + 1] /\ i + 1 \in 1..Len(mail)
    BY <2>1, Dropped
  <2>3. m.st.init \in Known
    BY <2>2 DEF Checks
  <2>4. \A n \in Networks : store'[n] # None => store'[n].init \in Known
    <3> SUFFICES ASSUME NEW n \in Networks, store'[n] # None PROVE store'[n].init \in Known
      OBVIOUS
    <3>1. store'[n] = store[n] \/ store'[n] = m.st
      BY <2>1
    <3> QED
      BY <2>3, <3>1 DEF Checks
  <2>5. \A i \in 1..Len(mail') :
           /\ mail'[i].st.init \in Known
           /\ mail'[i].gen = gen /\ conf.init # None => mail'[i].st.init = conf.init
    BY <2>2 DEF Checks
  <2> QED
    BY <2>1, <2>4, <2>5 DEF Checks, Checking, Proof
<1>7. ASSUME NEW c \in Config, SetConfig(c) PROVE Checks'
  <2>1. /\ c.net \in Networks /\ store \in [Networks -> State \cup {None}]
        /\ gen' = gen + 1 /\ gen \in Nat /\ mail' = mail /\ wire' = {}
        /\ earlier' = earlier
        /\ store' = [store EXCEPT ![c.net] = Loaded(c)]
        /\ lb' = NewActor(Loaded(c), c)
    BY <1>7 DEF SetConfig, TypeInv, TypeOK, Config
  <2>2. Loaded(c).init \in Known
    BY <2>1, LoadedFacts DEF Checks, Known
  <2>3. lb'.init \in Known /\ lb'.chk = "Empty"
    BY <2>1, <2>2, FreshActor
  <2>4. \A n \in Networks : store'[n] # None => store'[n].init \in Known
    <3> SUFFICES ASSUME NEW n \in Networks, store'[n] # None PROVE store'[n].init \in Known
      OBVIOUS
    <3>1. store'[n] = store[n] \/ store'[n] = Loaded(c)
      BY <2>1
    <3> QED
      BY <2>2, <3>1 DEF Checks
  <2>5. \A i \in 1..Len(mail) : mail[i].gen # gen'
    <3>1. \A i \in 1..Len(mail) : mail[i].gen \in Int /\ mail[i].gen <= gen
      BY MailTypes DEF Nets, Notes
    <3> QED
      BY <2>1, <3>1
  <2> QED
    BY <2>1, <2>3, <2>4, <2>5 DEF Checks
<1>8. ASSUME Replaced, \A o \in earlier' : o.st.init \in Known PROVE Checks'
  <2>1. /\ UNCHANGED <<store, conf>> /\ mail' = <<>> /\ wire' = {}
        /\ lb' = NewActor(Loaded(conf), conf)
        /\ conf \in Config /\ conf.net \in Networks /\ store \in [Networks -> State \cup {None}]
    BY <1>8 DEF Replaced, TypeInv, TypeOK, Config
  <2>2. Loaded(conf).init \in Known
    BY <2>1, LoadedFacts DEF Checks, Known
  <2>3. lb'.init \in Known /\ lb'.chk = "Empty"
    BY <2>1, <2>2, FreshActor
  <2> QED
    BY <1>8, <2>1, <2>3 DEF Checks
<1>10. CASE Die
  BY <1>8, <1>10 DEF Die
<1>11. CASE Recreate
  <2>1. PICK s \in State :
          /\ \A p \in earlier' : p \in earlier \/ (p.conf = conf /\ p.st = s)
          /\ \/ s.zero = lb.zero /\ s.key = lb.key /\ s.init = lb.init
             \/ \E i \in 1..Len(mail) : mail[i].gen = gen /\ mail[i].st = s
    BY <1>11, LeftFacts DEF TypeInv
  <2>2. s.init \in Known
    BY <2>1 DEF Checks
  <2>3. \A o \in earlier' : o.st.init \in Known
    BY <2>1, <2>2 DEF Checks
  <2> QED
    BY <1>8, <1>11, <2>3 DEF Recreate
<1>12. ASSUME NEW o \in earlier, LateWrite(o) PROVE Checks'
  <2>1. UNCHANGED <<gen, conf, lb, wire, mail>>
    BY <1>12, LateFacts DEF TypeInv
  <2>2. PICK s \in State :
          /\ \A n \in Networks : store'[n] = store[n] \/ (n = o.conf.net /\ store'[n] = s)
          /\ \A p \in earlier' : p \in earlier \/ (p.conf = o.conf /\ p.st = s)
          /\ s.init \in {o.st.init} \cup Heights
    BY <1>12, LateFacts DEF TypeInv
  <2>3. s.init \in Known
    BY <2>2 DEF Checks, Known
  <2> QED
    BY <2>1, <2>2, <2>3 DEF Checks, Checking, Proof
<1>9. CASE UNCHANGED vars
  BY <1>0, <1>9 DEF vars
<1> QED
  BY <1>1, <1>2, <1>3, <1>4, <1>5, <1>6, <1>7, <1>9, <1>10, <1>11, <1>12, ConfigAssumption
  DEF Next, Configure, AnswerOf

LEMMA ChecksInvariant == Spec => []Checks
<1>1. Init => Checks
  <2> SUFFICES ASSUME Init PROVE Checks
    OBVIOUS
  <2>1. conf \in Config /\ conf.net \in Networks /\ store \in [Networks -> State \cup {None}]
        /\ store[conf.net] = None
    BY InitConf DEF Init
  <2>2. Loaded(conf).init = None
    BY <2>1, LoadedFacts
  <2>3. lb.init = None /\ lb.chk = "Empty"
    BY <2>1, <2>2, FreshActor DEF Init
  <2> QED
    BY <2>3 DEF Init, Checks, Known
<1>2. TypeInv /\ Waiting /\ Nets /\ Checks /\ [Next]_vars => Checks'
  BY ChecksStep
<1> QED
  BY <1>1, <1>2, NetsInvariant, PTL DEF Spec

\* Nothing is saved under a configuration whose init block is not proven to be
\* in the chain, whatever forks, losses and crashes.
THEOREM KeptIsCheckedHolds == Spec => []KeptIsChecked
  BY ChecksImply, ChecksInvariant, PTL

\* The check of the init block always goes from the older block to the newer.
THEOREM OlderToNewerHolds == Spec => []OlderToNewer
  BY ChecksImply, ChecksInvariant, PTL

-----------------------------------------------------------------------------
(* Answers are fresh.                                                      *)

\* A held request that came to an idle actor waits for a query made after it
\* came; it is answered only when that query has brought the last block so far.
FreshHeld(r) ==
    /\ asof[r] <= tip
    /\ lb.get = "Done" => asof[r] <= lb.last
    /\ \A q \in wire : q.kind = "get" /\ Proof(q) /\ q.complete => asof[r] <= q.end

Fresh ==
    /\ \A r \in Requests :
           /\ status[r] \in {"free", "sent"} => asof[r] = 0
           /\ status[r] = "ok" => asof[r] <= got[r]
           /\ status[r] = "held" => FreshHeld(r)
    /\ \A q \in wire : q.kind = "get" => q.to = None

LEMMA AskedLast ==
    ASSUME NEW a \in Actor, conf \in Config
    PROVE  \A q \in Started(a) : q.phase = "asked" /\ (q.kind = "get" => q.to = None)
<1>1. \A q \in Started(a) : q.phase = "asked"
  BY StartedFacts
<1>2. DoGetLastBlock(a).to = None
  BY DEF DoGetLastBlock, Ask
<1>3. ASSUME NEW q \in Started(a), q.kind = "get" PROVE q.to = None
  <2>1. Ask("mc", 0, None).kind = "mc"
    BY DEF Ask
  <2>2. DoCheckInitBlock(a).kind = "chk"
    BY DEF DoCheckInitBlock, Ask
  <2>3. q \in {Ask("mc", 0, None), DoGetLastBlock(a), DoCheckInitBlock(a)}
    BY DEF Started
  <2> QED
    BY <1>2, <1>3, <2>1, <2>2, <2>3
<1> QED
  BY <1>1, <1>3

LEMMA AnswerFresh ==
    ASSUME TypeInv, Waiting, Nets, Fresh, NEW q \in wire, AnswerOf(q)
    PROVE  Fresh'
<1>0. /\ lb \in Actor /\ conf \in Config /\ UNCHANGED tip /\ q \in Query
      /\ q.kind \in {"mc", "chk", "get"} /\ q.phase \in {"answered", "failed"}
      /\ lb.last \in Heights /\ q.end \in Heights /\ asof \in [Requests -> Heights]
      /\ status \in [Requests -> {"free", "sent", "held", "ok"}]
  <2>1. UNCHANGED tip /\ q \in Query /\ lb \in Actor /\ q.phase # "asked"
    BY DEF TypeInv, TypeOK, AnswerOf, OnMasterchainInfo, OnInitBlockProof, OnBlockProof
  <2> QED
    BY <2>1 DEF TypeInv, TypeOK, Query, Actor
<1>1. PICK a \in Actor : Effect(q, a) /\ Outcome(q, a)
  BY AnswerEffect
<1>2. \A p \in wire' : /\ p.kind = "get" => p.to = None
                       /\ p \in wire \/ p.phase = "asked"
  <2>1. \A p \in More(q) : p.phase = "asked" /\ (p.kind = "get" => p.to = None)
    <3>1. \A p \in More(q) : p.phase = "asked" /\ p.kind = q.kind
      BY <1>0, MoreFacts
    <3>2. ASSUME NEW p \in More(q), p.kind = "get" PROVE p.to = None
      <4>1. p = Ask("get", KeyAfter(lb, q), None)
        BY <3>1, <3>2 DEF More
      <4> QED
        BY <4>1 DEF Ask
    <3> QED
      BY <3>1, <3>2
  <2>2. \A p \in Started(a) : p.phase = "asked" /\ (p.kind = "get" => p.to = None)
    BY <1>0, AskedLast
  <2> QED
    BY <1>1, <2>1, <2>2 DEF Outcome, Fresh
<1>3. ASSUME NEW r \in lb.held, Start(a).get = "Done" PROVE asof[r] <= a.last
  <2>1. r \in Requests /\ status[r] = "held" /\ FreshHeld(r) /\ ~lb.fatal
    BY <1>0, <1>3 DEF Waiting, HeldAgree, Fresh, Actor, Nets, FatalIsFinal
  <2>2. asof[r] \in Int /\ lb.last \in Int /\ q.end \in Int
    BY <1>0, <2>1, HeightsAreNat
  <2>3. a.get = "Done"
    BY <1>3, StartFacts
  <2>4. lb.last <= a.last /\ (Proof(q) => q.end <= a.last)
    BY <1>1, <2>1, <2>2 DEF Effect, LastAfter
  <2>5. a.last \in Int
    BY HeightsAreNat DEF Actor
  <2>6. CASE lb.get = "Done"
    BY <2>1, <2>2, <2>4, <2>5, <2>6 DEF FreshHeld
  <2>7. CASE lb.get # "Done"
    <3>1. q.kind = "get" /\ q.phase # "failed" /\ q.complete
      BY <1>1, <2>3, <2>7 DEF Effect
    <3>2. Proof(q)
      BY <1>0, <3>1 DEF Proof
    <3>3. asof[r] <= q.end
      BY <2>1, <3>1, <3>2 DEF FreshHeld
    <3> QED
      BY <2>2, <2>4, <2>5, <3>2, <3>3
  <2> QED
    BY <2>6, <2>7
<1>4. /\ a.held \subseteq lb.held /\ Answered(a) \subseteq a.held
      /\ Answered(a) # {} => Start(a).get = "Done"
  BY <1>1, SyncLoopFacts DEF Effect, Answered, AllDone
<1>5. ASSUME NEW r \in Requests
      PROVE  /\ status'[r] \in {"free", "sent"} => asof'[r] = 0
             /\ status'[r] = "ok" => asof'[r] <= got'[r]
             /\ status'[r] = "held" => FreshHeld(r)'
  <2>1. CASE r \in Answered(a)
    <3>1. r \in lb.held /\ r \notin Lost(q)
      BY <1>1, <1>4, <2>1 DEF Effect
    <3>2. asof[r] <= a.last
      BY <1>3, <1>4, <2>1, <3>1
    <3>3. status'[r] = "ok" /\ asof'[r] = asof[r] /\ got'[r] = a.last
      BY <1>0, <1>1, <2>1, <3>1 DEF Outcome
    <3> QED
      BY <3>2, <3>3
  <2>2. CASE r \notin Answered(a) /\ r \in Lost(q)
    BY <1>1, <2>2 DEF Outcome
  <2>3. CASE r \notin Answered(a) /\ r \notin Lost(q)
    <3>1. status'[r] = status[r] /\ asof'[r] = asof[r] /\ got'[r] = got[r]
      BY <1>1, <2>3 DEF Outcome
    <3>2. ASSUME status[r] = "held" PROVE FreshHeld(r)'
      <4>1. r \in lb.held /\ FreshHeld(r)
        BY <3>2 DEF Waiting, HeldAgree, Fresh
      <4>2. lb'.get = "Done" => asof[r] <= lb'.last
        BY <1>1, <1>3, <4>1 DEF Outcome
      <4>3. \A p \in wire' : p.kind = "get" /\ Proof(p) /\ p.complete => asof[r] <= p.end
        BY <1>2, <4>1 DEF FreshHeld, Proof
      <4> QED
        BY <1>0, <3>1, <4>1, <4>2, <4>3 DEF FreshHeld, Proof
    <3> QED
      BY <3>1, <3>2 DEF Fresh
  <2> QED
    BY <2>1, <2>2, <2>3
<1> QED
  BY <1>2, <1>5 DEF Fresh

LEMMA TakeFresh ==
    ASSUME TypeInv, Waiting, Nets, Fresh, NEW r \in Requests, GetLastBlock(r)
    PROVE  Fresh'
<1>0. /\ lb \in Actor /\ conf \in Config /\ UNCHANGED <<tip>>
      /\ tip \in Int /\ tip >= 0 /\ status[r] = "sent"
      /\ status \in [Requests -> {"free", "sent", "held", "ok"}] /\ asof \in [Requests -> Heights]
  <2>1. tip \in Heights
    BY DEF TypeInv, TypeOK
  <2> QED
    BY <2>1, HeightsAreNat DEF TypeInv, TypeOK, GetLastBlock
<1>1. CASE lb.fatal
  <2>1. UNCHANGED <<lb, wire, got, asof>> /\ status' = [status EXCEPT ![r] = "free"]
    BY <1>1 DEF GetLastBlock
  <2>2. \A s \in Requests : FreshHeld(s) => FreshHeld(s)'
    BY <1>0, <2>1 DEF FreshHeld, Proof
  <2> QED
    BY <1>0, <2>1, <2>2 DEF Fresh
<1>2. CASE ~lb.fatal
  <2> DEFINE a == Reset(r)
             new == IF lb.held = {} /\ lb.get # "Active" THEN tip ELSE 0
  <2>1. /\ a \in Actor /\ a.held = lb.held \cup {r} /\ a.last = lb.last
        /\ a.get = IF lb.held = {} /\ lb.get = "Done" THEN "Empty" ELSE lb.get
    BY ResetFacts
  <2>2. Take(r, a)
    BY <1>2 DEF GetLastBlock
  <2> HIDE DEF a
  <2>3. /\ lb'.last = lb.last /\ lb'.get = Start(a).get /\ wire' = wire \cup Started(a)
        /\ Answered(a) \subseteq lb.held \cup {r}
    BY <2>1, <2>2, SyncLoopFacts DEF Take
  <2>4. \A p \in Started(a) : p.phase = "asked" /\ (p.kind = "get" => p.to = None)
    BY <1>0, <2>1, AskedLast
  <2>5. /\ status' = [s \in Requests |-> IF s \in Answered(a) THEN "ok"
                                         ELSE IF s = r THEN "held" ELSE status[s]]
        /\ got' = [s \in Requests |-> IF s \in Answered(a) THEN lb.last ELSE got[s]]
        /\ asof' = [asof EXCEPT ![r] = new]
    BY <2>1, <2>2 DEF Take
  <2>6. /\ Start(a).get = "Done" => a.get = "Done"
        /\ Answered(a) # {} => Start(a).get = "Done"
    BY <2>1, StartFacts DEF Answered, AllDone
  <2>7. a.get = "Done" => lb.get = "Done" /\ lb.held # {}
    BY <2>1
  <2>8. asof[r] = 0 /\ r \notin lb.held
    BY <1>0 DEF Fresh, Waiting, HeldAgree
  <2>9. lb.last \in Int /\ lb.last >= 0
    BY <1>0, HeightsAreNat DEF Actor
  <2>10. new <= tip /\ (lb.get = "Active" \/ lb.held # {} => new = 0)
    BY <1>0
  <2> HIDE DEF new
  <2>11. \A s \in lb.held : FreshHeld(s)
    BY <1>0 DEF Waiting, HeldAgree, Fresh, Actor
  <2>12. ASSUME NEW s \in Requests, s # r
         PROVE  /\ status'[s] \in {"free", "sent"} => asof'[s] = 0
                /\ status'[s] = "ok" => asof'[s] <= got'[s]
                /\ status'[s] = "held" => FreshHeld(s)'
    <3>1. asof'[s] = asof[s]
      BY <1>0, <2>5, <2>12
    <3>2. CASE s \in Answered(a)
      <4>1. status'[s] = "ok" /\ got'[s] = lb.last
        BY <2>5, <3>2
      <4>2. asof[s] <= lb.last
        BY <2>3, <2>6, <2>7, <2>11, <2>12, <3>2 DEF FreshHeld
      <4> QED
        BY <3>1, <4>1, <4>2
    <3>3. CASE s \notin Answered(a)
      <4>1. status'[s] = status[s] /\ got'[s] = got[s]
        BY <2>5, <2>12, <3>3
      <4>2. FreshHeld(s) => FreshHeld(s)'
        BY <1>0, <2>3, <2>4, <2>6, <2>7, <3>1 DEF FreshHeld, Proof
      <4> QED
        BY <3>1, <4>1, <4>2 DEF Fresh
    <3> QED
      BY <3>2, <3>3
  <2>13. /\ status'[r] \in {"ok", "held"} /\ asof'[r] = new
         /\ status'[r] = "ok" => asof'[r] <= got'[r]
         /\ status'[r] = "held" => FreshHeld(r)'
    <3>1. asof'[r] = new /\ status'[r] \in {"ok", "held"}
      BY <1>0, <2>5
    <3>2. ASSUME status'[r] = "ok" PROVE new <= got'[r]
      <4>1. r \in Answered(a)
        BY <2>5, <3>2
      <4>2. new = 0 /\ got'[r] = lb.last
        BY <2>5, <2>6, <2>7, <2>10, <4>1
      <4> QED
        BY <2>9, <4>2
    <3>3. lb'.get = "Done" => new <= lb'.last
      <4>1. lb'.get = "Done" => new = 0
        BY <2>3, <2>6, <2>7, <2>10
      <4> QED
        BY <2>3, <2>9, <4>1
    <3>4. ASSUME NEW p \in wire', p.kind = "get", Proof(p), p.complete PROVE new <= p.end
      <4>1. p \in wire
        BY <2>3, <2>4, <3>4 DEF Proof
      <4>2. lb.get = "Active"
        <5>1. lb["get"] = "Active"
          BY <3>4, <4>1 DEF Waiting, OneQueryEach
        <5> QED
          BY <5>1
      <4>3. p.end \in Int /\ p.end >= 0
        BY <4>1, HeightsAreNat DEF TypeInv, TypeOK, Query
      <4> QED
        BY <2>10, <4>2, <4>3
    <3> QED
      BY <1>0, <2>10, <3>1, <3>2, <3>3, <3>4 DEF FreshHeld, Proof
  <2>14. \A p \in wire' : p.kind = "get" => p.to = None
    BY <2>3, <2>4 DEF Fresh
  <2> QED
    BY <2>12, <2>13, <2>14 DEF Fresh
<1> QED
  BY <1>1, <1>2

LEMMA FreshStep ==
    ASSUME TypeInv, Waiting, Nets, Fresh, [Next]_vars
    PROVE  Fresh'
<1>0. UNCHANGED <<tip, lb, wire, status, got, asof>> => Fresh'
  BY DEF Fresh, FreshHeld, Proof
<1>a. /\ tip \in Int /\ (\A r \in Requests : asof[r] \in Int)
      /\ asof \in [Requests -> Heights] /\ got \in [Requests -> Heights]
      /\ status \in [Requests -> {"free", "sent", "held", "ok"}]
  <2>1. tip \in Heights
    BY DEF TypeInv, TypeOK
  <2> QED
    BY <2>1, HeightsAreNat DEF TypeInv, TypeOK
<1>1. ASSUME NEW r \in Requests, Request(r) PROVE Fresh'
  <2>1. /\ UNCHANGED <<tip, lb, wire>> /\ status' = [status EXCEPT ![r] = "sent"]
        /\ got' = [got EXCEPT ![r] = 0] /\ asof' = [asof EXCEPT ![r] = 0]
    BY <1>1 DEF Request
  <2>2. status'[r] = "sent" /\ asof'[r] = 0
    BY <1>a, <2>1
  <2>3. ASSUME NEW s \in Requests, s # r
        PROVE  /\ status'[s] = status[s] /\ got'[s] = got[s] /\ asof'[s] = asof[s]
               /\ FreshHeld(s) => FreshHeld(s)'
    BY <1>a, <2>1, <2>3 DEF FreshHeld, Proof
  <2> QED
    BY <2>1, <2>2, <2>3 DEF Fresh
<1>2. ASSUME NEW r \in Requests, GetLastBlock(r) PROVE Fresh'
  BY <1>2, TakeFresh
<1>3. CASE Grow
  <2>1. UNCHANGED <<lb, wire, status, got, asof>> /\ tip' = tip + 1
    BY <1>3 DEF Grow
  <2> QED
    BY <1>a, <2>1 DEF Fresh, FreshHeld, Proof
<1>4. ASSUME NEW q \in wire, Serve(q) \/ Lose(q) PROVE Fresh'
  <2>1. UNCHANGED <<tip, lb, status, got, asof>>
    BY <1>4, ReplyOfServer
  <2>2. PICK p \in Query : Reply(q, p)
    BY <1>4, ReplyOfServer
  <2>3. \A s \in wire' : s \in wire \/ s = p
    BY <2>2 DEF Reply
  <2>4. p.kind = "get" => p.to = None
    BY <2>2 DEF Reply, Fresh
  <2>5. p.kind = "get" /\ Proof(p) /\ p.complete => p.end = tip
    <3>1. p.kind = "get" => Target(q) = tip
      BY <2>2 DEF Reply, Fresh, Target
    <3> QED
      BY <2>2, <3>1 DEF Reply
  <2> QED
    BY <2>1, <2>3, <2>4, <2>5 DEF Fresh, FreshHeld, Proof
<1>5. ASSUME NEW q \in wire, AnswerOf(q) PROVE Fresh'
  BY <1>5, AnswerFresh
<1>6. CASE UpdateLastBlockState
  BY <1>0, <1>6 DEF UpdateLastBlockState
<1>7. ASSUME NEW c \in Config, SetConfig(c) PROVE Fresh'
  <2>1. /\ wire' = {} /\ got' = got
        /\ status' = [r \in Requests |-> IF status[r] \in {"sent", "held"} THEN "free"
                                         ELSE status[r]]
        /\ asof' = [r \in Requests |-> IF status[r] = "held" THEN 0 ELSE asof[r]]
    BY <1>7 DEF SetConfig
  <2> QED
    BY <1>a, <2>1 DEF Fresh
<1>8. CASE Replaced
  BY <1>8 DEF Replaced, Fresh
<1>10. ASSUME NEW o \in earlier, LateWrite(o) PROVE Fresh'
  BY <1>0, <1>10 DEF LateWrite
<1>9. CASE UNCHANGED vars
  BY <1>0, <1>9 DEF vars
<1> QED
  BY <1>1, <1>2, <1>3, <1>4, <1>5, <1>6, <1>7, <1>8, <1>9, <1>10, ConfigAssumption
  DEF Next, Configure, Die, Recreate, AnswerOf

\* A caller that found the actor idle is never answered with a block older than
\* the newest one at that moment.
THEOREM FreshAnswerHolds == Spec => []FreshAnswer
<1>1. Init => Fresh
  BY DEF Init, Fresh
<1>2. TypeInv /\ Waiting /\ Nets /\ Fresh /\ [Next]_vars => Fresh'
  BY FreshStep
<1>3. TypeInv /\ Fresh => FreshAnswer
  <2> SUFFICES ASSUME TypeInv, Fresh, NEW r \in Requests, status[r] = "ok"
               PROVE  got[r] >= asof[r]
    BY DEF FreshAnswer
  <2>1. got[r] \in Int /\ asof[r] \in Int /\ asof[r] <= got[r]
    BY HeightsAreNat DEF TypeInv, TypeOK, Fresh
  <2> QED
    BY <2>1
<1> QED
  BY <1>1, <1>2, <1>3, NetsInvariant, PTL DEF Spec

-----------------------------------------------------------------------------
(* Nobody who waits is forgotten.                                          *)

\* While promises are held nothing of the synchronisation stands still: what is
\* not done is being asked for.
Busy(b) ==
    /\ b.mc # "Empty" /\ b.chk # "Empty"
    /\ b.chk = "Done" => b.get # "Empty"
    /\ ~AllDone(b)

Pending == lb.held # {} => Busy(lb)

\* sync_loop leaves no promise behind that nothing is asked for.
LEMMA SyncLoopBusy ==
    ASSUME NEW a \in Actor, NEW b,
           b.mc = Start(a).mc, b.chk = Start(a).chk, b.get = Start(a).get,
           b.held = a.held \ Answered(a), b.held # {}
    PROVE  Busy(b)
<1>1. a.held # {} /\ ~AllDone(Start(a))
  BY DEF Answered
<1>2. /\ Start(a).mc # "Empty" /\ Start(a).chk # "Empty"
      /\ Start(a).chk = "Done" => Start(a).get # "Empty"
  BY <1>1, StartFacts DEF Actor, QueryState
<1> QED
  BY <1>1, <1>2 DEF Busy, AllDone

\* A caller that joins is not answered at once: not even by a synchronisation
\* that has just ended.
LEMMA JoiningIsNotAnswered ==
    ASSUME TypeInv, Pending, NEW r \in Requests
    PROVE  Answered(Reset(r)) = {}
<1> DEFINE a == Reset(r)
<1>1. /\ a \in Actor /\ a.held = lb.held \cup {r}
      /\ a.mc = lb.mc /\ a.chk = lb.chk
      /\ a.get = IF lb.held = {} /\ lb.get = "Done" THEN "Empty" ELSE lb.get
  BY ResetFacts
<1> HIDE DEF a
<1>2. /\ Start(a).mc = IF a.mc = "Empty" THEN "Active" ELSE a.mc
      /\ a.chk # "Empty" => Start(a).chk = a.chk
      /\ a.get # "Done" => Start(a).get # "Done"
  BY <1>1, StartFacts DEF SkipCheck
<1>3. CASE lb.held = {}
  <2>1. a.get # "Done"
    BY <1>1, <1>3
  <2> QED
    BY <1>2, <2>1 DEF Answered, AllDone, a
<1>4. CASE lb.held # {}
  <2>1. Busy(lb)
    BY <1>4 DEF Pending
  <2>2. a.mc # "Done" \/ a.chk \notin {"Empty", "Done"} \/ a.get # "Done"
    BY <1>1, <1>4, <2>1 DEF Busy, AllDone
  <2>3. ~AllDone(Start(a))
    BY <1>1, <1>2, <2>2 DEF AllDone, Actor, QueryState
  <2> QED
    BY <2>3 DEF Answered, a
<1> QED
  BY <1>3, <1>4

LEMMA PendingStep ==
    ASSUME TypeInv, Waiting, Pending, [Next]_vars
    PROVE  Pending'
<1>0. UNCHANGED lb => Pending'
  BY DEF Pending, Busy, AllDone
<1>1. ASSUME NEW r \in Requests, GetLastBlock(r) PROVE Pending'
  <2>1. CASE lb.fatal
    BY <1>0, <1>1, <2>1 DEF GetLastBlock
  <2>2. CASE ~lb.fatal
    <3>1. Reset(r) \in Actor /\ lb' = SyncLoop(Reset(r))
      BY <1>1, <2>2, ResetFacts DEF GetLastBlock, Take
    <3>2. lb'.held # {} => Busy(lb')
      BY <3>1, SyncLoopFacts, SyncLoopBusy
    <3> QED
      BY <3>2 DEF Pending, Busy, AllDone
  <2> QED
    BY <2>1, <2>2
<1>2. ASSUME NEW q \in wire, AnswerOf(q) PROVE Pending'
  <2>1. PICK a \in Actor : Effect(q, a) /\ Outcome(q, a)
    BY <1>2, AnswerEffect
  <2>2. lb'.held # {} => Busy(lb')
    BY <2>1, SyncLoopBusy DEF Outcome
  <2> QED
    BY <2>2 DEF Pending, Busy, AllDone
<1>3. ASSUME NEW c \in Config, SetConfig(c) \/ Replaced PROVE Pending'
  <2>1. /\ conf \in Config /\ store \in [Networks -> State \cup {None}]
        /\ lb' = NewActor(Loaded(c), c) \/ lb' = NewActor(Loaded(conf), conf)
    BY <1>3 DEF SetConfig, Replaced, TypeInv, TypeOK
  <2>2. lb'.held = {}
    BY <2>1, FreshActor
  <2> QED
    BY <2>2 DEF Pending
<1>4. ASSUME NEW q \in wire, Serve(q) \/ Lose(q) PROVE Pending'
  BY <1>0, <1>4, ReplyOfServer
<1>5. ASSUME NEW r \in Requests, Request(r) PROVE Pending'
  BY <1>0, <1>5 DEF Request
<1>6. CASE Grow \/ UpdateLastBlockState \/ UNCHANGED vars
  BY <1>0, <1>6 DEF Grow, UpdateLastBlockState, vars
<1>7. ASSUME NEW o \in earlier, LateWrite(o) PROVE Pending'
  BY <1>0, <1>7 DEF LateWrite
<1> QED
  BY <1>1, <1>2, <1>3, <1>4, <1>5, <1>6, <1>7, ConfigAssumption
  DEF Next, Configure, Die, Recreate, AnswerOf, TypeInv, TypeOK

LEMMA PendingInvariant == Spec => [](TypeInv /\ Waiting /\ Nets /\ Pending)
<1>1. Init => Pending
  <2> SUFFICES ASSUME Init PROVE Pending
    OBVIOUS
  <2>1. conf \in Config /\ store \in [Networks -> State \cup {None}]
    BY InitConf DEF Init
  <2>2. lb.held = {}
    BY <2>1, FreshActor DEF Init
  <2> QED
    BY <2>2 DEF Pending
<1>2. TypeInv /\ Waiting /\ Nets /\ Pending /\ [Next]_vars => Pending'
  BY PendingStep
<1> QED
  BY <1>1, <1>2, NetsInvariant, PTL DEF Spec

\* Whoever is held waits for a query the server has or whose answer is under
\* way.
THEOREM NobodyStrandedHolds == Spec => []NobodyStranded
<1>1. TypeInv /\ Waiting /\ Pending => NobodyStranded
  <2> SUFFICES ASSUME TypeInv, Waiting, Pending, NEW r \in Requests, status[r] = "held"
               PROVE  \E q \in wire : q.kind = "chk" \/ (lb.chk = "Done" /\ q.kind \in {"mc", "get"})
    BY DEF NobodyStranded
  <2>1. Busy(lb)
    BY DEF Waiting, HeldAgree, Pending
  <2>2. One(wire, lb) /\ lb \in Actor
    BY OneMeans DEF Waiting, OneQueryEach, TypeInv, TypeOK
  <2>3. lb.chk = "Active" \/ (lb.chk = "Done" /\ (lb.get = "Active" \/ lb.mc = "Active"))
    BY <2>1, <2>2 DEF Busy, AllDone, Actor, QueryState
  <2> QED
    BY <2>2, <2>3 DEF One
<1> QED
  BY <1>1, PendingInvariant, PTL

-----------------------------------------------------------------------------
(* What the actor has proven is saved.                                     *)

\* A start from the newest save would resume from where the actor is.
Resumable == NewestSave.key = lb.key /\ NewestSave.init = lb.init

\* If nobody else writes the file: what is proven while an init block is still being checked may be unsaved, and
\* this check ends with a save, because it names another init block.
Unchecked(b) == b.chk # "Done" /\ conf.init \notin {None, b.init}

CheckFirst(b) ==
    /\ b.get = "Active" => b.chk = "Done"
    /\ b.chk = "Active" => conf.init \notin {None, b.init}

SaveInv ==
    /\ CheckFirst(lb)
    /\ mail # <<>> /\ mail[Len(mail)].gen # gen => \A i \in 1..Len(mail) : mail[i].gen # gen
    /\ gen # 0 /\ earlier = {} /\ ~lb.fatal => Resumable \/ Unchecked(lb)

\* sync_loop asks for a proof of the last block only after the check of the init
\* block, and skips this check only when there is nothing to check.
LEMMA SyncChecksFirst ==
    ASSUME NEW a \in Actor, CheckFirst(a), NEW b \in Actor, b.init = a.init,
           b.chk = Start(a).chk, b.get = Start(a).get
    PROVE  /\ CheckFirst(b)
           /\ Unchecked(a) => Unchecked(b)
<1>1. /\ Start(a).chk = IF SkipCheck(a) THEN "Done"
                        ELSE IF a.held # {} /\ a.chk = "Empty" THEN "Active" ELSE a.chk
      /\ Start(a).get = "Active" => a.get = "Active" \/ Start(a).chk = "Done"
      /\ a.chk = "Done" => Start(a).chk = "Done"
  BY StartFacts DEF SkipCheck
<1>2. SkipCheck(a) => conf.init \in {None, a.init}
  BY DEF SkipCheck
<1>3. ~SkipCheck(a) /\ a.held # {} /\ a.chk = "Empty" => conf.init \notin {None, a.init}
  BY DEF SkipCheck
<1> QED
  BY <1>1, <1>2, <1>3 DEF CheckFirst, Unchecked

\* A state that is saved is one more in the mail.
LEMMA SavedIsMore ==
    ASSUME TypeInv, gen # 0, NEW b \in Actor, b.chk = "Done"
    PROVE  mail \o SaveState(b) # mail
<1> DEFINE M == [gen : 1..MaxConfigs, st : State]
           rec == [gen |-> gen, st |-> StateOf(b)]
<1>1. SaveState(b) = <<rec>>
  BY DEF SaveState
<1>2. SaveState(b) \in Seq(M) /\ mail \in Seq(M)
  BY SavedType DEF TypeInv, TypeOK
<1> HIDE DEF M, rec
<1>3. Len(mail \o SaveState(b)) = Len(mail) + Len(SaveState(b)) /\ Len(mail) \in Nat
  BY <1>2, ConcatProperties, LenProperties
<1>4. Len(SaveState(b)) = 1
  BY <1>1
<1>5. Len(mail \o SaveState(b)) # Len(mail)
  BY <1>3, <1>4
<1> QED
  BY <1>5

\* An answer that moves the actor's key block or init block sends a save, unless
\* the init block is still being checked.
LEMMA MovesAreSaved ==
    ASSUME TypeInv, Waiting, CheckFirst(lb), NEW q \in wire, AnswerOf(q), mail' = mail,
           NEW a \in Actor, Effect(q, a), ~a.fatal
    PROVE  (a.key = lb.key /\ a.init = lb.init) \/ Unchecked(a)
<1>0. /\ q \in Query /\ lb \in Actor /\ conf \in Config /\ gen # 0
      /\ mail = mail \o <<>> /\ ~lb.fatal
  <2>1. mail = mail \o <<>>
    BY ConcatProperties DEF TypeInv, TypeOK
  <2> QED
    BY <2>1 DEF TypeInv, TypeOK, Down, Effect
<1>1. SUFFICES ASSUME Proof(q)
               PROVE  (a.key = lb.key /\ a.init = lb.init) \/ Unchecked(a)
  BY DEF Effect
<1> DEFINE b == UpdateState(lb, q)
           d == [b EXCEPT !.chk = "Done"]
           c == UpdateInitBlock(d)
<1>2. /\ b \in Actor /\ b.key = KeyAfter(lb, q) /\ b.init = lb.init /\ b.fatal = lb.fatal
      /\ b.chk = lb.chk
  BY <1>0, UpdateStateFacts
<1>3. CASE OnBlockProof(q)
  <2>1. q.kind = "get" /\ q.phase = "answered" /\ lb.get = "Active"
    <3>1. q.kind = "get" /\ q.phase = "answered"
      BY <1>1, <1>3 DEF OnBlockProof, Proof
    <3>2. lb["get"] = "Active"
      BY <3>1 DEF Waiting, OneQueryEach
    <3> QED
      BY <3>1, <3>2
  <2>2. b.chk = "Done" /\ mail' = mail \o Saved(q, b)
    BY <1>2, <1>3, <2>1 DEF CheckFirst, OnBlockProof
  <2> HIDE DEF b
  <2>3. ~IsChanged(lb, q)
    BY <1>0, <1>2, <2>2, SavedIsMore DEF Saved
  <2>4. a.key = lb.key /\ a.init = lb.init
    BY <1>1, <2>1, <2>3 DEF Effect, IsChanged
  <2> QED
    BY <2>4
<1>4. CASE OnInitBlockProof(q)
  <2>1. q.kind = "chk" /\ q.phase = "answered" /\ lb.chk = "Active"
    <3>1. q.kind = "chk" /\ q.phase = "answered"
      BY <1>1, <1>4 DEF OnInitBlockProof, Proof
    <3>2. lb["chk"] = "Active"
      BY <3>1 DEF Waiting, OneQueryEach
    <3> QED
      BY <3>1, <3>2
  <2>2. conf.init \notin {None, lb.init}
    BY <2>1 DEF CheckFirst
  <2>3. CASE ~q.complete
    BY <2>1, <2>2, <2>3 DEF Effect, Unchecked
  <2>4. CASE q.complete
    <3> DEFINE x == IF c.init # b.init THEN SaveState(c) ELSE <<>>
    <3>1. mail' = mail \o Saved(q, b) \o x
      BY <1>4, <2>1, <2>4 DEF OnInitBlockProof
    <3>2. Saved(q, b) = <<>>
      BY <1>2, <2>1 DEF Saved, SaveState
    <3>3. mail' = mail \o x
      BY <1>0, <3>1, <3>2
    <3> HIDE DEF b
    <3>4. d \in Actor /\ d.chk = "Done" /\ d.init = b.init /\ d.fatal = b.fatal
      BY <1>2 DEF Actor, QueryState
    <3> HIDE DEF d
    <3>5. c \in Actor /\ c.chk = "Done" /\ c.init = conf.init
      BY <1>0, <1>2, <2>2, <3>4, UpdateInitFacts
    <3> HIDE DEF c
    <3>6. x = SaveState(c)
      BY <1>2, <2>2, <3>5
    <3> QED
      BY <1>0, <3>3, <3>5, <3>6, SavedIsMore
  <2> QED
    BY <2>3, <2>4
<1>5. CASE OnMasterchainInfo(q)
  BY <1>1, <1>5 DEF OnMasterchainInfo, Proof
<1> QED
  BY <1>3, <1>4, <1>5 DEF AnswerOf

LEMMA AnswerSaves ==
    ASSUME TypeInv, Waiting, SaveInv, NEW q \in wire, AnswerOf(q)
    PROVE  SaveInv'
<1> DEFINE M == [gen : 1..MaxConfigs, st : State]
<1>0. /\ lb \in Actor /\ mail \in Seq(M) /\ gen # 0 /\ q \in Query
      /\ UNCHANGED <<store, earlier, gen, conf>>
  BY DEF TypeInv, TypeOK, Down, AnswerOf, OnMasterchainInfo, OnInitBlockProof, OnBlockProof
<1>1. PICK a \in Actor : Effect(q, a) /\ Outcome(q, a)
  BY AnswerEffect
<1>2. PICK x \in Seq({Note}) : /\ mail' = mail \o x
                               /\ x = <<>> \/ (lb'.chk = "Done" /\ ~lb'.fatal)
  BY MailGrows
<1>3. CheckFirst(a)
  <2>1. /\ lb["chk"] = "Active" <=> \E p \in wire : p.kind = "chk"
        /\ \A p, s \in wire : p.kind = s.kind => p = s
    BY DEF Waiting, OneQueryEach
  <2>2. q.kind = "chk" => lb.chk = "Active"
    BY <2>1
  <2>3. q.kind = "chk" => lb.get # "Active"
    BY <2>2 DEF SaveInv, CheckFirst
  <2>4. a.chk = "Active" => lb.chk = "Active" /\ a.init = lb.init
    BY <1>1, <2>2 DEF Effect
  <2>5. a.get = "Active" => lb.get = "Active" /\ q.kind # "chk"
    BY <1>1, <2>3 DEF Effect
  <2>6. q.kind # "chk" => a.chk = lb.chk
    BY <1>1 DEF Effect
  <2> QED
    BY <2>4, <2>5, <2>6 DEF SaveInv, CheckFirst
<1>4. /\ lb' \in Actor /\ lb'.key = a.key /\ lb'.init = a.init /\ lb'.fatal = a.fatal
      /\ lb'.chk = Start(a).chk /\ lb'.get = Start(a).get
  BY <1>1 DEF Outcome
<1>5. CheckFirst(lb') /\ (Unchecked(a) => Unchecked(lb'))
  <2>1. PICK b \in Actor : b = lb'
    BY <1>4
  <2> QED
    BY <1>3, <1>4, <2>1, SyncChecksFirst
<1>6. CheckFirst(lb)' /\ (Unchecked(lb') => Unchecked(lb)')
  BY <1>0, <1>5 DEF CheckFirst, Unchecked
<1>7. CASE x = <<>>
  <2> HIDE DEF M
  <2>1. mail' = mail
    BY <1>0, <1>2, <1>7, ConcatEmptySeq
  <2>2. ~a.fatal => (a.key = lb.key /\ a.init = lb.init) \/ Unchecked(a)
    BY <1>1, <2>1, MovesAreSaved DEF SaveInv
  <2>3. NewestSave' = NewestSave
    BY <1>0, <2>1 DEF NewestSave
  <2>4. lb.fatal => a.fatal
    BY <1>1 DEF Effect
  <2>5. Unchecked(lb) /\ a.init = lb.init /\ ~lb.fatal => Unchecked(a)
    <3>1. Unchecked(lb) /\ q.kind # "chk" => a.chk # "Done"
      BY <1>1 DEF Effect, Unchecked
    <3>2. Unchecked(lb) /\ q.kind = "chk" /\ a.chk = "Done" /\ ~lb.fatal => a.init # lb.init
      <4>1. lb["chk"] = "Active" <=> \E p \in wire : p.kind = "chk"
        BY DEF Waiting, OneQueryEach
      <4>2. q.kind = "chk" => lb.chk = "Active"
        BY <4>1
      <4>3. q.kind = "chk" => q.phase \in {"answered", "failed"}
        BY <1>0 DEF AnswerOf, OnMasterchainInfo, OnInitBlockProof, OnBlockProof, Query
      <4> QED
        BY <1>1, <4>2, <4>3 DEF Effect, Unchecked, Proof
    <3> QED
      BY <3>1, <3>2 DEF Unchecked
  <2>6. ~lb'.fatal /\ earlier' = {} => Resumable' \/ Unchecked(lb)'
    BY <1>0, <1>4, <1>5, <1>6, <2>2, <2>3, <2>4, <2>5 DEF SaveInv, Resumable
  <2> QED
    BY <1>0, <1>6, <2>1, <2>6 DEF SaveInv
<1>8. CASE x # <<>>
  <2>1. Len(x) \in Nat /\ Len(x) >= 1 /\ x[Len(x)] = Note
    BY <1>8, EmptySeq, LenProperties, ElementOfSeq
  <2>2. Note \in M
    <3>1. StateOf(lb') \in State
      BY <1>4 DEF StateOf, State, Actor, Config, TypeInv, TypeOK
    <3>2. gen \in 1..MaxConfigs
      BY <1>0, BlockAssumption DEF TypeInv, TypeOK
    <3> QED
      BY <3>1, <3>2 DEF Note
  <2> HIDE DEF M
  <2>3. x \in Seq(M)
    BY <2>1, <2>2, ElementOfSeq
  <2>4. Len(mail') = Len(mail) + Len(x) /\ Len(mail) \in Nat /\ mail'[Len(mail')] = Note
    BY <1>0, <1>2, <2>1, <2>3, ConcatProperties, LenProperties
  <2>5. mail' # <<>>
    BY <2>1, <2>4
  <2>6. NewestSave' = StateOf(lb') /\ mail'[Len(mail')].gen = gen'
    BY <1>0, <2>4, <2>5 DEF NewestSave, Note
  <2>7. Resumable'
    BY <2>6 DEF Resumable, StateOf
  <2> QED
    BY <1>6, <2>6, <2>7 DEF SaveInv
<1> QED
  BY <1>7, <1>8

LEMMA SaveStep ==
    ASSUME TypeInv, Waiting, Nets, SaveInv, [Next]_vars
    PROVE  SaveInv'
<1> DEFINE M == [gen : 1..MaxConfigs, st : State]
<1>0. /\ lb \in Actor /\ mail \in Seq(M) /\ conf \in Config /\ conf.net \in Networks
      /\ store \in [Networks -> State \cup {None}] /\ gen \in Nat
  BY DEF TypeInv, TypeOK, Config
<1>1. UNCHANGED <<store, earlier, gen, conf, lb, mail>> => SaveInv'
  BY DEF SaveInv, CheckFirst, Resumable, Unchecked, NewestSave
<1>2. ASSUME NEW r \in Requests, GetLastBlock(r) PROVE SaveInv'
  <2>1. CASE lb.fatal
    BY <1>1, <1>2, <2>1 DEF GetLastBlock
  <2>2. CASE ~lb.fatal
    <3> DEFINE a == Reset(r)
    <3>1. /\ a \in Actor /\ a.key = lb.key /\ a.init = lb.init /\ a.fatal = lb.fatal
          /\ a.chk = lb.chk /\ (a.get = "Active" => lb.get = "Active")
      BY ResetFacts
    <3>2. lb' = SyncLoop(a) /\ UNCHANGED <<store, earlier, gen, conf, mail>>
      BY <1>2, <2>2 DEF GetLastBlock, Take
    <3> HIDE DEF a
    <3>3. /\ lb' \in Actor /\ lb'.key = a.key /\ lb'.init = a.init /\ lb'.fatal = a.fatal
          /\ lb'.chk = Start(a).chk /\ lb'.get = Start(a).get
      BY <3>1, <3>2, SyncLoopFacts
    <3>4. CheckFirst(a) /\ (Unchecked(lb) => Unchecked(a))
      BY <3>1 DEF SaveInv, CheckFirst, Unchecked
    <3>5. CheckFirst(lb') /\ (Unchecked(a) => Unchecked(lb'))
      <4>1. PICK b \in Actor : b = lb'
        BY <3>3
      <4> QED
        BY <3>1, <3>3, <3>4, <4>1, SyncChecksFirst
    <3>6. CheckFirst(lb)' /\ (Unchecked(lb') => Unchecked(lb)')
      BY <3>2, <3>5 DEF CheckFirst, Unchecked
    <3>7. NewestSave' = NewestSave
      BY <3>2 DEF NewestSave
    <3> QED
      BY <3>1, <3>2, <3>3, <3>4, <3>5, <3>6, <3>7 DEF SaveInv, Resumable
  <2> QED
    BY <2>1, <2>2
<1>3. CASE UpdateLastBlockState
  <2> DEFINE m == Head(mail)
  <2>0. /\ UNCHANGED <<earlier, gen, conf, lb>> /\ mail' = Tail(mail) /\ mail # <<>> /\ gen # 0
        /\ store' = IF m.gen = gen THEN [store EXCEPT ![conf.net] = m.st] ELSE store
    BY <1>3 DEF UpdateLastBlockState, TypeInv, Down
  <2> HIDE DEF M
  <2>1. /\ m = mail[1] /\ 1 \in 1..Len(mail)
        /\ \A i \in 1..Len(mail') : mail'[i] = mail[i + 1] /\ i + 1 \in 1..Len(mail)
    BY <1>0, <2>0, Dropped
  <2>2. Len(mail') = Len(mail) - 1 /\ Len(mail) \in Nat /\ Len(mail) >= 1 /\ Len(mail') \in Nat
    BY <1>0, <2>0, <2>1, HeadTailProperties, LenProperties
  <2>3. mail' # <<>> => mail'[Len(mail')] = mail[Len(mail)] /\ Len(mail') \in 1..Len(mail')
    <3>1. mail' \in Seq(M)
      BY <1>0, <2>0, HeadTailProperties
    <3>2. mail' # <<>> => Len(mail') >= 1
      BY <2>2, <3>1, EmptySeq
    <3> QED
      BY <2>1, <2>2, <3>2
  <2>4. NewestSave' = NewestSave
    <3>1. CASE mail[Len(mail)].gen # gen
      <4>1. m.gen # gen
        BY <2>0, <2>1, <3>1 DEF SaveInv
      <4> QED
        BY <2>0, <2>3, <3>1, <4>1 DEF NewestSave
    <3>2. CASE mail[Len(mail)].gen = gen /\ mail' # <<>>
      BY <2>0, <2>3, <3>2 DEF NewestSave
    <3>3. CASE mail[Len(mail)].gen = gen /\ mail' = <<>>
      <4>1. Len(mail) = 1
        BY <2>2, <3>3
      <4>2. m = mail[Len(mail)] /\ store'[conf.net] = m.st
        BY <1>0, <2>0, <2>1, <3>3, <4>1
      <4> QED
        BY <2>0, <3>3, <4>2 DEF NewestSave
    <3> QED
      BY <3>1, <3>2, <3>3
  <2>5. mail' # <<>> /\ mail'[Len(mail')].gen # gen => \A i \in 1..Len(mail') : mail'[i].gen # gen
    BY <2>0, <2>1, <2>3 DEF SaveInv
  <2> QED
    BY <2>0, <2>4, <2>5 DEF SaveInv, CheckFirst, Resumable, Unchecked
<1>4. ASSUME NEW c \in Config, SetConfig(c) PROVE SaveInv'
  <2>0. /\ c.net \in Networks /\ gen' = gen + 1 /\ conf' = c /\ mail' = mail
        /\ store' = [store EXCEPT ![c.net] = Loaded(c)]
        /\ lb' = NewActor(Loaded(c), c)
    BY <1>4 DEF SetConfig, Config
  <2>1. /\ lb'.key = Loaded(c).key /\ lb'.init = Loaded(c).init
        /\ lb'.chk = "Empty" /\ lb'.get = "Empty"
    BY <1>0, <2>0, FreshActor
  <2>2. \A i \in 1..Len(mail) : mail[i].gen # gen'
    <3>1. \A i \in 1..Len(mail) : mail[i].gen \in Int
      BY MailTypes
    <3> QED
      BY <1>0, <2>0, <3>1 DEF Nets, Notes
  <2>3. NewestSave' = store'[c.net]
    <3>1. mail # <<>> => Len(mail) \in 1..Len(mail)
      <4> HIDE DEF M
      <4> QED
        BY <1>0, EmptySeq, LenProperties
    <3> QED
      BY <2>0, <2>2, <3>1 DEF NewestSave
  <2>4. store'[c.net] = Loaded(c)
    BY <1>0, <2>0
  <2>5. Resumable'
    BY <2>0, <2>1, <2>3, <2>4 DEF Resumable
  <2> QED
    BY <2>0, <2>1, <2>2, <2>5 DEF SaveInv, CheckFirst
<1>5. CASE Replaced
  <2>1. /\ gen' = 0 /\ mail' = <<>> /\ lb' = NewActor(Loaded(conf), conf)
    BY <1>5 DEF Replaced
  <2>2. lb'.chk = "Empty" /\ lb'.get = "Empty"
    BY <1>0, <2>1, FreshActor
  <2> QED
    BY <2>1, <2>2 DEF SaveInv, CheckFirst
<1>6. ASSUME NEW q \in wire, Serve(q) \/ Lose(q) PROVE SaveInv'
  BY <1>1, <1>6, ReplyOfServer
<1>7. ASSUME NEW r \in Requests, Request(r) PROVE SaveInv'
  BY <1>1, <1>7 DEF Request
<1>8. CASE Grow \/ UNCHANGED vars
  BY <1>1, <1>8 DEF Grow, vars
<1>9. ASSUME NEW o \in earlier, LateWrite(o) PROVE SaveInv'
  <2>1. UNCHANGED <<gen, conf, lb, mail>> /\ earlier' # {}
    BY <1>9, LateFacts DEF TypeInv
  <2> QED
    BY <2>1 DEF SaveInv, CheckFirst
<1> QED
  BY <1>2, <1>3, <1>4, <1>5, <1>6, <1>7, <1>8, <1>9, AnswerSaves, ConfigAssumption
  DEF Next, Configure, Die, Recreate, AnswerOf

\* Once the init block is checked, nothing the actor has proven is missing from
\* the newest save: a death after the pending saves costs no key block.
THEOREM NothingUnsavedHolds == Spec => []NothingUnsaved
<1>1. Init => SaveInv
  <2> SUFFICES ASSUME Init PROVE SaveInv
    OBVIOUS
  <2>1. conf \in Config /\ store \in [Networks -> State \cup {None}]
    BY InitConf DEF Init
  <2>2. lb.chk = "Empty" /\ lb.get = "Empty"
    BY <2>1, FreshActor DEF Init
  <2> QED
    BY <2>2 DEF Init, SaveInv, CheckFirst
<1>2. TypeInv /\ Waiting /\ Nets /\ SaveInv /\ [Next]_vars => SaveInv'
  BY SaveStep
<1>3. SaveInv => NothingUnsaved
  BY DEF SaveInv, NothingUnsaved, Resumable, Unchecked
<1> QED
  BY <1>1, <1>2, <1>3, NetsInvariant, PTL DEF Spec

-----------------------------------------------------------------------------
(* The light client implements the abstract head of the chain.             *)

\* The actor knows blocks of the chain only, what is proven to it is one, and
\* so is what is kept.
InChain ==
    /\ StartTip <= tip
    /\ lb.key <= lb.last /\ lb.last <= tip
    /\ \A n \in Networks : store[n] # None => store[n].key <= tip
    /\ \A o \in earlier : o.st.key <= tip
    /\ \A q \in wire : Proof(q) => q.key <= q.end /\ q.end <= tip

\* The key block a new actor starts with.
LEMMA LoadedInChain ==
    ASSUME TypeInv, InChain, NEW c \in Config
    PROVE  Loaded(c) \in State /\ Loaded(c).key \in Heights /\ Loaded(c).key <= tip
<1>1. /\ store \in [Networks -> State \cup {None}] /\ tip \in Int /\ MasterInit <= StartTip
      /\ MasterInit \in Int /\ StartTip \in Int /\ c.net \in Networks
  BY BlockAssumption DEF TypeInv, TypeOK, Heights, Config
<1>2. /\ Loaded(c) \in State /\ Loaded(c).key \in Heights
      /\ ~Kept(c) => Loaded(c).key = MasterInit
      /\ Kept(c) => /\ store[c.net] # None /\ store[c.net] \in State
                    /\ Loaded(c).key \in {MasterInit, store[c.net].key}
  BY <1>1, LoadedFacts
<1> QED
  BY <1>1, <1>2, HeightsAreNat DEF InChain

LEMMA InChainStep ==
    ASSUME TypeInv, Waiting, Nets, InChain, [Next]_vars
    PROVE  InChain'
<1>0. /\ lb \in Actor /\ conf \in Config /\ wire \subseteq Query /\ tip \in Int /\ StartTip \in Int
      /\ lb.last \in Int /\ lb.key \in Int
      /\ store \in [Networks -> State \cup {None}]
      /\ \A n \in Networks : store[n] # None => store[n].key \in Int
      /\ \A o \in earlier : o.st.key \in Int
      /\ \A q \in wire : q.end \in Int /\ q.key \in Int
  <2>1. /\ lb \in Actor /\ conf \in Config /\ wire \subseteq Query /\ tip \in Heights
        /\ store \in [Networks -> State \cup {None}] /\ StartTip \in Heights
    BY BlockAssumption DEF TypeInv, TypeOK
  <2>2. /\ \A n \in Networks : store[n] # None => store[n].key \in Heights
        /\ \A o \in earlier : o.st.key \in Heights
    BY <2>1 DEF State, TypeInv, TypeOK
  <2> QED
    BY <2>1, <2>2, HeightsAreNat DEF Actor, Query
<1>1. UNCHANGED <<tip, store, earlier, lb, wire>> => InChain'
  BY DEF InChain, Proof
<1>2. ASSUME NEW r \in Requests, GetLastBlock(r) PROVE InChain'
  <2>1. CASE lb.fatal
    BY <1>1, <1>2, <2>1 DEF GetLastBlock
  <2>2. CASE ~lb.fatal
    <3> DEFINE a == Reset(r)
    <3>1. a \in Actor /\ a.last = lb.last /\ a.key = lb.key
      BY ResetFacts
    <3>2. lb' = SyncLoop(a) /\ wire' = wire \cup Started(a) /\ UNCHANGED <<tip, store, earlier>>
      BY <1>2, <2>2 DEF GetLastBlock, Take
    <3> HIDE DEF a
    <3>3. lb'.last = lb.last /\ lb'.key = lb.key
      BY <3>1, <3>2, SyncLoopFacts
    <3>4. \A q \in Started(a) : ~Proof(q)
      BY <1>0, <3>1, AskedLast DEF Proof
    <3> QED
      BY <3>2, <3>3, <3>4 DEF InChain, Proof
  <2> QED
    BY <2>1, <2>2
<1>3. CASE Grow
  BY <1>0, <1>3 DEF Grow, InChain, Proof
<1>4. ASSUME NEW q \in wire, Serve(q) \/ Lose(q) PROVE InChain'
  <2>1. UNCHANGED <<tip, store, earlier, lb>>
    BY <1>4, ReplyOfServer
  <2>2. PICK p \in Query : Reply(q, p)
    BY <1>4, ReplyOfServer
  <2>3. Proof(p) => p.key <= p.end /\ p.end <= tip
    BY <2>2 DEF Reply
  <2>4. wire' = (wire \ {q}) \cup {p}
    BY <2>2 DEF Reply
  <2> QED
    BY <2>1, <2>3, <2>4 DEF InChain, Proof
<1>5. ASSUME NEW q \in wire, AnswerOf(q) PROVE InChain'
  <2>1. PICK a \in Actor : Effect(q, a) /\ Outcome(q, a)
    BY <1>5, AnswerEffect
  <2>2. UNCHANGED <<tip, store, earlier>> /\ q.kind \in {"mc", "chk", "get"}
    BY <1>5 DEF AnswerOf, OnMasterchainInfo, OnInitBlockProof, OnBlockProof
  <2>3. \A p \in wire' : p \in wire \/ ~Proof(p)
    <3>1. \A p \in More(q) : ~Proof(p)
      BY <2>2, MoreFacts DEF Proof
    <3>2. \A p \in Started(a) : ~Proof(p)
      BY <1>0, AskedLast DEF Proof
    <3> QED
      BY <2>1, <3>1, <3>2 DEF Outcome
  <2>4. lb'.key <= lb'.last /\ lb'.last <= tip
    <3>1. lb'.key = a.key /\ lb'.last = a.last
      BY <2>1 DEF Outcome
    <3>2. CASE ~Proof(q)
      BY <2>1, <3>1, <3>2 DEF Effect, InChain
    <3>3. CASE Proof(q)
      <4>1. a.key = KeyAfter(lb, q) /\ a.last = LastAfter(lb, q)
        BY <2>1, <3>3 DEF Effect
      <4>2. q.key <= q.end /\ q.end <= tip
        BY <3>3 DEF InChain
      <4> QED
        BY <1>0, <3>1, <4>1, <4>2 DEF KeyAfter, LastAfter, InChain
    <3> QED
      BY <3>2, <3>3
  <2> QED
    BY <2>2, <2>3, <2>4 DEF InChain, Proof
<1>6. CASE UpdateLastBlockState
  <2>1. UNCHANGED <<tip, earlier, lb, wire, conf>> /\ mail # <<>>
        /\ store' = IF Head(mail).gen = gen
                    THEN [store EXCEPT ![conf.net] = Head(mail).st] ELSE store
    BY <1>6 DEF UpdateLastBlockState
  <2>2. Head(mail).gen = gen => Head(mail).st.key <= lb.key /\ Head(mail).st.key \in Int
    <3>1. mail \in Seq([gen : 1..MaxConfigs, st : State])
      BY DEF TypeInv, TypeOK
    <3>2. Head(mail) = mail[1] /\ 1 \in 1..Len(mail)
      BY <2>1, <3>1, Dropped
    <3> QED
      BY <3>2, MailTypes DEF Nets, Notes
  <2>3. \A n \in Networks : store'[n] # None => store'[n].key <= tip
    <3> SUFFICES ASSUME NEW n \in Networks, store'[n] # None PROVE store'[n].key <= tip
      OBVIOUS
    <3>1. CASE store'[n] = store[n]
      BY <3>1 DEF InChain
    <3>2. CASE Head(mail).gen = gen /\ store'[n] = Head(mail).st
      BY <1>0, <2>2, <3>2 DEF InChain
    <3> QED
      BY <1>0, <2>1, <3>1, <3>2
  <2> QED
    BY <2>1, <2>3 DEF InChain, Proof
<1>7. ASSUME NEW c \in Config, SetConfig(c) PROVE InChain'
  <2>1. /\ UNCHANGED <<tip, earlier>> /\ wire' = {} /\ lb' = NewActor(Loaded(c), c)
        /\ store' = [store EXCEPT ![c.net] = Loaded(c)] /\ c.net \in Networks
    BY <1>7 DEF SetConfig, Config
  <2>2. Loaded(c).key \in Int /\ Loaded(c).key <= tip
    BY <2>1, LoadedInChain, HeightsAreNat
  <2>3. lb'.key = Loaded(c).key /\ lb'.last = lb'.key
    BY <1>0, <2>1, FreshActor
  <2>4. \A n \in Networks : store'[n] # None => store'[n].key <= tip
    BY <1>0, <2>1, <2>2 DEF InChain
  <2> QED
    BY <2>1, <2>2, <2>3, <2>4 DEF InChain
<1>8. ASSUME Replaced, \A o \in earlier' : o.st.key <= tip PROVE InChain'
  <2>1. /\ UNCHANGED <<tip, store>> /\ wire' = {} /\ lb' = NewActor(Loaded(conf), conf)
        /\ conf.net \in Networks /\ conf \in Config
    BY <1>0, <1>8 DEF Replaced, Config, TypeInv, TypeOK
  <2>2. Loaded(conf).key \in Int /\ Loaded(conf).key <= tip
    BY <2>1, LoadedInChain, HeightsAreNat
  <2>3. lb'.key = Loaded(conf).key /\ lb'.last = lb'.key
    BY <1>0, <2>1, FreshActor
  <2> QED
    BY <1>8, <2>1, <2>2, <2>3 DEF InChain
<1>11. CASE Die
  BY <1>8, <1>11 DEF Die
<1>12. CASE Recreate
  <2>1. PICK s \in State :
          /\ \A p \in earlier' : p \in earlier \/ (p.conf = conf /\ p.st = s)
          /\ \/ s.zero = lb.zero /\ s.key = lb.key /\ s.init = lb.init
             \/ \E i \in 1..Len(mail) : mail[i].gen = gen /\ mail[i].st = s
    BY <1>12, LeftFacts DEF TypeInv
  <2>2. s.key <= lb.key /\ s.key \in Int
    <3>1. \A i \in 1..Len(mail) : mail[i].st.key \in Int
      BY MailTypes
    <3> QED
      BY <1>0, <2>1, <3>1 DEF Nets, Notes
  <2>3. \A o \in earlier' : o.st.key <= tip
    BY <1>0, <2>1, <2>2 DEF InChain
  <2> QED
    BY <1>8, <1>12, <2>3 DEF Recreate
<1>13. ASSUME NEW o \in earlier, LateWrite(o) PROVE InChain'
  <2>1. UNCHANGED <<tip, lb, wire>>
    BY <1>13, LateFacts DEF TypeInv
  <2>2. PICK s \in State :
          /\ \A n \in Networks : store'[n] = store[n] \/ (n = o.conf.net /\ store'[n] = s)
          /\ \A p \in earlier' : p \in earlier \/ (p.conf = o.conf /\ p.st = s)
          /\ s.key <= tip
    BY <1>13, LateFacts DEF TypeInv
  <2> QED
    BY <2>1, <2>2 DEF InChain, Proof
<1>9. ASSUME NEW r \in Requests, Request(r) PROVE InChain'
  BY <1>1, <1>9 DEF Request
<1>10. CASE UNCHANGED vars
  BY <1>1, <1>10 DEF vars
<1> QED
  BY <1>2, <1>3, <1>4, <1>5, <1>6, <1>7, <1>9, <1>10, <1>11, <1>12,
     <1>13, ConfigAssumption DEF Next, Configure, AnswerOf

LEMMA InChainInit == Init => InChain
<1> SUFFICES ASSUME Init PROVE InChain
  OBVIOUS
<1>1. /\ conf \in Config /\ conf.net \in Networks /\ store \in [Networks -> State \cup {None}]
      /\ \A n \in Networks : store[n] = None
  BY InitConf DEF Init
<1>2. Loaded(conf).key = MasterInit
  BY <1>1, LoadedFacts DEF Kept
<1>3. lb.key = MasterInit /\ lb.last = MasterInit
  <2>1. lb = NewActor(Loaded(conf), conf)
    BY DEF Init
  <2>2. lb.key = Loaded(conf).key /\ lb.last = lb.key
    BY <1>1, <2>1, FreshActor
  <2> QED
    BY <1>2, <2>2
<1>4. tip = StartTip /\ wire = {} /\ earlier = {}
  BY DEF Init
<1>5. StartTip \in Int /\ MasterInit \in Int /\ MasterInit <= StartTip
  BY BlockAssumption DEF Heights
<1> QED
  BY <1>1, <1>3, <1>4, <1>5 DEF InChain

\* The refinement mapping.
Waiters == {r \in Requests : status[r] \in {"sent", "held"}}
KeptKeys == [n \in Networks |-> IF store[n] = None THEN 0 ELSE store[n].key]

HeadInv == TypeInv /\ Waiting /\ Nets /\ Pending /\ Fresh /\ InChain

LEMMA HeadInit == ASSUME Init PROVE Chain!Init
<1>1. /\ conf.net \in Networks /\ tip \in Heights /\ lb.last \in Heights
      /\ KeptKeys = [n \in Networks |-> 0] /\ Waiters = {}
  <2>1. conf \in Config /\ conf.net \in Networks /\ store \in [Networks -> State \cup {None}]
    BY InitConf DEF Init
  <2>2. lb \in Actor
    BY <2>1, FreshActor DEF Init
  <2> QED
    BY <2>1, <2>2, BlockAssumption DEF Init, Actor, KeptKeys, Waiters
<1>2. lb.last <= tip
  BY InChainInit DEF InChain
<1>3. tip \in Nat /\ lb.last \in 0..tip
  BY <1>1, <1>2, HeightsAreNat
<1> QED
  BY <1>1, <1>3 DEF Chain!Init, Init, Waiters, KeptKeys

\* An answer of the servers moves the head and answers the callers held, or
\* refuses them.
LEMMA AnswerMoves ==
    ASSUME HeadInv, NEW q \in wire, AnswerOf(q), HeadInv'
    PROVE  Chain!Next
<1>0. /\ UNCHANGED <<tip, store, earlier, conf>> /\ lb \in Actor /\ tip \in Int
      /\ got \in [Requests -> Heights] /\ asof \in [Requests -> Heights]
      /\ status \in [Requests -> {"free", "sent", "held", "ok"}]
      /\ q.kind \in {"mc", "chk", "get"} /\ q \in Query
      /\ lb.last \in Int /\ lb'.last \in Int
  <2>1. /\ UNCHANGED <<tip, store, earlier, conf>> /\ lb \in Actor /\ lb' \in Actor /\ tip \in Heights
        /\ q \in Query
        /\ got \in [Requests -> Heights] /\ asof \in [Requests -> Heights]
        /\ status \in [Requests -> {"free", "sent", "held", "ok"}]
    BY DEF HeadInv, TypeInv, TypeOK, AnswerOf, OnMasterchainInfo, OnInitBlockProof, OnBlockProof
  <2> QED
    BY <2>1, HeightsAreNat DEF Actor, Query
<1>1. PICK a \in Actor : Effect(q, a) /\ Outcome(q, a)
  BY AnswerEffect DEF HeadInv
<1>2. /\ lb'.last = a.last /\ Answered(a) \subseteq a.held /\ a.held = lb.held \ Lost(q)
      /\ status' = [r \in Requests |-> IF r \in Answered(a) THEN "ok"
                                       ELSE IF r \in Lost(q) THEN "free" ELSE status[r]]
      /\ got' = [r \in Requests |-> IF r \in Answered(a) THEN a.last ELSE got[r]]
      /\ asof' = [r \in Requests |-> IF r \in Lost(q) THEN 0 ELSE asof[r]]
  BY <1>1, SyncLoopFacts DEF Outcome, Effect
<1>3. lb.held \subseteq Waiters
  BY <1>0 DEF HeadInv, Waiting, HeldAgree, Waiters, Actor
<1>4. KeptKeys' = KeptKeys /\ conf'.net = conf.net
  BY <1>0 DEF KeptKeys
<1>5. CASE Failed(q)
  <2>1. Lost(q) = lb.held /\ a.held = {} /\ Answered(a) = {} /\ a.last = lb.last
    <3>1. ~Proof(q)
      BY <1>5 DEF Failed, Proof
    <3> QED
      BY <1>1, <1>2, <1>5, <3>1 DEF Lost, Effect
  <2>2. /\ Waiters' = Waiters \ lb.held /\ got' = got
        /\ asof' = [r \in Requests |-> IF r \in lb.held THEN 0 ELSE asof[r]]
    BY <1>0, <1>2, <1>3, <2>1 DEF Waiters
  <2>3. PICK R \in SUBSET Waiters : R = lb.held
    BY <1>3
  <2>4. Chain!Reject(R)
    BY <1>0, <1>2, <1>4, <2>1, <2>2, <2>3 DEF Chain!Reject, Waiters, KeptKeys
  <2> QED
    BY <2>4 DEF Chain!Next, Waiters
<1>6. CASE ~Failed(q)
  <2> DEFINE R == Answered(a)
  <2>1. Lost(q) = {} /\ R \subseteq lb.held
    BY <1>2, <1>6 DEF Lost
  <2>2. /\ Waiters' = Waiters \ R /\ asof' = asof
        /\ got' = [r \in Requests |-> IF r \in R THEN a.last ELSE got[r]]
    BY <1>0, <1>2, <1>3, <2>1 DEF Waiters
  <2>3. \A r \in R : asof[r] <= a.last
    <3>1. ASSUME NEW r \in R PROVE asof[r] <= a.last
      <4>1. r \in Requests
        BY <1>3, <2>1, <3>1 DEF Waiters
      <4>2. status'[r] = "ok" /\ got'[r] = a.last /\ asof'[r] = asof[r]
        BY <1>2, <2>2, <3>1, <4>1
      <4>3. asof'[r] <= got'[r]
        BY <4>1, <4>2 DEF HeadInv, Fresh
      <4> QED
        BY <4>2, <4>3
    <3> QED
      BY <3>1
  <2>4. a.last \in lb.last..tip
    <3>1. lb'.last <= tip
      BY <1>0 DEF HeadInv, InChain
    <3>2. lb.last <= a.last
      <4>1. q.end \in Int
        BY <1>0, HeightsAreNat DEF Query
      <4> QED
        BY <1>0, <1>1, <4>1 DEF Effect, LastAfter
    <3> QED
      BY <1>0, <1>2, <3>1, <3>2
  <2> HIDE DEF R
  <2>5. Chain!Answer(R, a.last)
    BY <1>0, <1>2, <1>3, <1>4, <2>1, <2>2, <2>3 DEF Chain!Answer, Waiters, KeptKeys
  <2> QED
    BY <1>3, <2>1, <2>4, <2>5 DEF Chain!Next, Waiters
<1> QED
  BY <1>5, <1>6

\* Being taken up is no answer yet.
LEMMA TakeMoves ==
    ASSUME HeadInv, NEW r \in Requests, GetLastBlock(r)
    PROVE  Chain!Next
<1>0. /\ UNCHANGED <<tip, store, earlier, conf>> /\ lb \in Actor /\ status[r] = "sent"
      /\ got \in [Requests -> Heights] /\ asof \in [Requests -> Heights]
      /\ status \in [Requests -> {"free", "sent", "held", "ok"}]
      /\ KeptKeys' = KeptKeys /\ asof[r] = 0
  BY DEF HeadInv, TypeInv, TypeOK, Fresh, GetLastBlock, KeptKeys
<1>1. CASE lb.fatal
  <2>1. /\ UNCHANGED <<lb, got, asof>> /\ status' = [status EXCEPT ![r] = "free"]
    BY <1>1 DEF GetLastBlock
  <2>2. /\ {r} \subseteq Waiters /\ Waiters' = Waiters \ {r}
        /\ asof' = [s \in Requests |-> IF s \in {r} THEN 0 ELSE asof[s]]
    BY <1>0, <2>1 DEF Waiters
  <2>3. Chain!Reject({r})
    BY <1>0, <2>1, <2>2 DEF Chain!Reject, Waiters, KeptKeys
  <2> QED
    BY <2>2, <2>3 DEF Chain!Next, Waiters
<1>2. CASE ~lb.fatal
  <2> DEFINE a == Reset(r)
             new == IF lb.held = {} /\ lb.get # "Active" THEN tip ELSE 0
  <2>1. a \in Actor /\ a.last = lb.last
    BY ResetFacts DEF HeadInv
  <2>2. Answered(a) = {}
    BY JoiningIsNotAnswered DEF HeadInv
  <2>3. Take(r, a)
    BY <1>2 DEF GetLastBlock
  <2> HIDE DEF a
  <2>4. /\ lb'.last = lb.last /\ got' = got /\ asof' = [asof EXCEPT ![r] = new]
        /\ status' = [s \in Requests |-> IF s = r THEN "held" ELSE status[s]]
    BY <1>0, <2>1, <2>2, <2>3, SyncLoopFacts DEF Take
  <2>5. r \in Waiters /\ Waiters' = Waiters /\ new \in {0, tip}
    BY <1>0, <2>4 DEF Waiters
  <2> HIDE DEF new
  <2>6. Chain!TakeUp(r)
    BY <1>0, <2>4, <2>5 DEF Chain!TakeUp, Waiters, KeptKeys
  <2> QED
    BY <2>6 DEF Chain!Next
<1> QED
  BY <1>1, <1>2

\* A state written to the file of its network moves what is kept, up to the head
\* at most.
LEMMA WriteMoves ==
    ASSUME HeadInv, UpdateLastBlockState
    PROVE  [Chain!Next]_(Chain!headVars)
<1>1. /\ UNCHANGED <<tip, earlier, lb, conf, status, got, asof>> /\ mail # <<>>
      /\ store' = IF Head(mail).gen = gen
                  THEN [store EXCEPT ![conf.net] = Head(mail).st] ELSE store
  BY DEF UpdateLastBlockState
<1>2. Waiters' = Waiters
  BY <1>1 DEF Waiters
<1>3. CASE Head(mail).gen # gen
  <2>1. KeptKeys' = KeptKeys
    BY <1>1, <1>3 DEF KeptKeys
  <2> QED
    BY <1>1, <1>2, <2>1 DEF Chain!headVars, Waiters, KeptKeys
<1>4. CASE Head(mail).gen = gen
  <2> DEFINE st == Head(mail).st
  <2>1. mail \in Seq([gen : 1..MaxConfigs, st : State]) /\ Head(mail) = mail[1] /\ 1 \in 1..Len(mail)
    BY <1>1, Dropped DEF HeadInv, TypeInv, TypeOK
  <2>2. st \in State /\ gen # 0
    <3>1. Head(mail) \in [gen : 1..MaxConfigs, st : State]
      <4> DEFINE M == [gen : 1..MaxConfigs, st : State]
      <4>1. mail \in Seq(M)
        BY <2>1
      <4> HIDE DEF M
      <4>2. mail[1] \in M
        BY <2>1, <4>1, ElementOfSeq
      <4> QED
        BY <2>1, <4>2 DEF M
    <3> QED
      BY <1>4, <3>1
  <2>3. /\ store[conf.net] # None /\ st.key <= lb.key /\ lb.key <= lb.last
        /\ earlier = {} => store[conf.net].key <= st.key
    BY <1>4, <2>1, <2>2 DEF HeadInv, Nets, Notes, InChain
  <2>4. /\ st.key \in Int /\ st.key >= 0 /\ lb.key \in Int /\ lb.last \in Int /\ store[conf.net].key \in Int
        /\ conf.net \in Networks /\ st # None
        /\ store \in [Networks -> State \cup {None}]
    <3>1. /\ lb \in Actor /\ conf \in Config /\ store \in [Networks -> State \cup {None}]
      BY DEF HeadInv, TypeInv, TypeOK
    <3>2. store[conf.net] \in State
      BY <2>3, <3>1 DEF Config
    <3> QED
      BY <2>2, <3>1, <3>2, HeightsAreNat, NoneAssumption DEF State, Actor, Config
  <2> HIDE DEF st
  <2>5. store' = [store EXCEPT ![conf.net] = st]
    BY <1>1, <1>4 DEF st
  <2>6. /\ KeptKeys[conf.net] = store[conf.net].key
        /\ KeptKeys' = [KeptKeys EXCEPT ![conf.net] = st.key]
    BY <2>3, <2>4, <2>5 DEF KeptKeys
  <2>7. PICK b \in 0..lb.last : b = st.key /\ (earlier = {} => b >= KeptKeys[conf.net])
    BY <2>3, <2>4, <2>6
  <2>8. Chain!Keep(b)
    BY <1>1, <1>2, <2>6, <2>7 DEF Chain!Keep, Waiters, KeptKeys
  <2> QED
    BY <2>7, <2>8 DEF Chain!Next, KeptKeys
<1> QED
  BY <1>3, <1>4

\* A new actor starts with a block, which is kept.
LEMMA ConfigureMoves ==
    ASSUME HeadInv, NEW c \in Config, SetConfig(c)
    PROVE  Chain!Next
<1>1. /\ lb' = NewActor(Loaded(c), c) /\ conf' = c /\ UNCHANGED <<tip, earlier, got>>
      /\ store' = [store EXCEPT ![c.net] = Loaded(c)] /\ c.net \in Networks
      /\ status' = [r \in Requests |-> IF status[r] \in {"sent", "held"} THEN "free"
                                       ELSE status[r]]
      /\ asof' = [r \in Requests |-> IF status[r] = "held" THEN 0 ELSE asof[r]]
  BY DEF SetConfig, Config
<1>2. /\ store \in [Networks -> State \cup {None}] /\ asof \in [Requests -> Heights]
      /\ \A r \in Requests : status[r] = "sent" => asof[r] = 0
      /\ tip \in Int
  <2>1. tip \in Heights
    BY DEF HeadInv, TypeInv, TypeOK
  <2> QED
    BY <2>1, HeightsAreNat DEF HeadInv, TypeInv, TypeOK, Fresh
<1> DEFINE k == Loaded(c).key
<1>3. Loaded(c) \in State /\ k \in Heights /\ k <= tip
  BY <1>1, LoadedInChain DEF HeadInv
<1>4. lb'.last = k
  BY <1>1, <1>2, FreshActor
<1>5. Loaded(c) # None
  BY <1>3, NoneAssumption
<1>6. KeptKeys' = [KeptKeys EXCEPT ![c.net] = k]
  BY <1>1, <1>2, <1>5 DEF KeptKeys
<1>7. k \in 0..tip
  BY <1>2, <1>3, HeightsAreNat
<1>8. /\ Waiters' = {}
      /\ asof' = [r \in Requests |-> IF r \in Waiters THEN 0 ELSE asof[r]]
  BY <1>1, <1>2 DEF Waiters
<1> HIDE DEF k
<1>9. PICK b \in 0..tip : b = k
  BY <1>7
<1>10. Chain!Configure(c.net, b)
  BY <1>1, <1>4, <1>6, <1>8, <1>9 DEF Chain!Configure, Waiters, KeptKeys
<1> QED
  BY <1>1, <1>10 DEF Chain!Next, KeptKeys

LEMMA EndMoves ==
    ASSUME HeadInv, Replaced
    PROVE  Chain!Next
<1>1. /\ lb' = NewActor(Loaded(conf), conf) /\ UNCHANGED <<tip, conf, store>>
      /\ status' = [r \in Requests |-> "free"] /\ got' = [r \in Requests |-> 0]
      /\ asof' = [r \in Requests |-> 0]
  BY DEF Replaced
<1>2. /\ store \in [Networks -> State \cup {None}] /\ conf \in Config /\ tip \in Int
  <2>1. tip \in Heights
    BY DEF HeadInv, TypeInv, TypeOK
  <2> QED
    BY <2>1, HeightsAreNat DEF HeadInv, TypeInv, TypeOK
<1> DEFINE k == Loaded(conf).key
<1>3. k \in Heights /\ k <= tip
  BY <1>2, LoadedInChain DEF HeadInv
<1>4. lb'.last = k
  BY <1>1, <1>2, FreshActor
<1>5. Waiters' = {} /\ KeptKeys' = KeptKeys
  BY <1>1 DEF Waiters, KeptKeys
<1> HIDE DEF k
<1>6. PICK b \in 0..tip : b = k
  BY <1>2, <1>3, HeightsAreNat
<1>7. Chain!End(b)
  BY <1>1, <1>4, <1>5, <1>6 DEF Chain!End, Waiters, KeptKeys
<1> QED
  BY <1>7 DEF Chain!Next, KeptKeys

\* What an earlier client writes is kept by somebody else.
LEMMA LateMoves ==
    ASSUME HeadInv, NEW o \in earlier, LateWrite(o)
    PROVE  Chain!Next
<1>1. UNCHANGED <<tip, conf, lb, status, got, asof>> /\ o.conf.net \in Networks
  BY LateFacts DEF HeadInv, TypeInv
<1>2. PICK s \in State : /\ store' = [store EXCEPT ![o.conf.net] = s]
                         /\ earlier' # {} /\ s.key <= tip
  BY LateFacts DEF HeadInv, TypeInv
<1>3. s # None /\ s.key \in Int /\ s.key >= 0 /\ tip \in Int
      /\ store \in [Networks -> State \cup {None}]
  <2>1. s.key \in Heights /\ tip \in Heights
    BY DEF State, HeadInv, TypeInv, TypeOK
  <2> QED
    BY <2>1, NoneAssumption, HeightsAreNat DEF HeadInv, TypeInv, TypeOK
<1>4. KeptKeys' = [KeptKeys EXCEPT ![o.conf.net] = s.key] /\ Waiters' = Waiters
  BY <1>1, <1>2, <1>3 DEF KeptKeys, Waiters
<1>5. PICK n \in Networks, b \in 0..tip : n = o.conf.net /\ b = s.key
  BY <1>1, <1>2, <1>3
<1>6. Chain!KeepElse(n, b)
  BY <1>1, <1>2, <1>4, <1>5 DEF Chain!KeepElse, Waiters, KeptKeys
<1> QED
  BY <1>6 DEF Chain!Next, KeptKeys

LEMMA HeadStep ==
    ASSUME HeadInv, HeadInv', [Next]_vars
    PROVE  [Chain!Next]_(Chain!headVars)
<1>0. UNCHANGED <<tip, earlier, lb, conf, store, status, got, asof>> => UNCHANGED Chain!headVars
  BY DEF Chain!headVars
<1>1. ASSUME NEW r \in Requests, Request(r) PROVE Chain!Next
  <2>1. /\ UNCHANGED <<tip, earlier, lb, conf, store>> /\ status[r] \in {"free", "ok"}
        /\ status' = [status EXCEPT ![r] = "sent"]
        /\ got' = [got EXCEPT ![r] = 0] /\ asof' = [asof EXCEPT ![r] = 0]
        /\ status \in [Requests -> {"free", "sent", "held", "ok"}]
    BY <1>1 DEF Request, HeadInv, TypeInv, TypeOK
  <2>2. r \notin Waiters /\ Waiters' = Waiters \cup {r} /\ KeptKeys' = KeptKeys
    BY <2>1 DEF Waiters, KeptKeys
  <2>3. Chain!Ask(r)
    BY <2>1, <2>2 DEF Chain!Ask, Waiters, KeptKeys
  <2> QED
    BY <2>3 DEF Chain!Next
<1>2. ASSUME NEW r \in Requests, GetLastBlock(r) PROVE Chain!Next
  BY <1>2, TakeMoves
<1>3. CASE Grow
  <2>1. tip' = tip + 1 /\ UNCHANGED <<earlier, lb, conf, store, status, got, asof>>
    BY <1>3 DEF Grow
  <2>2. Chain!Grow
    BY <2>1 DEF Chain!Grow
  <2> QED
    BY <2>2 DEF Chain!Next
<1>4. ASSUME NEW q \in wire, Serve(q) \/ Lose(q) PROVE UNCHANGED Chain!headVars
  <2>1. UNCHANGED <<tip, earlier, lb, conf, store, status, got, asof>>
    BY <1>4, ReplyOfServer DEF HeadInv
  <2> QED
    BY <1>0, <2>1
<1>5. ASSUME NEW q \in wire, AnswerOf(q) PROVE Chain!Next
  BY <1>5, AnswerMoves
<1>6. CASE UpdateLastBlockState
  BY <1>6, WriteMoves
<1>7. ASSUME NEW c \in Config, SetConfig(c) PROVE Chain!Next
  BY <1>7, ConfigureMoves
<1>8. CASE Replaced
  BY <1>8, EndMoves
<1>10. ASSUME NEW o \in earlier, LateWrite(o) PROVE Chain!Next
  BY <1>10, LateMoves
<1>9. CASE UNCHANGED vars
  BY <1>0, <1>9 DEF vars
<1> QED
  BY <1>1, <1>2, <1>3, <1>4, <1>5, <1>6, <1>7, <1>8, <1>9, <1>10, ConfigAssumption
  DEF Next, Configure, Die, Recreate, AnswerOf

LEMMA HeadInvariant == Spec => []HeadInv
<1>1. Init => Fresh
  BY DEF Init, Fresh
<1>2. TypeInv /\ Waiting /\ Nets /\ Fresh /\ [Next]_vars => Fresh'
  BY FreshStep
<1>3. TypeInv /\ Waiting /\ Nets /\ InChain /\ [Next]_vars => InChain'
  BY InChainStep
<1>4. TypeInv /\ Waiting /\ Nets /\ Pending /\ Fresh /\ InChain => HeadInv
  BY DEF HeadInv
<1> QED
  BY <1>1, <1>2, <1>3, <1>4, InChainInit, PendingInvariant, PTL DEF Spec

\* The light client shows its callers and the next start nothing but a block of
\* the chain that moves forward, whatever is lost, refused, answered late,
\* configured or killed.
THEOREM ImplementsHead == Spec => HeadSpec
<1>1. Init => Chain!Init
  BY HeadInit
<1>2. HeadInv /\ HeadInv' /\ [Next]_vars => [Chain!Next]_(Chain!headVars)
  BY HeadStep
<1> QED
  BY <1>1, <1>2, HeadInvariant, PTL DEF Spec, HeadSpec, Chain!Spec

-----------------------------------------------------------------------------
(* The bounds of the reported synchronisation.                             *)

\* The wallet's percentage never leaves 0..100.
THEOREM PercentInRangeHolds == Spec => []PercentInRange
<1>0. \A b \in Actor : b.min \in Int /\ b.cur \in Int /\ b.max \in Int
  BY HeightsAreNat DEF Actor
<1>1. Init => PercentInRange
  <2> SUFFICES ASSUME Init PROVE PercentInRange
    OBVIOUS
  <2>1. conf \in Config /\ store \in [Networks -> State \cup {None}]
    BY InitConf DEF Init
  <2>2. lb \in Actor /\ lb.min = lb.cur
    BY <2>1, FreshActor DEF Init
  <2> QED
    BY <1>0, <2>2 DEF PercentInRange
<1>2. TypeInv /\ PercentInRange /\ [Next]_vars => PercentInRange'
  <2> SUFFICES ASSUME TypeInv, PercentInRange, [Next]_vars PROVE PercentInRange'
    OBVIOUS
  <2>0. /\ lb \in Actor /\ lb.min \in Int /\ lb.cur \in Int /\ lb.max \in Int
        /\ UNCHANGED lb => PercentInRange'
    BY <1>0 DEF TypeInv, TypeOK, PercentInRange
  <2>1. ASSUME NEW r \in Requests, GetLastBlock(r) PROVE PercentInRange'
    <3>1. CASE lb.fatal
      BY <2>0, <2>1, <3>1 DEF GetLastBlock
    <3>2. CASE ~lb.fatal
      <4> DEFINE a == Reset(r)
      <4>1. a \in Actor /\ a.min = lb.min /\ a.cur = lb.cur /\ a.max = lb.max
        BY ResetFacts
      <4>2. lb' = SyncLoop(a)
        BY <2>1, <3>2 DEF GetLastBlock, Take
      <4> HIDE DEF a
      <4>3. lb'.min = lb.min /\ lb'.cur = lb.cur /\ lb'.max = lb.max
        BY <4>1, <4>2, SyncLoopFacts
      <4> QED
        BY <4>3 DEF PercentInRange
    <3> QED
      BY <3>1, <3>2
  <2>2. ASSUME NEW q \in wire, AnswerOf(q) PROVE PercentInRange'
    <3>1. PICK a \in Actor : Effect(q, a) /\ Outcome(q, a)
      BY <2>2, AnswerEffect
    <3>2. a.cur \in Int /\ a.max \in Int
      BY <1>0
    <3>3. a.min = lb.min /\ lb.cur <= a.cur /\ (a.cur <= a.max \/ (a.cur = lb.cur /\ lb.max <= a.max))
      BY <2>0, <3>1 DEF Effect
    <3>4. lb'.min = a.min /\ lb'.cur = a.cur /\ lb'.max = a.max
      BY <3>1 DEF Outcome
    <3> QED
      BY <2>0, <3>2, <3>3, <3>4 DEF PercentInRange
  <2>3. ASSUME NEW c \in Config, SetConfig(c) \/ Replaced PROVE PercentInRange'
    <3>1. /\ conf \in Config /\ store \in [Networks -> State \cup {None}]
          /\ lb' = NewActor(Loaded(c), c) \/ lb' = NewActor(Loaded(conf), conf)
      BY <2>3 DEF SetConfig, Replaced, TypeInv, TypeOK
    <3>2. lb' \in Actor /\ lb'.min = lb'.cur
      BY <3>1, FreshActor
    <3> QED
      BY <1>0, <3>2 DEF PercentInRange
  <2>4. ASSUME NEW q \in wire, Serve(q) \/ Lose(q) PROVE PercentInRange'
    BY <2>0, <2>4, ReplyOfServer
  <2>5. ASSUME NEW r \in Requests, Request(r) PROVE PercentInRange'
    BY <2>0, <2>5 DEF Request
  <2>6. CASE Grow \/ UpdateLastBlockState \/ UNCHANGED vars
    BY <2>0, <2>6 DEF Grow, UpdateLastBlockState, vars
  <2>7. ASSUME NEW o \in earlier, LateWrite(o) PROVE PercentInRange'
    BY <2>0, <2>7 DEF LateWrite
  <2> QED
    BY <2>1, <2>2, <2>3, <2>4, <2>5, <2>6, <2>7, ConfigAssumption
    DEF Next, Configure, Die, Recreate, AnswerOf, TypeInv, TypeOK
<1> QED
  BY <1>1, <1>2, TypeCorrect, PTL DEF Spec

\* Every variable keeps its type.
THEOREM TypeHolds == Spec => []TypeOK
  BY TypeCorrect, PTL DEF TypeInv

\* One query of a kind, exactly while its state is Active.
THEOREM OneQueryEachHolds == Spec => []OneQueryEach
  BY WaitingCorrect, PTL

=============================================================================
