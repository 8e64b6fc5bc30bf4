------------------------------ MODULE BuildProofs ------------------------------
(***************************************************************************)
(* Proofs about Build for every set of symbols, values, sources and        *)
(* objects, and any number of edits and failures.                          *)
(***************************************************************************)
EXTENDS Build, TLAPS

Steps == {"idle", "dep", "read", "compare", "header", "auto", "objects"}

TypeOK ==
    /\ config \in Config /\ autoconf \in Config /\ autoheader \in Config /\ old \in Config
    /\ outdated \in BOOLEAN
    /\ text \in [Sources -> SUBSET Syms]
    /\ newer \in [Objects -> SUBSET (Syms \union Sources)]
    /\ built \subseteq Objects
    /\ seen \in [Objects -> Config]
    /\ cmd \in [Objects -> SUBSET [deps : SUBSET (Syms \union Sources), args : Config]]
    /\ \A o \in Objects : \A c, d \in cmd[o] : c = d
    /\ making \subseteq torn /\ torn \subseteq built
    /\ pc \in Steps
    /\ todo \subseteq Syms

\* How far conf_write_autoconf has got.
Order ==
    /\ pc \in {"dep", "read", "compare", "header", "auto"} => outdated
    /\ pc = "objects" => ~outdated
    /\ pc \in {"compare", "header", "auto"} => old = autoconf
    /\ pc \in {"header", "auto"} => todo = {}
    /\ pc = "auto" => autoheader = config

\* A symbol whose header is no newer than an object has not changed: the object
\* was compiled with its value in auto.conf, and conf_split_config has found that
\* the configuration says the same.
Untouched ==
    /\ \A o \in built : \A s \in Syms \ newer[o] : seen[o][s] = autoconf[s]
    /\ pc \in {"compare", "header", "auto"} =>
         \A o \in built : \A s \in Syms \ (newer[o] \union todo) : autoconf[s] = config[s]

\* The prerequisites of an object that is not torn are complete while its sources are
\* no newer.
Complete ==
    \A o \in built \ torn : \A c \in cmd[o] :
      /\ Files[o] \subseteq c.deps
      /\ newer[o] \intersect Files[o] = {} => Mentions(o) \subseteq c.deps

IInv == TypeOK /\ AutoConfMarks /\ Order /\ Untouched /\ Complete

LEMMA NoneInConfig == None \in Config
BY UnsetIsValue DEF None, Config

LEMMA ArgsInConfig ==
  ASSUME TypeOK, NEW o \in Objects
  PROVE  Args(o) \in Config
BY UnsetIsValue DEF Args, Config, TypeOK

LEMMA MentionsSyms ==
  ASSUME TypeOK, NEW o \in Objects
  PROVE  Mentions(o) \subseteq Syms /\ Fixdep(o) \subseteq Syms \union Sources
BY FilesType DEF Mentions, Fixdep, TypeOK

LEMMA InitIInv == Init => IInv
BY NoneInConfig DEF Init, IInv, TypeOK, Steps, Order, Untouched, Complete, AutoConfMarks

LEMMA NewlyType ==
  ASSUME TypeOK, NEW x \in Syms \union Sources
  PROVE  /\ Newly(x) \in [Objects -> SUBSET (Syms \union Sources)]
         /\ \A o \in built : Newly(x)[o] = newer[o] \union {x}
BY DEF Newly, TypeOK

LEMMA EditConfigStep == IInv /\ EditConfig => IInv'
<1> SUFFICES ASSUME IInv, EditConfig PROVE IInv'
  OBVIOUS
<1> USE DEF IInv, EditConfig, Edits, objs
<1>1. TypeOK'
  BY DEF TypeOK
<1>2. AutoConfMarks' /\ Order'
  BY DEF AutoConfMarks, Order
<1>3. Untouched'
  BY DEF Untouched
<1>4. Complete'
  BY DEF Complete, Mentions
<1>5. QED
  BY <1>1, <1>2, <1>3, <1>4

LEMMA EditSourceStep == IInv /\ EditSource => IInv'
<1> SUFFICES ASSUME IInv, EditSource PROVE IInv'
  OBVIOUS
<1>1. PICK f \in Sources, ss \in SUBSET Syms :
         text' = [text EXCEPT ![f] = ss] /\ newer' = Newly(f)
  BY DEF EditSource
<1>2. /\ pc = "idle" /\ pc' = pc
      /\ UNCHANGED <<config, autoconf, autoheader, outdated, old, todo, built, seen, cmd, making, torn>>
  BY DEF EditSource, Edits, confs, objs
<1>3. /\ newer' \in [Objects -> SUBSET (Syms \union Sources)]
      /\ \A o \in built : newer'[o] = newer[o] \union {f}
  BY <1>1, NewlyType DEF IInv
<1>4. TypeOK'
  BY <1>1, <1>2, <1>3 DEF IInv, TypeOK
<1>5. AutoConfMarks' /\ Order'
  BY <1>2 DEF IInv, AutoConfMarks, Order
<1>6. Untouched'
  BY <1>2, <1>3 DEF IInv, Untouched, TypeOK
<1>7. Complete'
  <2> SUFFICES ASSUME NEW o \in built \ torn, NEW c \in cmd[o]
               PROVE  /\ Files[o] \subseteq c.deps
                      /\ newer'[o] \intersect Files[o] = {} => Mentions(o)' \subseteq c.deps
    BY <1>2 DEF Complete
  <2>1. o \in Objects
    BY DEF IInv, TypeOK
  <2>2. ASSUME newer'[o] \intersect Files[o] = {} PROVE Mentions(o)' = Mentions(o)
    <3>1. f \notin Files[o]
      BY <2>1, <2>2, <1>3
    <3>2. \A g \in Files[o] : text'[g] = text[g]
      BY <3>1, <2>1, <1>1, FilesType DEF IInv, TypeOK
    <3>3. QED
      BY <3>2 DEF Mentions
  <2>3. newer'[o] \intersect Files[o] = {} => newer[o] \intersect Files[o] = {}
    BY <2>1, <1>3
  <2>4. QED
    BY <2>2, <2>3 DEF IInv, Complete
<1>8. QED
  BY <1>4, <1>5, <1>6, <1>7 DEF IInv

\* Make, Finish and Stop change nothing that lasts.
LEMMA ControlStep ==
  ASSUME IInv, Make \/ Finish \/ Stop
  PROVE  IInv'
<1> USE DEF confs, objs, user
<1>1. UNCHANGED <<config, text, autoconf, autoheader, outdated, newer, built, seen, cmd, torn>>
  BY DEF Make, Finish, Stop
<1>2. pc' \in {"idle", "dep", "objects"} /\ (pc' = "dep" => outdated) /\ (pc' = "objects" => ~outdated)
  BY DEF Make, Finish, Stop, IInv, TypeOK
<1>6. old' \in Config /\ todo' \subseteq Syms /\ making' \subseteq torn
  BY NoneInConfig DEF Make, Finish, Stop, IInv, TypeOK
<1>3. TypeOK'
  BY <1>1, <1>2, <1>6 DEF IInv, TypeOK, Steps
<1>4. AutoConfMarks' /\ Order' /\ Untouched'
  BY <1>1, <1>2 DEF IInv, AutoConfMarks, Order, Untouched
<1>5. Complete'
  BY <1>1 DEF IInv, Complete, Mentions
<1>7. QED
  BY <1>3, <1>4, <1>5 DEF IInv

\* No step of conf_write_autoconf disturbs what the objects need.
LEMMA ConfKeepsComplete ==
  ASSUME IInv, UNCHANGED <<text, built, cmd, torn>>,
         \A o \in built : newer[o] \subseteq newer'[o]
  PROVE  Complete'
<1>1. ASSUME NEW o \in built \ torn, NEW c \in cmd[o]
      PROVE  /\ Files[o] \subseteq c.deps
             /\ newer'[o] \intersect Files[o] = {} => Mentions(o) \subseteq c.deps
  BY DEF IInv, TypeOK, Complete
<1>2. QED
  BY <1>1 DEF Complete, Mentions

LEMMA CompareStep == IInv /\ Compare => IInv'
<1> SUFFICES ASSUME IInv, Compare PROVE IInv'
  OBVIOUS
<1>1. PICK s \in todo : todo' = todo \ {s} /\ newer' = IF Changed(s) THEN Newly(s) ELSE newer
  BY DEF Compare
<1>2. /\ pc = "compare" /\ pc' = "compare"
      /\ UNCHANGED <<config, text, autoconf, autoheader, outdated, old, built, seen, cmd, making, torn>>
  BY DEF Compare, At, user, objs
<1>3. s \in Syms
  BY <1>1 DEF IInv, TypeOK
<1>4. /\ newer' \in [Objects -> SUBSET (Syms \union Sources)]
      /\ \A o \in built : newer'[o] = IF Changed(s) THEN newer[o] \union {s} ELSE newer[o]
  BY <1>1, <1>3, NewlyType DEF IInv, TypeOK
<1>5. TypeOK'
  BY <1>1, <1>2, <1>4 DEF IInv, TypeOK
<1>6. AutoConfMarks' /\ Order'
  BY <1>2 DEF IInv, AutoConfMarks, Order
<1>7. Untouched'
  <2>1. \A o \in built : \A t \in Syms \ newer'[o] : seen[o][t] = autoconf[t]
    BY <1>4 DEF IInv, TypeOK, Untouched
  <2>2. ASSUME NEW o \in built, NEW t \in Syms \ (newer'[o] \union todo')
        PROVE  autoconf[t] = config[t]
    <3>1. CASE t = s
      BY <3>1, <2>2, <1>2, <1>4 DEF Changed, IInv, Order
    <3>2. CASE t # s
      BY <3>2, <2>2, <1>1, <1>2, <1>4 DEF IInv, Untouched
    <3>3. QED
      BY <3>1, <3>2
  <2>3. QED
    BY <2>1, <2>2, <1>2 DEF Untouched
<1>8. Complete'
  BY <1>2, <1>4, ConfKeepsComplete
<1>9. QED
  BY <1>5, <1>6, <1>7, <1>8 DEF IInv

LEMMA ConfStep ==
  ASSUME IInv, WriteDep \/ ReadAuto \/ WriteTemporary \/ RenameHeader \/ RenameAuto
  PROVE  IInv'
<1> USE DEF Proceed, At, user, objs, confs
<1>1. /\ UNCHANGED <<config, text, newer, built, seen, cmd, making, torn>>
      /\ pc' = Following(pc)
  BY DEF WriteDep, ReadAuto, WriteTemporary, RenameHeader, RenameAuto
<1>2. Complete'
  BY <1>1, ConfKeepsComplete
<1>3. CASE WriteDep
  BY <1>1, <1>2, <1>3 DEF WriteDep, Following, IInv, TypeOK, Steps, AutoConfMarks, Order, Untouched
<1>4. CASE ReadAuto
  BY <1>1, <1>2, <1>4 DEF ReadAuto, Following, IInv, TypeOK, Steps, AutoConfMarks, Order, Untouched
<1>5. CASE WriteTemporary
  BY <1>1, <1>2, <1>5 DEF WriteTemporary, Following, IInv, TypeOK, Steps, AutoConfMarks, Order, Untouched
<1>6. CASE RenameHeader
  BY <1>1, <1>2, <1>6 DEF RenameHeader, Following, IInv, TypeOK, Steps, AutoConfMarks, Order, Untouched
<1>7. CASE RenameAuto
  <2>1. /\ pc = "auto" /\ pc' = "objects" /\ autoconf' = config /\ outdated' = FALSE /\ old' = None
        /\ UNCHANGED <<autoheader, todo>> /\ todo = {} /\ autoheader = config
    BY <1>1, <1>7 DEF RenameAuto, Following, IInv, Order
  <2>2. TypeOK'
    BY <2>1, <1>1, NoneInConfig DEF IInv, TypeOK, Steps
  <2>5. AutoConfMarks' /\ Order'
    BY <2>1, <1>1 DEF AutoConfMarks, Order
  <2>3. ASSUME NEW o \in built, NEW s \in Syms \ newer[o] PROVE seen[o][s] = config[s]
    BY <2>1, <2>3 DEF IInv, TypeOK, Untouched
  <2>4. Untouched'
    BY <2>1, <2>3, <1>1 DEF Untouched
  <2>6. QED
    BY <2>2, <2>5, <2>4, <1>2 DEF IInv
<1>8. QED
  BY <1>3, <1>4, <1>5, <1>6, <1>7

LEMMA CompileStep == IInv /\ Compile => IInv'
<1> SUFFICES ASSUME IInv, Compile PROVE IInv'
  OBVIOUS
<1>1. PICK o \in Objects :
        /\ built' = built \union {o}
        /\ seen' = [seen EXCEPT ![o] = autoheader]
        /\ newer' = [newer EXCEPT ![o] = {}]
        /\ making' = making \union {o}
        /\ torn' = torn \union {o}
  BY DEF Compile
<1>2. /\ pc = "objects" /\ pc' = pc
      /\ UNCHANGED <<config, text, autoconf, autoheader, outdated, old, todo, cmd>>
  BY DEF Compile, At, user, confs
<1>3. ~outdated /\ autoheader = autoconf
  BY <1>2 DEF IInv, Order, AutoConfMarks
<1>4. TypeOK'
  BY <1>1, <1>2 DEF IInv, TypeOK
<1>5. AutoConfMarks' /\ Order'
  BY <1>2 DEF IInv, AutoConfMarks, Order
<1>6. Untouched'
  BY <1>1, <1>2, <1>3 DEF IInv, TypeOK, Untouched
<1>7. Complete'
  BY <1>1, <1>2 DEF IInv, TypeOK, Complete, Mentions
<1>8. QED
  BY <1>4, <1>5, <1>6, <1>7 DEF IInv

LEMMA PostprocessStep == IInv /\ Postprocess => IInv'
<1> SUFFICES ASSUME IInv, Postprocess PROVE IInv'
  OBVIOUS
<1>1. PICK o \in making :
        /\ cmd' = [cmd EXCEPT ![o] = {[deps |-> Fixdep(o), args |-> Args(o)]}]
        /\ making' = making \ {o}
        /\ torn' = torn \ {o}
  BY DEF Postprocess
<1>2. UNCHANGED <<config, text, autoconf, autoheader, outdated, old, todo, newer, built, seen, pc>>
  BY DEF Postprocess, user, confs
<1>3. o \in Objects
  BY DEF IInv, TypeOK
<1>4. TypeOK'
  BY <1>1, <1>2, <1>3, MentionsSyms, ArgsInConfig DEF IInv, TypeOK
<1>5. AutoConfMarks' /\ Order' /\ Untouched'
  BY <1>2 DEF IInv, AutoConfMarks, Order, Untouched
<1>6. Complete'
  <2> SUFFICES ASSUME NEW x \in built \ torn', NEW c \in cmd'[x]
               PROVE  /\ Files[x] \subseteq c.deps
                      /\ newer[x] \intersect Files[x] = {} => Mentions(x) \subseteq c.deps
    BY <1>2 DEF Complete, Mentions
  <2>1. CASE x = o
    BY <2>1, <1>1, <1>3 DEF IInv, TypeOK, Fixdep
  <2>2. CASE x # o
    BY <2>2, <1>1, <1>3 DEF IInv, TypeOK, Complete
  <2>3. QED
    BY <2>1, <2>2
<1>7. QED
  BY <1>4, <1>5, <1>6 DEF IInv

LEMMA InterruptStep == IInv /\ Interrupt => IInv'
<1> SUFFICES ASSUME IInv, Interrupt PROVE IInv'
  OBVIOUS
<1>1. /\ built' \subseteq built /\ torn' = torn \intersect built' /\ making' = {} /\ pc' = "idle"
      /\ newer' = [o \in Objects |-> IF o \in built' THEN newer[o] ELSE {}]
      /\ seen' = [o \in Objects |-> IF o \in built' THEN seen[o] ELSE None]
      /\ UNCHANGED <<config, text, autoconf, autoheader, outdated, old, todo, cmd>>
  BY DEF Interrupt, user, confs
<1>2. TypeOK'
  BY <1>1, NoneInConfig DEF IInv, TypeOK, Steps
<1>3. AutoConfMarks' /\ Order'
  BY <1>1 DEF IInv, AutoConfMarks, Order
<1>4. \A o \in built' : o \in Objects /\ o \in built /\ newer'[o] = newer[o] /\ seen'[o] = seen[o]
  BY <1>1 DEF IInv, TypeOK
<1>5. Untouched'
  BY <1>1, <1>4 DEF IInv, Untouched
<1>6. Complete'
  BY <1>1, <1>4 DEF IInv, Complete, Mentions
<1>7. QED
  BY <1>2, <1>3, <1>5, <1>6 DEF IInv

LEMMA StutterStep == IInv /\ UNCHANGED vars => IInv'
BY DEF IInv, vars, TypeOK, AutoConfMarks, Order, Untouched, Complete, Mentions

\* The invariant holds in every behaviour.
THEOREM IInvHolds == Spec => []IInv
<1>1. IInv /\ [Next]_vars => IInv'
  BY EditConfigStep, EditSourceStep, ControlStep, ConfStep, CompareStep, CompileStep, PostprocessStep, InterruptStep,
     StutterStep DEF Next, Conf
<1>2. QED
  BY <1>1, InitIInv, PTL DEF Spec

\* An up-to-date auto.conf marks that autoconf.h is complete, after any sequence of
\* failures of conf_write_autoconf.
THEOREM AutoConfMarksCorrect == Spec => []AutoConfMarks
<1>1. IInv => AutoConfMarks
  BY DEF IInv
<1>2. QED
  BY <1>1, IInvHolds, PTL

\* When make has nothing left to do, no object is out of date but in a symbol its torn
\* .cmd does not know of.
THEOREM NoStaleCorrect == Spec => []NoStale
<1>1. ASSUME IInv PROVE NoStale
  <2> SUFFICES ASSUME pc = "objects", AllMade, NEW o \in Objects,
                      NEW s \in Mentions(o) \ Unknown(o)
               PROVE  seen[o][s] = config[s]
    BY DEF NoStale, At, Current
  <2>1. o \in built
    BY DEF AllMade, Needed
  <2>2. PICK c \in cmd[o] : newer[o] \intersect c.deps = {}
    BY DEF AllMade, Needed
  <2>3. PICK d \in cmd[o] : s \in d.deps /\ (o \notin torn => d = c)
    BY <2>1, <2>2, <1>1 DEF IInv, TypeOK, Complete, Unknown
  <2>4. c = d
    BY <2>2, <2>3, <1>1 DEF IInv, TypeOK
  <2>5. s \in Syms \ newer[o]
    BY <2>2, <2>3, <2>4, <1>1, MentionsSyms DEF IInv
  <2>6. QED
    BY <2>1, <2>5, <1>1 DEF IInv, Untouched, Order, AutoConfMarks
<1>2. QED
  BY <1>1, IInvHolds, PTL
===============================================================================
