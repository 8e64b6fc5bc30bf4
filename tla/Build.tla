--------------------------------- MODULE Build ---------------------------------
(***************************************************************************)
(* How make carries a changed configuration into the objects: the rule for *)
(* auto.conf in the Makefile, conf_write_autoconf and conf_split_config of *)
(* confdata.c (conf -s), if_changed_dep of Kbuild.include, and fixdep.     *)
(*                                                                         *)
(* A configuration is the value of every symbol; Unset stands for n and    *)
(* for a symbol that is not written, which auto.conf does not mention      *)
(* either.  Of the times of files the model keeps what make asks of them:  *)
(* what is newer than what.  An include/config header has no contents; it  *)
(* is touched when its symbol changes.                                     *)
(***************************************************************************)
EXTENDS Naturals, FiniteSets

CONSTANTS Syms, Values, Unset,
          Sources, Objects,
          Files,      \* the sources an object is compiled from
          ArgSyms,    \* the symbols its command line depends on
          MaxEdits,   \* bound on what the user changes
          MaxFails    \* bound on the runs of make that end early

ASSUME UnsetIsValue == Unset \in Values
ASSUME FilesType    == Files \in [Objects -> SUBSET Sources]
ASSUME ArgSymsType  == ArgSyms \in [Objects -> SUBSET Syms]
ASSUME KindsDiffer  == Syms \intersect Sources = {}

VARIABLES config,      \* .config
          autoconf,    \* include/config/auto.conf: all Unset before it is made
          autoheader,  \* include/linux/autoconf.h
          outdated,    \* auto.conf is missing, or .config or auto.conf.cmd is newer
          text,        \* the symbols each source mentions
          newer,       \* the headers and sources that are newer than each object there is
          built,       \* the objects there are
          seen,        \* the autoconf.h each was compiled with
          cmd,         \* .cmd of each object, {} when there is none
          making,      \* the objects whose compiler has ended and whose .cmd is to come
          torn,        \* the objects that are newer than their .cmd
          pc,          \* what make is doing
          old, todo,   \* conf_split_config: S_DEF_AUTO, and the symbols to compare
          edits, fails

confs == <<autoconf, autoheader, outdated, old, todo>>
objs  == <<built, seen, cmd, making, torn>>
user  == <<config, text, edits>>
vars  == <<config, autoconf, autoheader, outdated, text, newer, built, seen, cmd, making, torn, pc, old, todo, edits, fails>>

Config == [Syms -> Values]
None   == [s \in Syms |-> Unset]

Init == /\ config \in Config
        /\ autoconf = None /\ autoheader = None /\ outdated = TRUE
        /\ text \in [Sources -> SUBSET Syms]
        /\ newer = [o \in Objects |-> {}]
        /\ built = {}
        /\ seen = [o \in Objects |-> None]
        /\ cmd = [o \in Objects |-> {}]
        /\ making = {} /\ torn = {}
        /\ pc = "idle"
        /\ old = None /\ todo = {}
        /\ edits = 0 /\ fails = 0

Newly(x) == [o \in Objects |-> IF o \in built THEN newer[o] \union {x} ELSE {}]

(***************************************************************************)
(* The user, while make does not run.                                      *)
(***************************************************************************)
Edits == pc = "idle" /\ edits < MaxEdits /\ edits' = edits + 1

EditConfig == /\ Edits
              /\ \E c \in Config : config' = c
              /\ outdated' = TRUE
              /\ UNCHANGED <<autoconf, autoheader, text, newer, objs, pc, old, todo, fails>>

EditSource == /\ Edits
              /\ \E f \in Sources, ss \in SUBSET Syms :
                   /\ text' = [text EXCEPT ![f] = ss]
                   /\ newer' = Newly(f)
              /\ UNCHANGED <<config, confs, objs, pc, fails>>

Make == /\ pc = "idle"
        /\ pc' = IF outdated THEN "dep" ELSE "objects"
        /\ UNCHANGED <<user, confs, newer, objs, fails>>

(***************************************************************************)
(* conf_write_autoconf.  What a step leaves behind stays when a later one  *)
(* fails, and make then stops.                                             *)
(***************************************************************************)
\* Slip: auto.conf before autoconf.h.
FollowingSwapped(p) == CASE p = "dep" -> "read" [] p = "read" -> "compare" [] p = "compare" -> "auto"
                         [] p = "auto" -> "header" [] p = "header" -> "objects"
Following(p) == CASE p = "dep" -> "read" [] p = "read" -> "compare" [] p = "compare" -> "header"
                  [] p = "header" -> "auto" [] p = "auto" -> "objects"

At(p)     == pc = p
Proceed   == pc' = Following(pc) /\ UNCHANGED <<user, objs, fails>>

\* file_write_dep: auto.conf.cmd becomes newer than auto.conf.
WriteDep == /\ At("dep") /\ Proceed
            /\ outdated' = TRUE
            /\ UNCHANGED <<autoconf, autoheader, newer, old, todo>>

\* conf_read_simple(S_DEF_AUTO)
ReadAuto == /\ At("read") /\ Proceed
            /\ old' = autoconf
            /\ todo' = Syms
            /\ UNCHANGED <<autoconf, autoheader, outdated, newer>>

\* Slip: a symbol without an old value is new, and nothing to compare.
ChangedKnown(s) == old[s] # Unset /\ config[s] # old[s]
Changed(s) == config[s] # old[s]

\* One symbol: its header is touched when old and new value differ.
Compare == /\ At("compare")
           /\ \E s \in todo : /\ todo' = todo \ {s}
                              /\ newer' = IF Changed(s) THEN Newly(s) ELSE newer
           /\ UNCHANGED <<user, objs, fails, pc, autoconf, autoheader, outdated, old>>

\* Both files are written under other names first.
WriteTemporary == /\ At("compare") /\ todo = {} /\ Proceed
                  /\ UNCHANGED <<confs, newer>>

RenameHeader == /\ At("header") /\ Proceed
                /\ autoheader' = config
                /\ UNCHANGED <<autoconf, outdated, newer, old, todo>>

RenameAuto == /\ At("auto") /\ Proceed
              /\ autoconf' = config
              /\ outdated' = FALSE
              /\ old' = None
              /\ UNCHANGED <<autoheader, newer, todo>>

\* A step fails, or make is killed: an object without its new .cmd stays.
Stop == /\ pc # "idle" /\ fails < MaxFails
        /\ fails' = fails + 1
        /\ pc' = "idle" /\ making' = {}
        /\ old' = None /\ todo' = {}
        /\ UNCHANGED <<user, autoconf, autoheader, outdated, newer, built, seen, cmd, torn>>

(***************************************************************************)
(* The objects, of which make -j makes several at a time.  The compiler,   *)
(* fixdep, rm and mv are commands of one recipe: the object is there when  *)
(* the first has ended, its .cmd when the last has, and nothing deletes    *)
(* the object when one between them fails.                                 *)
(***************************************************************************)
Mentions(o) == UNION {text[f] : f \in Files[o]}

\* Slip: the headers of the symbols are left out.
FixdepFiles(o) == Files[o]
\* fixdep: the files the compiler read, but for autoconf.h, and the headers of the
\* symbols they mention.
Fixdep(o) == Files[o] \union Mentions(o)

Args(o) == [s \in Syms |-> IF s \in ArgSyms[o] THEN autoconf[s] ELSE Unset]

\* any-prereq, arg-check
Needed(o) == o \notin built \/ ~\E c \in cmd[o] : newer[o] \intersect c.deps = {} /\ c.args = Args(o)

Compile == /\ At("objects")
           /\ \E o \in Objects \ making :
                /\ Needed(o)
                /\ built' = built \union {o}
                /\ seen' = [seen EXCEPT ![o] = autoheader]
                /\ newer' = [newer EXCEPT ![o] = {}]
                /\ making' = making \union {o}
                /\ torn' = torn \union {o}
           /\ UNCHANGED <<user, confs, cmd, pc, fails>>

\* fixdep, rm, mv
Postprocess == /\ At("objects")
               /\ \E o \in making :
                    /\ cmd' = [cmd EXCEPT ![o] = {[deps |-> Fixdep(o), args |-> Args(o)]}]
                    /\ making' = making \ {o}
                    /\ torn' = torn \ {o}
               /\ UNCHANGED <<user, confs, newer, built, seen, pc, fails>>

\* make deletes the targets of the commands a signal interrupts, if they have changed.
Interrupt == /\ At("objects") /\ fails < MaxFails
             /\ \E part \in SUBSET {o \in Objects : Needed(o)} :
                  /\ built' = built \ (making \union part)
                  /\ torn' = torn \intersect built'
                  /\ newer' = [o \in Objects |-> IF o \in built' THEN newer[o] ELSE {}]
                  /\ seen' = [o \in Objects |-> IF o \in built' THEN seen[o] ELSE None]
             /\ fails' = fails + 1
             /\ pc' = "idle" /\ making' = {}
             /\ UNCHANGED <<user, confs, cmd>>

AllMade == making = {} /\ \A o \in Objects : ~Needed(o)

Finish == /\ At("objects") /\ AllMade
          /\ pc' = "idle"
          /\ UNCHANGED <<user, confs, newer, objs, fails>>

Conf == WriteDep \/ ReadAuto \/ Compare \/ WriteTemporary \/ RenameHeader \/ RenameAuto
Next == EditConfig \/ EditSource \/ Make \/ Conf \/ Compile \/ Postprocess \/ Finish \/ Stop \/ Interrupt

\* make is run again and again, and gets on with what it does.
Spec == /\ Init /\ [][Next]_vars
        /\ WF_vars(Make) /\ WF_vars(Conf) /\ WF_vars(Compile) /\ WF_vars(Postprocess) /\ WF_vars(Finish)

(***************************************************************************)
(* Properties.                                                             *)
(***************************************************************************)
\* The symbols an old .cmd does not know of, when its object was made anew and fixdep
\* or mv then failed: the compiler read sources that have come to mention them since.
Unknown(o) == IF o \in torn THEN Mentions(o) \ UNION {c.deps : c \in cmd[o]} ELSE {}

Current(o) == \A s \in Mentions(o) \ Unknown(o) : seen[o][s] = config[s]

\* When make finds nothing left to do, every object was compiled with the present
\* value of every symbol its sources mention, whatever was interrupted before; but for
\* the symbols that are missing in the .cmd of a torn object (Kbuild.include:206-209).
NoStale == At("objects") /\ AllMade => \A o \in Objects : Current(o)

\* fixdep.c:30-33, "the files representing changed config options are touched which
\* then let make pick up the changes and the files that use the config symbols are
\* rebuilt": without the exception.  It fails.
UsersRebuilt == At("objects") /\ AllMade =>
    \A o \in Objects : \A s \in Mentions(o) : seen[o][s] = config[s]

\* An auto.conf that is up to date marks the completion of the other steps
\* (confdata.c:783): autoconf.h says the same, and so does .config.
AutoConfMarks == ~outdated => autoconf = config /\ autoheader = config

\* Once nothing is changed or stopped any more, make has nothing left to compile, and
\* every object is as up to date as NoStale says.
UpToDate == ~outdated /\ AllMade /\ \A o \in Objects : Current(o)
Settles == <>[]UpToDate
===============================================================================
