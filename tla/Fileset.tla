-------------------------------- MODULE Fileset --------------------------------
(***************************************************************************)
(* mtbl/fileset.c over libmy/my_fileset.c: filesets that share the readers *)
(* of the files which a setfile lists, each with a merger of its own over  *)
(* those that pass its filter, and iterators over the mergers.             *)
(*                                                                         *)
(* What a reload finds is chosen freely: that the setfile is unchanged or  *)
(* cannot be read, or which files it lists and which of them exist and     *)
(* open.  So is whether the reload interval has passed.  A setfile lists a *)
(* file at most once.  Two reloads do not get the same time from the       *)
(* clock, so that comparing two fs_last tells whose reload was the last.   *)
(***************************************************************************)
EXTENDS Integers, FiniteSets, Functions

CONSTANTS
    Files,       \* the files that may be in the setfile
    Filesets,    \* the filesets there may be at a time
    First,       \* the one that mtbl_fileset_init() makes
    Iters,       \* the iterators there may be at a time
    FilterOf,    \* the files that pass the filters of a fileset
    Ids          \* readers; a new one is none that anybody still points to

ASSUME FilesetAssumption ==
    /\ First \in Filesets
    /\ FilterOf \in [Filesets -> SUBSET Files]
    /\ Ids \subseteq Nat \ {0}
    /\ IsFiniteSet(Iters)

\* The reader of a file that could not be opened
Null == 0

VARIABLES
    st,         \* the shared fileset and the filesets, see TypeOK
    iters,      \* the iterators: their fileset and the readers they are over
    crashed     \* mtbl_reader_source() was called with no reader

vars == <<st, iters, crashed>>

\* What fs->entries may be: the readers of the listed files
Entries == UNION {[S -> Ids \cup {Null}] : S \in SUBSET Files}
FilesetType == [live : BOOLEAN, current : BOOLEAN, never : BOOLEAN, sources : SUBSET Ids]
State == [entries : Entries, open : SUBSET Ids, reload_needed : BOOLEAN, loaded : BOOLEAN,
          fs : [Filesets -> FilesetType], skipped : SUBSET Filesets]

NoReaders == [f \in {} |-> Null]
Gone == [live |-> FALSE, current |-> FALSE, never |-> FALSE, sources |-> {}]
NoIter == [live |-> FALSE, of |-> First, sources |-> {}]

-------------------------------------------------------------------------------
(* Plausible bugs, each one the body of a definition below. *)

\* Files that could not be opened get into the merger.
Anything(entries, S) == {entries[f] : f \in S}
\* A reload by another fileset is not noticed.
NeverOutOfDate(s, f) == FALSE
\* A reload does not wait for the iterators,
NeverBusy(n) == FALSE
\* or waits for the iterator that is being destroyed, too.
CountedBefore(S, i) == Cardinality(S)
\* Readers of files that are not listed any more stay open.
UnloadedNever(s, present) == {}

-------------------------------------------------------------------------------

OpenReaders(entries, S) == {entries[f] : f \in S} \ {Null}

\* fs_reinit_merger()
ReinitMerger(s, f) ==
    [s EXCEPT !.fs[f].sources = OpenReaders(s.entries, DOMAIN s.entries \cap FilterOf[f]),
              !.skipped = @ \ {f}]

\* The shared fileset was reloaded by another fileset.
OutOfDate(s, f) == ~s.fs[f].current

Busy(n) == n > 0

\* The readers that my_fileset_reload() closes
Unloaded(s, present) == OpenReaders(s.entries, DOMAIN s.entries \ present)

\* Readers that nobody has a pointer to
Unused(s) ==
    Ids \ (s.open \cup UNION {s.fs[f].sources : f \in Filesets}
                  \cup UNION {iters[i].sources : i \in Iters})

\* my_fileset_reload(): the files that were there keep their readers, even when
\* they have none.
ReadSetfile(s, r) ==
    LET new == r.present \ DOMAIN s.entries
        reader == CHOOSE g \in Injection(new \ r.broken, Unused(s)) : TRUE
    IN  [s EXCEPT
            !.entries = [f \in r.present |->
                IF f \in DOMAIN s.entries THEN s.entries[f]
                ELSE IF f \in r.broken THEN Null ELSE reader[f]],
            !.open = (@ \ Unloaded(s, r.present)) \cup Range(reader)]

\* n_loaded > 0 or n_unloaded > 0
Changes(s, r) == r.read /\ r.present # DOMAIN s.entries

\* The end of mtbl_fileset_reload(), and mtbl_fileset_reload_now()
ReloadNow(s, f, r) ==
    LET changed == IF Changes(s, r) THEN ReinitMerger(ReadSetfile(s, r), f)
                   ELSE [s EXCEPT !.skipped = IF OutOfDate(s, f) THEN @ \cup {f} ELSE @]
    IN  [changed EXCEPT
            !.fs = [g \in Filesets |-> [changed.fs[g] EXCEPT !.current = (g = f)]],
            !.reload_needed = FALSE,
            !.loaded = TRUE]

\* mtbl_fileset_reload() with n iterators
Reload(s, f, n, due, r) ==
    LET up == IF OutOfDate(s, f) THEN [ReinitMerger(s, f) EXCEPT !.fs[f].current = TRUE] ELSE s
    IN  IF (~up.reload_needed /\ (up.fs[f].never \/ ~due)) \/ Busy(n) THEN up
        ELSE ReloadNow(up, f, r)

-------------------------------------------------------------------------------

\* A setfile that is unchanged or unreadable, or what it lists
Outcomes ==
    {[read |-> FALSE, present |-> {}, broken |-> {}]} \cup
    {r \in [read : {TRUE}, present : SUBSET Files, broken : SUBSET Files] : r.broken \subseteq r.present}

\* The bound on readers: enough of them are unused to open every file.
ReadersLeft == ExistsInjection(Files, Unused(st))

LiveIters == {i \in Iters : iters[i].live}
NumIters == Cardinality(LiveIters)

\* n_iters when fileset_iter_free() has counted iterator i off
CountOff(S, i) == Cardinality(S \ {i})

Live(f) == st.fs[f].live /\ ~crashed

Init ==
    /\ \E never \in BOOLEAN :
        st = [entries |-> NoReaders, open |-> {}, reload_needed |-> TRUE, loaded |-> FALSE,
              fs |-> [f \in Filesets |-> IF f = First
                        THEN [Gone EXCEPT !.live = TRUE, !.current = TRUE, !.never = never]
                        ELSE Gone],
              skipped |-> {}]
    /\ iters = [i \in Iters |-> NoIter]
    /\ crashed = FALSE

\* mtbl_fileset_dup()
Dup(o, f, never) ==
    /\ Live(o) /\ ~st.fs[f].live
    /\ st' = [st EXCEPT !.fs[f] = [Gone EXCEPT !.live = TRUE, !.current = ~st.loaded, !.never = never]]
    /\ UNCHANGED <<iters, crashed>>

\* mtbl_fileset_destroy(), once the fileset has no iterators
Destroy(f) ==
    /\ Live(f)
    /\ \A i \in LiveIters : iters[i].of # f
    /\ LET s == [st EXCEPT !.fs[f] = Gone, !.skipped = @ \ {f}] IN
       st' = IF \E g \in Filesets \ {f} : st.fs[g].live THEN s
             ELSE [s EXCEPT !.open = @ \ Unloaded(s, {}), !.entries = NoReaders]
    /\ UNCHANGED <<iters, crashed>>

\* mtbl_fileset_reload()
ReloadCall(f, due, r) ==
    /\ Live(f)
    /\ st' = Reload(st, f, NumIters, due, r)
    /\ UNCHANGED <<iters, crashed>>

\* mtbl_fileset_reload_now(): with open iterators it is left to a later reload.
ReloadNowCall(f, r) ==
    /\ Live(f)
    /\ st' = IF Busy(NumIters) THEN [st EXCEPT !.reload_needed = TRUE]
             ELSE ReloadNow(st, f, r)
    /\ UNCHANGED <<iters, crashed>>

\* fileset_source_iter(), _get(), _get_prefix() and _get_range()
CreateIter(f, i, due, r) ==
    /\ Live(f) /\ ~iters[i].live
    /\ st' = Reload(st, f, NumIters, due, r)
    /\ iters' = [iters EXCEPT ![i] = [live |-> TRUE, of |-> f, sources |-> st'.fs[f].sources]]
    /\ UNCHANGED crashed

\* fileset_iter_free()
FreeIter(i, due, r) ==
    /\ iters[i].live /\ ~crashed
    /\ iters' = [iters EXCEPT ![i] = NoIter]
    /\ st' = Reload(st, iters[i].of, CountOff(LiveIters, i), due, r)
    /\ UNCHANGED crashed

\* mtbl_fileset_partition(): its mergers are the caller's.
Partition(f, due, r) ==
    /\ Live(f)
    /\ st' = Reload(st, f, NumIters, due, r)
    /\ crashed' = (Null \in Range(st'.entries))
    /\ UNCHANGED iters

Next ==
    \/ \E o \in Filesets, f \in Filesets, never \in BOOLEAN : Dup(o, f, never)
    \/ \E f \in Filesets : Destroy(f)
    \/ /\ ReadersLeft
       /\ \E r \in Outcomes :
            \/ \E f \in Filesets : ReloadNowCall(f, r)
            \/ \E due \in BOOLEAN :
                \/ \E f \in Filesets : ReloadCall(f, due, r) \/ Partition(f, due, r)
                \/ \E f \in Filesets, i \in Iters : CreateIter(f, i, due, r)
                \/ \E i \in Iters : FreeIter(i, due, r)

Spec == Init /\ [][Next]_vars

-------------------------------------------------------------------------------
(* Properties *)

\* The type invariant.
TypeOK ==
    /\ st \in State
    /\ crashed \in BOOLEAN
    /\ iters \in [Iters -> [live : BOOLEAN, of : Filesets, sources : SUBSET Ids]]

Wanted(f) == OpenReaders(st.entries, DOMAIN st.entries \cap FilterOf[f])

Fresh(f) == st.fs[f].live /\ st.fs[f].current => st.fs[f].sources = Wanted(f)

\* The merger of a fileset that is up to date is over the readers of the listed
\* files that pass its own filter, whichever fileset made the last reload; unless
\* mtbl_fileset_reload_now() skipped the merger of a fileset that was not.
MergerFresh == \A f \in Filesets \ st.skipped : Fresh(f)

\* Nothing is freed under an iterator: while it lives, the readers it is over are
\* open and are those its fileset asks for, although filesets that share them are
\* reloaded, duplicated and destroyed; and its fileset stays up to date, or else
\* mtbl_fileset_reload() would destroy the merger that it belongs to.  This leaves out
\* the filesets whose merger mtbl_fileset_reload_now() skipped, as MergerFresh does:
\* their iterators may be over readers that are closed.
IteratorsSafe ==
    \A i \in LiveIters :
        /\ st.fs[iters[i].of].current
        /\ iters[i].of \notin st.skipped =>
             iters[i].sources \subseteq st.open /\ iters[i].sources = Wanted(iters[i].of)

\* Every reader that is open belongs to exactly one entry of the shared fileset,
\* and every entry has an open reader or none: nothing leaks and nothing is
\* closed twice, and after the last fileset nothing is open.
ReadersOwned ==
    /\ st.open = OpenReaders(st.entries, DOMAIN st.entries)
    /\ \A f, g \in DOMAIN st.entries :
        f # g /\ st.entries[f] # Null => st.entries[f] # st.entries[g]
    /\ (\A f \in Filesets : ~st.fs[f].live) => st.open = {}

\* A reload that mtbl_fileset_reload_now() had to defer is made when the last
\* iterator is destroyed, even by filesets that are never to be reloaded.
DeferredReloadMade == st.loaded /\ LiveIters = {} => ~st.reload_needed

\* The comment in mtbl_fileset_reload(): "if our merger is from an out of date
\* fileset, reinitialize it".
UpToDateIsFresh == \A f \in Filesets : Fresh(f)

===============================================================================
