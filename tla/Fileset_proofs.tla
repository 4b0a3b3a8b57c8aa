---------------------------- MODULE Fileset_proofs ----------------------------
(***************************************************************************)
(* Proofs about Fileset, for any set of files, any number of filesets with *)
(* any filters, and any finite number of iterators.                        *)
(***************************************************************************)
EXTENDS Fileset, FiniteSetTheorems, TLAPS

-------------------------------------------------------------------------------
(* What the properties say of a state s of the filesets *)

WantedBy(s, f) == OpenReaders(s.entries, DOMAIN s.entries \cap FilterOf[f])

\* Every open reader has one entry, and every entry an open reader or none.
Owned(s) ==
    /\ s.open = OpenReaders(s.entries, DOMAIN s.entries)
    /\ \A f, g \in DOMAIN s.entries :
        f # g /\ s.entries[f] # Null => s.entries[f] # s.entries[g]

MergersFresh(s) ==
    \A f \in Filesets \ s.skipped :
        s.fs[f].live /\ s.fs[f].current => s.fs[f].sources = WantedBy(s, f)

\* Before the first reload there are no entries: mtbl_fileset_dup() makes a
\* fileset that is up to date and has no sources.
NotLoaded(s) == ~s.loaded => DOMAIN s.entries = {}

\* With the last fileset the entries are gone.
Closed(s) == (\A f \in Filesets : ~s.fs[f].live) => DOMAIN s.entries = {}

Good(s) == s \in State /\ Owned(s) /\ MergersFresh(s) /\ NotLoaded(s) /\ Closed(s)

-------------------------------------------------------------------------------
(* What a reload does to such a state *)

LEMMA EntriesType ==
    ASSUME NEW s \in State
    PROVE  /\ DOMAIN s.entries \subseteq Files
           /\ \A f \in DOMAIN s.entries : s.entries[f] \in Ids \cup {Null}
BY DEF State, Entries

LEMMA OpenReadersType ==
    ASSUME NEW s \in State, NEW S \in SUBSET DOMAIN s.entries
    PROVE  OpenReaders(s.entries, S) \in SUBSET Ids
BY EntriesType DEF OpenReaders

LEMMA SourcesType ==
    ASSUME NEW h \in [Filesets -> FilesetType], NEW f \in Filesets, NEW X \in SUBSET Ids
    PROVE  [h EXCEPT ![f].sources = X] \in [Filesets -> FilesetType]
<1>1. [h[f] EXCEPT !.sources = X] \in FilesetType
    BY DEF FilesetType
<1>2. QED
    BY <1>1

LEMMA CurrentType ==
    ASSUME NEW h \in [Filesets -> FilesetType], NEW f \in Filesets
    PROVE  [h EXCEPT ![f].current = TRUE] \in [Filesets -> FilesetType]
<1>1. [h[f] EXCEPT !.current = TRUE] \in FilesetType
    BY DEF FilesetType
<1>2. QED
    BY <1>1

\* fs_reinit_merger() changes the sources of one fileset.
LEMMA ReinitFields ==
    ASSUME NEW s \in State, NEW f \in Filesets
    PROVE  /\ ReinitMerger(s, f) \in State
           /\ ReinitMerger(s, f).entries = s.entries
           /\ ReinitMerger(s, f).open = s.open
           /\ ReinitMerger(s, f).loaded = s.loaded
           /\ ReinitMerger(s, f).reload_needed = s.reload_needed
           /\ ReinitMerger(s, f).skipped = s.skipped \ {f}
           /\ ReinitMerger(s, f).fs = [s.fs EXCEPT ![f].sources = WantedBy(s, f)]
<1>1. WantedBy(s, f) \in SUBSET Ids
    BY OpenReadersType DEF WantedBy
<1>2. ReinitMerger(s, f) = [s EXCEPT !.fs[f].sources = WantedBy(s, f), !.skipped = @ \ {f}]
    BY DEF ReinitMerger, WantedBy
<1>3. [s.fs EXCEPT ![f].sources = WantedBy(s, f)] \in [Filesets -> FilesetType]
    BY <1>1, SourcesType DEF State
<1>4. QED
    BY <1>2, <1>3 DEF State

\* A reader for each new file, which is nobody else's.
LEMMA NewReaders ==
    ASSUME NEW S \in SUBSET Files, NEW T, ExistsInjection(Files, T)
    PROVE  (CHOOSE g \in Injection(S, T) : TRUE) \in Injection(S, T)
<1>1. PICK h \in Injection(Files, T) : TRUE
    BY DEF ExistsInjection
<1>2. [x \in S |-> h[x]] \in Injection(S, T)
    BY <1>1 DEF Injection, IsInjective
<1>3. QED
    BY <1>2

\* my_fileset_reload() closes the readers of the files that are not listed any
\* more and opens those of the files that are new: no reader is lost or shared.
LEMMA ReadSetfileGood ==
    ASSUME NEW s \in State, Owned(s), NEW r \in Outcomes,
           ExistsInjection(Files, Unused(s))
    PROVE  /\ ReadSetfile(s, r) \in State
           /\ Owned(ReadSetfile(s, r))
           /\ ReadSetfile(s, r).fs = s.fs
           /\ ReadSetfile(s, r).skipped = s.skipped
<1> DEFINE new == r.present \ DOMAIN s.entries
           reader == CHOOSE g \in Injection(new \ r.broken, Unused(s)) : TRUE
           entries == [f \in r.present |->
                IF f \in DOMAIN s.entries THEN s.entries[f]
                ELSE IF f \in r.broken THEN Null ELSE reader[f]]
           open == (s.open \ Unloaded(s, r.present)) \cup Range(reader)
           t == ReadSetfile(s, r)
<1>1. r.present \in SUBSET Files
    <2>1. CASE r = [read |-> FALSE, present |-> {}, broken |-> {}]
        BY <2>1
    <2>2. CASE r \in [read : {TRUE}, present : SUBSET Files, broken : SUBSET Files]
        BY <2>2
    <2>3. QED
        BY <2>1, <2>2 DEF Outcomes
<1>2. reader \in Injection(new \ r.broken, Unused(s))
    BY <1>1, NewReaders
<1>3. t = [s EXCEPT !.entries = entries, !.open = open]
    BY DEF ReadSetfile
<1>4. Unused(s) \subseteq Ids /\ Unused(s) \cap s.open = {}
    BY DEF Unused
<1> HIDE DEF reader, entries, open
<1>5. /\ reader \in [new \ r.broken -> Unused(s)]
      /\ \A f, g \in new \ r.broken : reader[f] = reader[g] => f = g
    BY <1>2 DEF Injection, IsInjective
<1>6. Null \notin Ids
    BY FilesetAssumption DEF FilesetAssumption, Null
<1>7. \A f \in r.present : entries[f] \in Ids \cup {Null}
    BY <1>4, <1>5, EntriesType DEF entries
<1>8. DOMAIN entries = r.present /\ entries \in [r.present -> Ids \cup {Null}]
    BY <1>7 DEF entries
<1>9. entries \in Entries
    BY <1>1, <1>8 DEF Entries
<1>10. open = OpenReaders(entries, DOMAIN entries)
    <2> SUFFICES ASSUME NEW x PROVE x \in open <=> \E f \in r.present : entries[f] = x /\ x # Null
        BY <1>8 DEF OpenReaders
    <2>1. x \in Range(reader) <=> \E f \in new \ r.broken : reader[f] = x
        BY <1>5 DEF Range
    <2>2. x \in s.open <=> \E f \in DOMAIN s.entries : s.entries[f] = x /\ x # Null
        BY DEF Owned, OpenReaders
    <2>3. x \in Unloaded(s, r.present)
          <=> \E f \in DOMAIN s.entries \ r.present : s.entries[f] = x /\ x # Null
        BY DEF Unloaded, OpenReaders
    <2>4. ASSUME x \in open PROVE \E f \in r.present : entries[f] = x /\ x # Null
        BY <2>4, <2>1, <2>2, <2>3, <1>4, <1>5, <1>6 DEF open, entries
    <2>5. ASSUME NEW f \in r.present, entries[f] = x, x # Null PROVE x \in open
        <3>1. CASE f \in DOMAIN s.entries
            BY <3>1, <2>5, <2>2, <2>3 DEF Owned, open, entries
        <3>2. CASE f \notin DOMAIN s.entries
            BY <3>2, <2>5, <2>1 DEF open, entries
        <3>3. QED
            BY <3>1, <3>2
    <2>6. QED
        BY <2>4, <2>5
<1>11. \A f, g \in DOMAIN entries : f # g /\ entries[f] # Null => entries[f] # entries[g]
    <2> SUFFICES ASSUME NEW f \in r.present, NEW g \in r.present,
                        entries[f] = entries[g], entries[f] # Null
                 PROVE  f = g
        BY <1>8
    <2>1. \A h \in DOMAIN s.entries : s.entries[h] # Null => s.entries[h] \in s.open
        BY DEF Owned, OpenReaders
    <2>2. QED
        BY <2>1, <1>4, <1>5, <1>6 DEF Owned, entries
<1>12. open \in SUBSET Ids
    BY <1>4, <1>5 DEF State, Range, open
<1>13. /\ t.entries = entries /\ t.open = open /\ t.fs = s.fs /\ t.skipped = s.skipped
       /\ t \in State
    BY <1>3, <1>9, <1>12 DEF State
<1>14. QED
    BY <1>10, <1>11, <1>13 DEF Owned

\* The end of a reload: one fileset is up to date, and it alone.
LEMMA OnlyCurrentType ==
    ASSUME NEW h \in [Filesets -> FilesetType], NEW f \in Filesets
    PROVE  [g \in Filesets |-> [h[g] EXCEPT !.current = (g = f)]] \in [Filesets -> FilesetType]
BY DEF FilesetType

LEMMA ReloadNowGood ==
    ASSUME NEW s, Good(s), NEW f \in Filesets, s.fs[f].live, NEW r \in Outcomes,
           ExistsInjection(Files, Unused(s))
    PROVE  /\ Good(ReloadNow(s, f, r))
           /\ ~ReloadNow(s, f, r).reload_needed
           /\ ReloadNow(s, f, r).fs[f].current
           /\ \A g \in Filesets : ReloadNow(s, f, r).fs[g].live = s.fs[g].live
<1> DEFINE read == ReinitMerger(ReadSetfile(s, r), f)
           kept == [s EXCEPT !.skipped = IF OutOfDate(s, f) THEN @ \cup {f} ELSE @]
           changed == IF Changes(s, r) THEN read ELSE kept
           fs == [g \in Filesets |-> [changed.fs[g] EXCEPT !.current = (g = f)]]
           t == ReloadNow(s, f, r)
<1>1. s \in State
    BY DEF Good
<1>2. t = [changed EXCEPT !.fs = fs, !.reload_needed = FALSE, !.loaded = TRUE]
    BY DEF ReloadNow
<1>3. /\ changed \in State
      /\ Owned(changed)
      /\ \A g \in Filesets : changed.fs[g].live = s.fs[g].live
      /\ f \notin changed.skipped => changed.fs[f].sources = WantedBy(changed, f)
    <2>1. CASE Changes(s, r)
        <3>1. ReadSetfile(s, r) \in State /\ Owned(ReadSetfile(s, r)) /\ ReadSetfile(s, r).fs = s.fs
            BY <1>1, ReadSetfileGood DEF Good
        <3>2. /\ read \in State
              /\ read.entries = ReadSetfile(s, r).entries
              /\ read.open = ReadSetfile(s, r).open
              /\ read.fs = [s.fs EXCEPT ![f].sources = WantedBy(ReadSetfile(s, r), f)]
            BY <3>1, ReinitFields
        <3>3. s.fs \in [Filesets -> FilesetType]
            BY <1>1 DEF State
        <3>4. /\ read.fs[f].sources = WantedBy(read, f)
              /\ \A g \in Filesets : read.fs[g].live = s.fs[g].live
            BY <3>2, <3>3 DEF WantedBy, FilesetType
        <3>5. Owned(read)
            BY <3>1, <3>2 DEF Owned
        <3>6. QED
            BY <2>1, <3>2, <3>4, <3>5
    <2>2. CASE ~Changes(s, r)
        <3>1. /\ kept \in State
              /\ kept.entries = s.entries /\ kept.open = s.open /\ kept.fs = s.fs
              /\ kept.skipped = IF OutOfDate(s, f) THEN s.skipped \cup {f} ELSE s.skipped
            BY <1>1 DEF State
        <3>2. f \notin kept.skipped => kept.fs[f].sources = WantedBy(kept, f)
            BY <3>1 DEF OutOfDate, Good, MergersFresh, WantedBy
        <3>3. Owned(kept)
            BY <3>1 DEF Owned, Good
        <3>4. QED
            BY <2>2, <3>1, <3>2, <3>3
    <2>3. QED
        BY <2>1, <2>2
<1> HIDE DEF changed
<1>4. changed.fs \in [Filesets -> FilesetType]
    BY <1>3 DEF State
<1>5. fs \in [Filesets -> FilesetType]
    BY <1>4, OnlyCurrentType
<1>6. \A g \in Filesets : /\ fs[g].live = changed.fs[g].live
                          /\ fs[g].sources = changed.fs[g].sources
                          /\ fs[g].current = (g = f)
    <2> TAKE g \in Filesets
    <2>1. changed.fs[g] \in FilesetType
        BY <1>4
    <2>2. fs[g] = [changed.fs[g] EXCEPT !.current = (g = f)]
        OBVIOUS
    <2> HIDE DEF fs
    <2>3. QED
        BY <2>1, <2>2 DEF FilesetType
<1> HIDE DEF fs
<1>7. /\ t \in State
      /\ t.entries = changed.entries /\ t.open = changed.open /\ t.skipped = changed.skipped
      /\ t.fs = fs /\ t.reload_needed = FALSE /\ t.loaded = TRUE
    BY <1>2, <1>3, <1>5 DEF State
<1>8. Owned(t)
    BY <1>3, <1>7 DEF Owned
<1>9. MergersFresh(t)
    BY <1>3, <1>6, <1>7 DEF MergersFresh, WantedBy
<1>10. NotLoaded(t) /\ Closed(t)
    BY <1>3, <1>6, <1>7 DEF NotLoaded, Closed
<1>11. QED
    BY <1>3, <1>6, <1>7, <1>8, <1>9, <1>10 DEF Good

\* mtbl_fileset_reload(): with iterators it changes nothing but a merger that is
\* out of date; without, no reload stays due that had been deferred.
LEMMA ReloadGood ==
    ASSUME NEW s, Good(s), NEW f \in Filesets, s.fs[f].live, NEW n \in Nat,
           NEW due \in BOOLEAN, NEW r \in Outcomes, ExistsInjection(Files, Unused(s))
    PROVE  /\ Good(Reload(s, f, n, due, r))
           /\ Reload(s, f, n, due, r).fs[f].current
           /\ \A g \in Filesets : Reload(s, f, n, due, r).fs[g].live = s.fs[g].live
           /\ n = 0 => ~Reload(s, f, n, due, r).reload_needed
           /\ n > 0 => /\ Reload(s, f, n, due, r).entries = s.entries
                       /\ Reload(s, f, n, due, r).open = s.open
                       /\ \A g \in Filesets :
                            s.fs[g].current =>
                                /\ Reload(s, f, n, due, r).fs[g].current
                                /\ g \in s.skipped => g \in Reload(s, f, n, due, r).skipped
<1> DEFINE re == ReinitMerger(s, f)
           up == IF OutOfDate(s, f) THEN [re EXCEPT !.fs[f].current = TRUE] ELSE s
           t == Reload(s, f, n, due, r)
<1>1. s \in State /\ s.fs \in [Filesets -> FilesetType]
    BY DEF Good, State
<1>2. /\ Good(up)
      /\ up.entries = s.entries /\ up.open = s.open
      /\ up.fs[f].current /\ up.fs[f].live
      /\ \A g \in Filesets :
            /\ up.fs[g].live = s.fs[g].live
            /\ s.fs[g].current => up.fs[g].current /\ (g \in s.skipped => g \in up.skipped)
      /\ ExistsInjection(Files, Unused(up))
    <2>1. CASE ~OutOfDate(s, f)
        BY <2>1, <1>1 DEF OutOfDate, FilesetType
    <2>2. CASE OutOfDate(s, f)
        <3>1. /\ re \in State /\ re.entries = s.entries /\ re.open = s.open
              /\ re.loaded = s.loaded /\ re.skipped = s.skipped \ {f}
              /\ re.fs = [s.fs EXCEPT ![f].sources = WantedBy(s, f)]
            BY <1>1, ReinitFields
        <3>2. up = [re EXCEPT !.fs[f].current = TRUE]
            BY <2>2
        <3> HIDE DEF re, up
        <3>3. /\ [re.fs EXCEPT ![f].current = TRUE] \in [Filesets -> FilesetType]
              /\ re.fs \in [Filesets -> FilesetType]
            BY <3>1, CurrentType DEF State
        <3>4. /\ up \in State /\ up.entries = s.entries /\ up.open = s.open
              /\ up.loaded = s.loaded /\ up.skipped = s.skipped \ {f}
              /\ up.fs = [re.fs EXCEPT ![f].current = TRUE]
            BY <3>1, <3>2, <3>3 DEF State
        <3>5. /\ \A g \in Filesets \ {f} : up.fs[g] = s.fs[g]
              /\ up.fs[f].sources = WantedBy(s, f) /\ up.fs[f].current
              /\ up.fs[f].live = s.fs[f].live
            <4>1. WantedBy(s, f) \in SUBSET Ids
                BY <1>1, OpenReadersType DEF WantedBy
            <4>2. /\ re.fs[f].sources = WantedBy(s, f) /\ re.fs[f].live = s.fs[f].live
                  /\ \A g \in Filesets \ {f} : re.fs[g] = s.fs[g]
                <5>1. s.fs[f] \in FilesetType
                    BY <1>1
                <5>2. /\ re.fs[f] = [s.fs[f] EXCEPT !.sources = WantedBy(s, f)]
                      /\ \A g \in Filesets \ {f} : re.fs[g] = s.fs[g]
                    BY <3>1, <1>1
                <5>3. QED
                    BY <5>1, <5>2 DEF FilesetType
            <4>3. /\ up.fs[f] = [re.fs[f] EXCEPT !.current = TRUE]
                  /\ \A g \in Filesets \ {f} : up.fs[g] = re.fs[g]
                BY <3>3, <3>4
            <4>4. re.fs[f] \in FilesetType
                BY <3>3
            <4>5. QED
                BY <4>2, <4>3, <4>4 DEF FilesetType
        <3>6. Owned(up) /\ NotLoaded(up)
            BY <3>4 DEF Good, Owned, NotLoaded
        <3>7. Closed(up)
            BY <3>5 DEF Closed
        <3>8. MergersFresh(up)
            BY <3>4, <3>5 DEF Good, MergersFresh, WantedBy
        <3>9. Good(up)
            BY <3>4, <3>6, <3>7, <3>8 DEF Good
        <3>10. Unused(s) \subseteq Unused(up)
            <4>1. up.fs[f].sources \subseteq s.open
                BY <3>5 DEF Good, Owned, WantedBy, OpenReaders
            <4>2. QED
                BY <4>1, <3>4, <3>5 DEF Unused
        <3>11. ExistsInjection(Files, Unused(up))
            BY <3>10 DEF ExistsInjection, Injection
        <3>12. QED
            BY <2>2, <3>4, <3>5, <3>9, <3>11 DEF OutOfDate
    <2>3. QED
        BY <2>1, <2>2
<1>3. t = IF (~up.reload_needed /\ (up.fs[f].never \/ ~due)) \/ Busy(n) THEN up
          ELSE ReloadNow(up, f, r)
    BY DEF Reload
<1> HIDE DEF up, t
<1>4. /\ Good(ReloadNow(up, f, r))
      /\ ~ReloadNow(up, f, r).reload_needed
      /\ ReloadNow(up, f, r).fs[f].current
      /\ \A g \in Filesets : ReloadNow(up, f, r).fs[g].live = up.fs[g].live
    BY <1>2, ReloadNowGood
<1>5. Good(t) /\ t.fs[f].current /\ \A g \in Filesets : t.fs[g].live = s.fs[g].live
    BY <1>2, <1>3, <1>4
<1>6. n = 0 => ~t.reload_needed
    BY <1>3, <1>4 DEF Busy
<1>7. n > 0 => t = up
    BY <1>3 DEF Busy
<1>8. QED
    BY <1>2, <1>5, <1>6, <1>7 DEF t

-------------------------------------------------------------------------------
(* The inductive invariant *)

ItersType == iters \in [Iters -> [live : BOOLEAN, of : Filesets, sources : SUBSET Ids]]

\* An iterator belongs to a fileset that exists and is up to date, and is over
\* the readers that it wants.
ItersGood ==
    \A i \in LiveIters :
        /\ st.fs[iters[i].of].live
        /\ st.fs[iters[i].of].current
        /\ iters[i].of \notin st.skipped => iters[i].sources = WantedBy(st, iters[i].of)

Inv == Good(st) /\ crashed \in BOOLEAN /\ ItersType /\ ItersGood /\ DeferredReloadMade

LEMMA Counting ==
    ASSUME NEW S \in SUBSET Iters
    PROVE  Cardinality(S) \in Nat /\ (Cardinality(S) > 0 <=> S # {})
<1>1. IsFiniteSet(S)
    BY FS_Subset, FilesetAssumption DEF FilesetAssumption
<1>2. QED
    BY <1>1, FS_CardinalityType, FS_EmptySet

LEMMA InvImplies ==
    ASSUME Inv
    PROVE  TypeOK /\ MergerFresh /\ IteratorsSafe /\ ReadersOwned /\ DeferredReloadMade
<1>1. TypeOK
    BY DEF Inv, Good, ItersType, TypeOK
<1>2. MergerFresh
    BY DEF Inv, Good, MergersFresh, MergerFresh, Fresh, Wanted, WantedBy
<1>3. ReadersOwned
    <2>1. (\A f \in Filesets : ~st.fs[f].live) => st.open = {}
        BY DEF Inv, Good, Closed, Owned, OpenReaders
    <2>2. QED
        BY <2>1 DEF Inv, Good, Owned, ReadersOwned
<1>4. IteratorsSafe
    <2>1. \A f \in Filesets : WantedBy(st, f) \subseteq st.open /\ WantedBy(st, f) = Wanted(f)
        BY DEF Inv, Good, Owned, WantedBy, Wanted, OpenReaders
    <2>2. \A i \in LiveIters : iters[i].of \in Filesets
        BY DEF Inv, ItersType, LiveIters
    <2>3. QED
        BY <2>1, <2>2 DEF Inv, ItersGood, IteratorsSafe
<1>5. QED
    BY <1>1, <1>2, <1>3, <1>4 DEF Inv

LEMMA InvInit == Init => Inv
<1> SUFFICES ASSUME Init PROVE Inv
    OBVIOUS
<1>1. PICK never \in BOOLEAN :
        st = [entries |-> NoReaders, open |-> {}, reload_needed |-> TRUE, loaded |-> FALSE,
              fs |-> [f \in Filesets |-> IF f = First
                        THEN [Gone EXCEPT !.live = TRUE, !.current = TRUE, !.never = never]
                        ELSE Gone],
              skipped |-> {}]
    BY DEF Init
<1>2. LiveIters = {} /\ ItersType /\ crashed \in BOOLEAN
    BY FilesetAssumption DEF Init, NoIter, LiveIters, ItersType, FilesetAssumption
<1>3. /\ Gone \in FilesetType
      /\ [Gone EXCEPT !.live = TRUE, !.current = TRUE, !.never = never] \in FilesetType
      /\ [Gone EXCEPT !.live = TRUE, !.current = TRUE, !.never = never].sources = {}
    BY DEF Gone, FilesetType
<1>4. NoReaders \in [{} -> Ids \cup {Null}] /\ DOMAIN NoReaders = {}
    BY DEF NoReaders
<1>5. NoReaders \in Entries
    BY <1>4 DEF Entries
<1>6. st \in State
    BY <1>1, <1>3, <1>5 DEF State
<1>7. Owned(st) /\ NotLoaded(st) /\ Closed(st)
    BY <1>1, <1>4 DEF Owned, NotLoaded, Closed, OpenReaders
<1>8. MergersFresh(st)
    <2>1. \A f \in Filesets : st.fs[f].sources = {}
        BY <1>1, <1>3 DEF Gone
    <2>2. \A f \in Filesets : WantedBy(st, f) = {}
        BY <1>1, <1>4 DEF WantedBy, OpenReaders
    <2>3. QED
        BY <2>1, <2>2 DEF MergersFresh
<1>9. QED
    BY <1>1, <1>2, <1>6, <1>7, <1>8 DEF Inv, Good, ItersGood, DeferredReloadMade

\* What a reload with n iterators leaves of the invariant, whatever iterators
\* there are before and after it.
LEMMA ReloadStep ==
    ASSUME Inv, ReadersLeft, NEW f \in Filesets, st.fs[f].live, NEW n \in Nat,
           NEW due \in BOOLEAN, NEW r \in Outcomes, st' = Reload(st, f, n, due, r)
    PROVE  /\ Good(st')
           /\ st'.fs[f].live /\ st'.fs[f].current
           /\ f \notin st'.skipped => st'.fs[f].sources = WantedBy(st', f)
           /\ n = 0 => ~st'.reload_needed
           /\ n > 0 => \A i \in LiveIters :
                /\ st'.fs[iters[i].of].live
                /\ st'.fs[iters[i].of].current
                /\ iters[i].of \notin st'.skipped => iters[i].sources = WantedBy(st', iters[i].of)
<1>1. /\ Good(st')
      /\ st'.fs[f].current
      /\ \A g \in Filesets : st'.fs[g].live = st.fs[g].live
      /\ n = 0 => ~st'.reload_needed
      /\ n > 0 => /\ st'.entries = st.entries
                  /\ \A g \in Filesets :
                        st.fs[g].current => st'.fs[g].current /\ (g \in st.skipped => g \in st'.skipped)
    BY ReloadGood DEF Inv, ReadersLeft
<1>2. f \notin st'.skipped => st'.fs[f].sources = WantedBy(st', f)
    BY <1>1 DEF Good, MergersFresh
<1>3. ASSUME n > 0, NEW i \in LiveIters
      PROVE  /\ st'.fs[iters[i].of].live
             /\ st'.fs[iters[i].of].current
             /\ iters[i].of \notin st'.skipped => iters[i].sources = WantedBy(st', iters[i].of)
    <2>1. iters[i].of \in Filesets
        BY DEF Inv, ItersType, LiveIters
    <2>2. \A g \in Filesets : WantedBy(st', g) = WantedBy(st, g)
        BY <1>1, <1>3 DEF WantedBy
    <2>3. QED
        BY <1>1, <1>3, <2>1, <2>2 DEF Inv, ItersGood
<1>4. QED
    BY <1>1, <1>2, <1>3

LEMMA ReloadCallStep ==
    ASSUME Inv, ReadersLeft, NEW f \in Filesets, NEW due \in BOOLEAN, NEW r \in Outcomes,
           ReloadCall(f, due, r) \/ Partition(f, due, r)
    PROVE  Inv'
<1>1. /\ st.fs[f].live
      /\ st' = Reload(st, f, NumIters, due, r)
      /\ iters' = iters
    BY DEF ReloadCall, Partition, Live
<1>2. crashed' \in BOOLEAN
    <2>1. (Null \in Range(st'.entries)) \in BOOLEAN
        OBVIOUS
    <2>2. CASE ReloadCall(f, due, r)
        BY <2>2 DEF ReloadCall, Inv
    <2>3. CASE Partition(f, due, r)
        BY <2>1, <2>3 DEF Partition
    <2>4. QED
        BY <2>2, <2>3
<1>3. NumIters \in Nat /\ (NumIters > 0 <=> LiveIters # {})
    BY Counting DEF NumIters, LiveIters
<1>4. LiveIters' = LiveIters
    BY <1>1 DEF LiveIters
<1>5. /\ Good(st')
      /\ NumIters = 0 => ~st'.reload_needed
      /\ NumIters > 0 => \A i \in LiveIters :
            /\ st'.fs[iters[i].of].live
            /\ st'.fs[iters[i].of].current
            /\ iters[i].of \notin st'.skipped => iters[i].sources = WantedBy(st', iters[i].of)
    BY <1>1, <1>3, ReloadStep
<1>6. ItersGood'
    BY <1>1, <1>3, <1>4, <1>5 DEF ItersGood
<1>7. DeferredReloadMade'
    BY <1>3, <1>4, <1>5 DEF DeferredReloadMade
<1>8. QED
    BY <1>1, <1>2, <1>5, <1>6, <1>7 DEF Inv, ItersType

LEMMA ReloadNowCallStep ==
    ASSUME Inv, ReadersLeft, NEW f \in Filesets, NEW r \in Outcomes, ReloadNowCall(f, r)
    PROVE  Inv'
<1>1. st.fs[f].live /\ iters' = iters /\ crashed' = crashed
    BY DEF ReloadNowCall, Live
<1>2. NumIters \in Nat /\ (NumIters > 0 <=> LiveIters # {})
    BY Counting DEF NumIters, LiveIters
<1>3. LiveIters' = LiveIters /\ ItersType'
    BY <1>1 DEF LiveIters, Inv, ItersType
<1>4. CASE LiveIters # {}
    <2>1. st' = [st EXCEPT !.reload_needed = TRUE]
        BY <1>2, <1>4 DEF ReloadNowCall, Busy
    <2>2. /\ st' \in State
          /\ st'.entries = st.entries /\ st'.open = st.open /\ st'.fs = st.fs
          /\ st'.skipped = st.skipped /\ st'.loaded = st.loaded
        BY <2>1 DEF Inv, Good, State
    <2>3. Good(st')
        BY <2>2 DEF Inv, Good, Owned, MergersFresh, WantedBy, NotLoaded, Closed
    <2>4. ItersGood'
        BY <1>1, <1>3, <2>2 DEF Inv, ItersGood, WantedBy
    <2>5. QED
        BY <1>1, <1>3, <1>4, <2>3, <2>4 DEF Inv, DeferredReloadMade
<1>5. CASE LiveIters = {}
    <2>1. st' = ReloadNow(st, f, r)
        BY <1>2, <1>5 DEF ReloadNowCall, Busy
    <2>2. Good(st') /\ ~st'.reload_needed
        BY <1>1, <2>1, ReloadNowGood DEF Inv, ReadersLeft
    <2>3. QED
        BY <1>1, <1>3, <1>5, <2>2 DEF Inv, ItersGood, DeferredReloadMade
<1>6. QED
    BY <1>4, <1>5

LEMMA CreateIterStep ==
    ASSUME Inv, ReadersLeft, NEW f \in Filesets, NEW i \in Iters, NEW due \in BOOLEAN,
           NEW r \in Outcomes, CreateIter(f, i, due, r)
    PROVE  Inv'
<1> DEFINE it == [live |-> TRUE, of |-> f, sources |-> st'.fs[f].sources]
<1>1. /\ st.fs[f].live
      /\ st' = Reload(st, f, NumIters, due, r)
      /\ iters' = [iters EXCEPT ![i] = it]
      /\ crashed' = crashed
    BY DEF CreateIter, Live
<1>2. NumIters \in Nat /\ (NumIters > 0 <=> LiveIters # {})
    BY Counting DEF NumIters, LiveIters
<1>3. /\ Good(st')
      /\ st'.fs[f].live /\ st'.fs[f].current
      /\ f \notin st'.skipped => st'.fs[f].sources = WantedBy(st', f)
      /\ NumIters > 0 => \A j \in LiveIters :
            /\ st'.fs[iters[j].of].live
            /\ st'.fs[iters[j].of].current
            /\ iters[j].of \notin st'.skipped => iters[j].sources = WantedBy(st', iters[j].of)
    BY <1>1, <1>2, ReloadStep
<1>4. st'.fs[f].sources \in SUBSET Ids
    BY <1>3 DEF Good, State, FilesetType
<1>5. ItersType'
    BY <1>1, <1>4 DEF Inv, ItersType
<1>6. /\ iters'[i] = it
      /\ \A j \in Iters \ {i} : iters'[j] = iters[j]
    BY <1>1 DEF Inv, ItersType
<1>7. LiveIters' = LiveIters \cup {i}
    BY <1>6 DEF LiveIters
<1>8. ItersGood'
    BY <1>2, <1>3, <1>6, <1>7 DEF ItersGood, LiveIters
<1>9. DeferredReloadMade'
    BY <1>7 DEF DeferredReloadMade
<1>10. QED
    BY <1>1, <1>3, <1>5, <1>8, <1>9 DEF Inv

LEMMA FreeIterStep ==
    ASSUME Inv, ReadersLeft, NEW i \in Iters, NEW due \in BOOLEAN,
           NEW r \in Outcomes, FreeIter(i, due, r)
    PROVE  Inv'
<1> DEFINE f == iters[i].of
           n == CountOff(LiveIters, i)
<1>1. /\ iters[i].live
      /\ iters' = [iters EXCEPT ![i] = NoIter]
      /\ st' = Reload(st, f, n, due, r)
      /\ crashed' = crashed
    BY DEF FreeIter
<1>2. i \in LiveIters
    BY <1>1 DEF LiveIters
<1>3. f \in Filesets /\ st.fs[f].live
    BY <1>2 DEF Inv, ItersGood, ItersType
<1>4. NoIter \in [live : BOOLEAN, of : Filesets, sources : SUBSET Ids] /\ ~NoIter.live
    BY FilesetAssumption DEF NoIter, FilesetAssumption
<1>5. ItersType'
    BY <1>1, <1>4 DEF Inv, ItersType
<1>6. /\ iters'[i] = NoIter
      /\ \A j \in Iters \ {i} : iters'[j] = iters[j]
    BY <1>1 DEF Inv, ItersType
<1>7. LiveIters' = LiveIters \ {i}
    BY <1>4, <1>6 DEF LiveIters
<1>8. n \in Nat /\ (n > 0 <=> LiveIters' # {})
    BY <1>7, Counting DEF CountOff, LiveIters
<1>9. /\ Good(st')
      /\ n = 0 => ~st'.reload_needed
      /\ n > 0 => \A j \in LiveIters :
            /\ st'.fs[iters[j].of].live
            /\ st'.fs[iters[j].of].current
            /\ iters[j].of \notin st'.skipped => iters[j].sources = WantedBy(st', iters[j].of)
    BY <1>1, <1>3, <1>8, ReloadStep
<1>10. ItersGood'
    BY <1>6, <1>7, <1>8, <1>9 DEF ItersGood, LiveIters
<1>11. DeferredReloadMade'
    BY <1>8, <1>9 DEF DeferredReloadMade
<1>12. QED
    BY <1>1, <1>5, <1>9, <1>10, <1>11 DEF Inv

LEMMA DupStep ==
    ASSUME Inv, NEW o \in Filesets, NEW f \in Filesets, NEW never \in BOOLEAN, Dup(o, f, never)
    PROVE  Inv'
<1> DEFINE made == [Gone EXCEPT !.live = TRUE, !.current = ~st.loaded, !.never = never]
<1>1. /\ st.fs[o].live /\ ~st.fs[f].live
      /\ st' = [st EXCEPT !.fs[f] = made]
      /\ iters' = iters /\ crashed' = crashed
    BY DEF Dup, Live
<1>2. st \in State
    BY DEF Inv, Good
<1>3. /\ made \in FilesetType
      /\ made.sources = {} /\ made.live /\ (made.current <=> ~st.loaded)
    <2>1. st.loaded \in BOOLEAN
        BY <1>2 DEF State
    <2>2. (~st.loaded) \in BOOLEAN
        OBVIOUS
    <2>3. QED
        BY <2>2 DEF Gone, FilesetType
<1> HIDE DEF made
<1>4. /\ st' \in State
      /\ st'.entries = st.entries /\ st'.open = st.open /\ st'.skipped = st.skipped
      /\ st'.loaded = st.loaded /\ st'.reload_needed = st.reload_needed
      /\ st'.fs[f] = made
      /\ \A g \in Filesets \ {f} : st'.fs[g] = st.fs[g]
    BY <1>1, <1>2, <1>3 DEF State
<1>5. Owned(st') /\ NotLoaded(st')
    BY <1>4 DEF Inv, Good, Owned, NotLoaded
<1>6. Closed(st')
    BY <1>3, <1>4 DEF Closed
<1>7. MergersFresh(st')
    <2>1. ~st.loaded => WantedBy(st', f) = {}
        BY <1>4 DEF Inv, Good, NotLoaded, WantedBy, OpenReaders
    <2>2. QED
        BY <1>3, <1>4, <2>1 DEF Inv, Good, MergersFresh, WantedBy
<1>8. LiveIters' = LiveIters /\ ItersType'
    BY <1>1 DEF LiveIters, Inv, ItersType
<1>9. ItersGood'
    <2>1. \A i \in LiveIters : iters[i].of \in Filesets \ {f}
        BY <1>1 DEF Inv, ItersGood, ItersType, LiveIters
    <2>2. \A g \in Filesets : WantedBy(st', g) = WantedBy(st, g)
        BY <1>4 DEF WantedBy
    <2>3. ASSUME NEW i \in LiveIters
          PROVE  /\ st'.fs[iters[i].of].live
                 /\ st'.fs[iters[i].of].current
                 /\ iters[i].of \notin st'.skipped => iters[i].sources = WantedBy(st', iters[i].of)
        BY <1>4, <2>1, <2>2 DEF Inv, ItersGood
    <2>4. QED
        BY <1>1, <1>8, <2>3 DEF ItersGood
<1>10. DeferredReloadMade'
    BY <1>4, <1>8 DEF Inv, DeferredReloadMade
<1>11. QED
    BY <1>1, <1>4, <1>5, <1>6, <1>7, <1>8, <1>9, <1>10 DEF Inv, Good

LEMMA DestroyStep ==
    ASSUME Inv, NEW f \in Filesets, Destroy(f)
    PROVE  Inv'
<1> DEFINE s == [st EXCEPT !.fs[f] = Gone, !.skipped = @ \ {f}]
           others == \E g \in Filesets \ {f} : st.fs[g].live
<1>1. /\ \A i \in LiveIters : iters[i].of # f
      /\ st' = IF others THEN s ELSE [s EXCEPT !.open = @ \ Unloaded(s, {}), !.entries = NoReaders]
      /\ iters' = iters /\ crashed' = crashed
    BY DEF Destroy
<1>2. st \in State
    BY DEF Inv, Good
<1>3. Gone \in FilesetType /\ ~Gone.live
    BY DEF Gone, FilesetType
<1>4. /\ s \in State
      /\ s.entries = st.entries /\ s.open = st.open /\ s.skipped = st.skipped \ {f}
      /\ s.loaded = st.loaded /\ s.reload_needed = st.reload_needed
      /\ s.fs[f] = Gone
      /\ \A g \in Filesets \ {f} : s.fs[g] = st.fs[g]
    BY <1>2, <1>3 DEF State
<1>5. LiveIters' = LiveIters /\ ItersType'
    BY <1>1 DEF LiveIters, Inv, ItersType
<1>6. \A i \in LiveIters : iters[i].of \in Filesets \ {f}
    BY <1>1 DEF Inv, ItersType, LiveIters
<1> HIDE DEF s
<1>7. CASE others
    <2>1. st' = s
        BY <1>1, <1>7
    <2>2. Owned(st') /\ NotLoaded(st')
        BY <1>4, <2>1 DEF Inv, Good, Owned, NotLoaded
    <2>3. Closed(st')
        BY <1>4, <1>7, <2>1 DEF Closed
    <2>4. MergersFresh(st')
        BY <1>3, <1>4, <2>1 DEF Inv, Good, MergersFresh, WantedBy
    <2>5. ItersGood'
        <3>1. \A g \in Filesets : WantedBy(st', g) = WantedBy(st, g)
            BY <1>4, <2>1 DEF WantedBy
        <3>2. ASSUME NEW i \in LiveIters
              PROVE  /\ st'.fs[iters[i].of].live
                     /\ st'.fs[iters[i].of].current
                     /\ iters[i].of \notin st'.skipped => iters[i].sources = WantedBy(st', iters[i].of)
            BY <1>4, <1>6, <2>1, <3>1 DEF Inv, ItersGood
        <3>3. QED
            BY <1>1, <1>5, <3>2 DEF ItersGood
    <2>6. DeferredReloadMade'
        BY <1>4, <1>5, <2>1 DEF Inv, DeferredReloadMade
    <2>7. QED
        BY <1>1, <1>4, <1>5, <2>1, <2>2, <2>3, <2>4, <2>5, <2>6 DEF Inv, Good
<1>8. CASE ~others
    <2>1. NoReaders \in Entries /\ DOMAIN NoReaders = {}
        <3>1. NoReaders \in [{} -> Ids \cup {Null}] /\ DOMAIN NoReaders = {}
            BY DEF NoReaders
        <3>2. QED
            BY <3>1 DEF Entries
    <2>2. st' = [s EXCEPT !.open = @ \ Unloaded(s, {}), !.entries = NoReaders]
        BY <1>1, <1>8
    <2>3. /\ st' \in State
          /\ st'.entries = NoReaders /\ st'.open = s.open \ Unloaded(s, {})
          /\ st'.fs = s.fs /\ st'.loaded = s.loaded /\ st'.reload_needed = s.reload_needed
        BY <1>4, <2>1, <2>2 DEF State
    <2>4. st'.open = {}
        BY <1>4, <2>3 DEF Inv, Good, Owned, Unloaded, OpenReaders
    <2>5. Owned(st') /\ NotLoaded(st') /\ Closed(st')
        BY <2>1, <2>3, <2>4 DEF Owned, NotLoaded, Closed, OpenReaders
    <2>6. \A g \in Filesets : ~st'.fs[g].live
        BY <1>3, <1>4, <1>8, <2>3
    <2>7. MergersFresh(st')
        BY <2>6 DEF MergersFresh
    <2>8. LiveIters = {}
        BY <1>6, <1>8 DEF Inv, ItersGood
    <2>9. ItersGood'
        BY <1>5, <2>8 DEF ItersGood
    <2>10. DeferredReloadMade'
        BY <1>4, <1>5, <2>3 DEF Inv, DeferredReloadMade
    <2>11. QED
        BY <1>1, <1>5, <2>3, <2>5, <2>7, <2>9, <2>10 DEF Inv, Good
<1>9. QED
    BY <1>7, <1>8

LEMMA InvStep == Inv /\ [Next]_vars => Inv'
<1> SUFFICES ASSUME Inv, [Next]_vars PROVE Inv'
    OBVIOUS
<1>1. CASE \E o \in Filesets, f \in Filesets, never \in BOOLEAN : Dup(o, f, never)
    BY <1>1, DupStep
<1>2. CASE \E f \in Filesets : Destroy(f)
    BY <1>2, DestroyStep
<1>3. ASSUME ReadersLeft, NEW r \in Outcomes, NEW f \in Filesets, ReloadNowCall(f, r) PROVE Inv'
    BY <1>3, ReloadNowCallStep
<1>4. ASSUME ReadersLeft, NEW r \in Outcomes, NEW due \in BOOLEAN, NEW f \in Filesets,
             ReloadCall(f, due, r) \/ Partition(f, due, r)
      PROVE  Inv'
    BY <1>4, ReloadCallStep
<1>5. ASSUME ReadersLeft, NEW r \in Outcomes, NEW due \in BOOLEAN, NEW f \in Filesets,
             NEW i \in Iters, CreateIter(f, i, due, r)
      PROVE  Inv'
    BY <1>5, CreateIterStep
<1>6. ASSUME ReadersLeft, NEW r \in Outcomes, NEW due \in BOOLEAN, NEW i \in Iters,
             FreeIter(i, due, r)
      PROVE  Inv'
    BY <1>6, FreeIterStep
<1>7. CASE UNCHANGED vars
    <2>1. st' = st /\ iters' = iters /\ crashed' = crashed
        BY <1>7 DEF vars
    <2>2. LiveIters' = LiveIters
        BY <2>1 DEF LiveIters
    <2>3. QED
        BY <2>1, <2>2 DEF Inv, ItersType, ItersGood, DeferredReloadMade, Good, Owned, MergersFresh,
                          NotLoaded, Closed, WantedBy
<1>8. QED
    BY <1>1, <1>2, <1>3, <1>4, <1>5, <1>6, <1>7 DEF Next

-------------------------------------------------------------------------------
(* Theorems *)

LEMMA InvHolds == Spec => []Inv
BY InvInit, InvStep, PTL DEF Spec

\* The state of fileset.c and my_fileset.c keeps its type.
THEOREM TypeCorrect == Spec => []TypeOK
<1>1. Inv => TypeOK
    BY InvImplies
<1>2. QED
    BY <1>1, InvHolds, PTL

\* The merger of a fileset that is up to date is over the readers that it should
\* be over (fs_reinit_merger(), mtbl_fileset_reload()).
THEOREM MergersAreFresh == Spec => []MergerFresh
<1>1. Inv => MergerFresh
    BY InvImplies
<1>2. QED
    BY <1>1, InvHolds, PTL

\* Nothing is freed under an iterator: n_iters of the shared fileset defers every
\* reload (mtbl_fileset_reload(), fileset_iter_free()).
THEOREM IteratorsAreSafe == Spec => []IteratorsSafe
<1>1. Inv => IteratorsSafe
    BY InvImplies
<1>2. QED
    BY <1>1, InvHolds, PTL

\* No reader leaks and none is closed twice (my_fileset_reload(),
\* my_fileset_destroy()).
THEOREM ReadersAreOwned == Spec => []ReadersOwned
<1>1. Inv => ReadersOwned
    BY InvImplies
<1>2. QED
    BY <1>1, InvHolds, PTL

\* A reload that was deferred is made when the last iterator is destroyed
\* (mtbl_fileset_reload_now(), fileset_iter_free()).
THEOREM DeferredReloadsAreMade == Spec => []DeferredReloadMade
<1>1. Inv => DeferredReloadMade
    BY InvImplies
<1>2. QED
    BY <1>1, InvHolds, PTL

===============================================================================
