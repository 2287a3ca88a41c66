------------------------- MODULE ConfigDownloadsProofs -------------------------
(***************************************************************************)
(* What is stored, proved: what Config promises of the three tables, for any    *)
(* identifiers, files, clicks and tasks; and what Downloads promises of the      *)
(* programs they name, for any releases and any number of downloads.            *)
(***************************************************************************)
EXTENDS Config, Downloads, FiniteSetTheorems, TLAPS

-----------------------------------------------------------------------------
(* Tables and lists. *)

LEMMA TableFacts ==
    ASSUME NEW I, NEW R, NEW t
    PROVE  t \in Tables(I, R) <=> DOMAIN t \subseteq I /\ t \in [DOMAIN t -> R]
BY DEF Tables

\* The empty table, and the empty list.
LEMMA NothingIsATable ==
    ASSUME NEW I, NEW R
    PROVE  <<>> \in Tables(I, R) /\ DOMAIN <<>> = {} /\ IsList(<<>>, R)
<1>1. DOMAIN <<>> = {} /\ <<>> \in [{} -> R]
  OBVIOUS
<1>2. QED
  BY <1>1, TableFacts DEF IsList

\* A row that is written is there, and every other row is as it was.
LEMMA SavedFacts ==
    ASSUME NEW I, NEW R, NEW t \in Tables(I, R), NEW id \in I, NEW r \in R
    PROVE  /\ Saved(t, id, r) \in Tables(I, R)
           /\ DOMAIN Saved(t, id, r) = DOMAIN t \cup {id}
           /\ Saved(t, id, r)[id] = r
           /\ \A x \in DOMAIN t : x # id => Saved(t, id, r)[x] = t[x]
<1>1. DOMAIN t \subseteq I /\ t \in [DOMAIN t -> R]
  BY TableFacts
<1>2. /\ DOMAIN Saved(t, id, r) = DOMAIN t \cup {id}
      /\ Saved(t, id, r)[id] = r
      /\ \A x \in DOMAIN t : x # id => Saved(t, id, r)[x] = t[x]
  BY DEF Saved
<1>3. Saved(t, id, r) \in [DOMAIN t \cup {id} -> R]
  BY <1>1 DEF Saved
<1>4. QED
  BY <1>1, <1>2, <1>3, TableFacts

\* A row that is gone is gone alone.
LEMMA WithoutFacts ==
    ASSUME NEW I, NEW R, NEW t \in Tables(I, R), NEW id
    PROVE  /\ Without(t, id) \in Tables(I, R)
           /\ DOMAIN Without(t, id) = DOMAIN t \ {id}
           /\ \A x \in DOMAIN t \ {id} : Without(t, id)[x] = t[x]
<1>1. DOMAIN t \subseteq I /\ t \in [DOMAIN t -> R]
  BY TableFacts
<1>2. /\ DOMAIN Without(t, id) = DOMAIN t \ {id}
      /\ \A x \in DOMAIN t \ {id} : Without(t, id)[x] = t[x]
  BY DEF Without, Restrict
<1>3. Without(t, id) \in [DOMAIN t \ {id} -> R]
  BY <1>1 DEF Without, Restrict
<1>4. QED
  BY <1>1, <1>2, <1>3, TableFacts

\* A list without one of its places.
LEMMA TailFacts ==
    ASSUME NEW R, NEW rows, IsList(rows, R), NEW i
    PROVE  /\ IsList(Without(rows, i), R)
           /\ DOMAIN Without(rows, i) = DOMAIN rows \ {i}
           /\ \A j \in DOMAIN rows \ {i} : Without(rows, i)[j] = rows[j]
BY DEF IsList, Without, Restrict

\* The rows of a file that are not stored yet, each at its place.
LEMMA ArrivingFacts ==
    ASSUME NEW R, NEW rows, IsList(rows, R), NEW held
    PROVE  /\ IsList(Arriving(rows, held), R)
           /\ DOMAIN Arriving(rows, held) = {i \in DOMAIN rows : rows[i].id \notin DOMAIN held}
           /\ \A i \in DOMAIN Arriving(rows, held) : Arriving(rows, held)[i] = rows[i]
BY DEF IsList, Arriving, Restrict

\* A table written to a file is a list of its rows.
LEMMA AsRowsFacts ==
    ASSUME NEW I, IsFiniteSet(I), NEW R, NEW t \in Tables(I, R)
    PROVE  IsList(AsRows(t), Rows(I, R))
<1>1. DOMAIN t \subseteq I /\ t \in [DOMAIN t -> R]
  BY TableFacts
<1> DEFINE S == DOMAIN t
<1>2. IsFiniteSet(S)
  BY <1>1, FS_Subset
<1>3. Cardinality(S) \in Nat /\ ExistsBijection(1..Cardinality(S), S)
  BY <1>2, FS_CardinalityType
<1>4. \E f \in [1..Cardinality(S) -> S] : IsInjective(f)
  BY <1>3 DEF ExistsBijection, Bijection, Injection, IsInjective
<1>5. SetToSeq(S) \in [1..Cardinality(S) -> S]
  BY <1>4 DEF SetToSeq
<1>6. QED
  BY <1>1, <1>3, <1>5 DEF AsRows, IsList, Rows

\* A list without repetitions, written row by row, is a table of all its rows.
LEMMA UpsertedFacts ==
    ASSUME NEW I, NEW R, NEW rows, IsList(rows, Rows(I, R)), ~Repeats(rows)
    PROVE  /\ Upserted(rows) \in Tables(I, R)
           /\ DOMAIN Upserted(rows) = Ids(rows)
           /\ AllIn(rows, Upserted(rows))
<1>1. ASSUME NEW i \in DOMAIN rows
      PROVE  LastOf(rows, rows[i].id) = i
  <2>1. i \in Nat /\ \A j \in DOMAIN rows : rows[j].id = rows[i].id => j = i
    BY DEF Repeats, IsList
  <2>2. QED
    BY <2>1 DEF LastOf
<1>2. DOMAIN Upserted(rows) = Ids(rows) /\ AllIn(rows, Upserted(rows))
  BY <1>1 DEF Upserted, AllIn, Ids
<1>3. Upserted(rows) \in [Ids(rows) -> R] /\ Ids(rows) \subseteq I
  BY <1>1 DEF Upserted, Ids, IsList, Rows
<1>4. QED
  BY <1>2, <1>3, TableFacts

-----------------------------------------------------------------------------
(* What the database keeps, one write at a time.                              *)

Holds(d, m) ==
    /\ d \in Configurations /\ Sound(d)
    /\ \A p \in DOMAIN d.profiles : d.profiles[p].dir # "gone"
    /\ DOMAIN d.cores \cup DOMAIN d.proxies \cup DOMAIN d.profiles \subseteq m

\* A core that is written takes nothing from a profile.
LEMMA CoreStored ==
    ASSUME NEW d, NEW m, Holds(d, m), NEW c \in CoreIds, NEW r \in CoreOf
    PROVE  Holds(SavedCore(d, c, r), m \cup {c})
<1>1. PICK s \in Tables(CoreIds, CoreOf) : s = d.cores
  BY DEF Holds, Configurations
<1>2. PICK t : t = Saved(s, c, r)
  OBVIOUS
<1>3. t \in Tables(CoreIds, CoreOf) /\ DOMAIN t = DOMAIN s \cup {c}
  BY <1>2, SavedFacts
<1>4. PICK e \in Configurations : /\ e = SavedCore(d, c, r) /\ e.cores = t
                                  /\ e.proxies = d.proxies /\ e.profiles = d.profiles
  <2>1. d = [cores |-> d.cores, proxies |-> d.proxies, profiles |-> d.profiles]
    BY DEF Holds, Configurations
  <2>2. [d EXCEPT !.cores = t] = [[cores |-> d.cores, proxies |-> d.proxies, profiles |-> d.profiles] EXCEPT !.cores = t]
    BY <2>1
  <2>3. SavedCore(d, c, r) = [d EXCEPT !.cores = t]
    BY <1>1, <1>2 DEF SavedCore
  <2>4. QED
    BY <1>3, <2>2, <2>3 DEF Holds, Configurations
<1>5. QED
  BY <1>1, <1>3, <1>4 DEF Holds, Sound

\* The same of a proxy.
LEMMA ProxyStored ==
    ASSUME NEW d, NEW m, Holds(d, m), NEW x \in ProxyIds, NEW r \in ProxyOf
    PROVE  Holds(SavedProxy(d, x, r), m \cup {x})
<1>1. PICK s \in Tables(ProxyIds, ProxyOf) : s = d.proxies
  BY DEF Holds, Configurations
<1>2. PICK t : t = Saved(s, x, r)
  OBVIOUS
<1>3. t \in Tables(ProxyIds, ProxyOf) /\ DOMAIN t = DOMAIN s \cup {x}
  BY <1>2, SavedFacts
<1>4. PICK e \in Configurations : /\ e = SavedProxy(d, x, r) /\ e.proxies = t
                                  /\ e.cores = d.cores /\ e.profiles = d.profiles
  <2>1. d = [cores |-> d.cores, proxies |-> d.proxies, profiles |-> d.profiles]
    BY DEF Holds, Configurations
  <2>2. [d EXCEPT !.proxies = t] = [[cores |-> d.cores, proxies |-> d.proxies, profiles |-> d.profiles] EXCEPT !.proxies = t]
    BY <2>1
  <2>3. SavedProxy(d, x, r) = [d EXCEPT !.proxies = t]
    BY <1>1, <1>2 DEF SavedProxy
  <2>4. QED
    BY <1>3, <2>2, <2>3 DEF Holds, Configurations
<1>5. QED
  BY <1>1, <1>3, <1>4 DEF Holds, Sound

\* A profile whose references resolve leaves every reference resolved.
LEMMA ProfileStored ==
    ASSUME NEW d, NEW m, Holds(d, m), NEW p \in ProfileIds, NEW r \in ProfileOf,
           Resolves(d, r), r.dir # "gone"
    PROVE  Holds(InsertedProfile(d, p, r), m \cup {p})
<1>1. PICK s \in Tables(ProfileIds, ProfileOf) : s = d.profiles
  BY DEF Holds, Configurations
<1>2. PICK t : t = Saved(s, p, r)
  OBVIOUS
<1>3. t \in Tables(ProfileIds, ProfileOf) /\ DOMAIN t = DOMAIN s \cup {p} /\ t[p] = r /\ \A q \in DOMAIN s : q # p => t[q] = s[q]
  BY <1>2, SavedFacts
<1>4. PICK e \in Configurations : /\ e = InsertedProfile(d, p, r) /\ e.profiles = t
                                  /\ e.cores = d.cores /\ e.proxies = d.proxies
  <2>1. d = [cores |-> d.cores, proxies |-> d.proxies, profiles |-> d.profiles]
    BY DEF Holds, Configurations
  <2>2. [d EXCEPT !.profiles = t] = [[cores |-> d.cores, proxies |-> d.proxies, profiles |-> d.profiles] EXCEPT !.profiles = t]
    BY <2>1
  <2>3. InsertedProfile(d, p, r) = [d EXCEPT !.profiles = t]
    BY <1>1, <1>2 DEF InsertedProfile
  <2>4. QED
    BY <1>3, <2>2, <2>3 DEF Holds, Configurations
<1>5. \A q \in DOMAIN t : t[q] = r \/ (q \in DOMAIN d.profiles /\ t[q] = d.profiles[q])
  BY <1>1, <1>3
<1>6. QED
  BY <1>1, <1>3, <1>4, <1>5 DEF Holds, Sound, Resolves

\* A core no profile names can go.
LEMMA CoreRemoved ==
    ASSUME NEW d, NEW m, Holds(d, m), NEW c, ~CoreUsed(d, c)
    PROVE  Holds([d EXCEPT !.cores = Without(@, c)], m)
<1>1. PICK s \in Tables(CoreIds, CoreOf) : s = d.cores
  BY DEF Holds, Configurations
<1>2. PICK t : t = Without(s, c)
  OBVIOUS
<1>3. t \in Tables(CoreIds, CoreOf) /\ DOMAIN t = DOMAIN s \ {c}
  BY <1>2, WithoutFacts
<1>4. PICK e \in Configurations : /\ e = [d EXCEPT !.cores = Without(@, c)] /\ e.cores = t
                                  /\ e.proxies = d.proxies /\ e.profiles = d.profiles
  <2>1. d = [cores |-> d.cores, proxies |-> d.proxies, profiles |-> d.profiles]
    BY DEF Holds, Configurations
  <2>2. [d EXCEPT !.cores = t] = [[cores |-> d.cores, proxies |-> d.proxies, profiles |-> d.profiles] EXCEPT !.cores = t]
    BY <2>1
  <2>3. [d EXCEPT !.cores = Without(@, c)] = [d EXCEPT !.cores = t]
    BY <1>1, <1>2
  <2>4. QED
    BY <1>3, <2>2, <2>3 DEF Holds, Configurations
<1>5. QED
  BY <1>1, <1>3, <1>4 DEF Holds, Sound, CoreUsed

\* And so can a proxy.
LEMMA ProxyRemoved ==
    ASSUME NEW d, NEW m, Holds(d, m), NEW x, ~ProxyUsed(d, x)
    PROVE  Holds([d EXCEPT !.proxies = Without(@, x)], m)
<1>1. PICK s \in Tables(ProxyIds, ProxyOf) : s = d.proxies
  BY DEF Holds, Configurations
<1>2. PICK t : t = Without(s, x)
  OBVIOUS
<1>3. t \in Tables(ProxyIds, ProxyOf) /\ DOMAIN t = DOMAIN s \ {x}
  BY <1>2, WithoutFacts
<1>4. PICK e \in Configurations : /\ e = [d EXCEPT !.proxies = Without(@, x)] /\ e.proxies = t
                                  /\ e.cores = d.cores /\ e.profiles = d.profiles
  <2>1. d = [cores |-> d.cores, proxies |-> d.proxies, profiles |-> d.profiles]
    BY DEF Holds, Configurations
  <2>2. [d EXCEPT !.proxies = t] = [[cores |-> d.cores, proxies |-> d.proxies, profiles |-> d.profiles] EXCEPT !.proxies = t]
    BY <2>1
  <2>3. [d EXCEPT !.proxies = Without(@, x)] = [d EXCEPT !.proxies = t]
    BY <1>1, <1>2
  <2>4. QED
    BY <1>3, <2>2, <2>3 DEF Holds, Configurations
<1>5. QED
  BY <1>1, <1>3, <1>4 DEF Holds, Sound, ProxyUsed

\* Nothing names a profile.
LEMMA ProfileRemoved ==
    ASSUME NEW d, NEW m, Holds(d, m), NEW p
    PROVE  Holds([d EXCEPT !.profiles = Without(@, p)], m)
<1>1. PICK s \in Tables(ProfileIds, ProfileOf) : s = d.profiles
  BY DEF Holds, Configurations
<1>2. PICK t : t = Without(s, p)
  OBVIOUS
<1>3. t \in Tables(ProfileIds, ProfileOf) /\ DOMAIN t = DOMAIN s \ {p} /\ \A q \in DOMAIN t : t[q] = s[q]
  BY <1>2, WithoutFacts
<1>4. PICK e \in Configurations : /\ e = [d EXCEPT !.profiles = Without(@, p)] /\ e.profiles = t
                                  /\ e.cores = d.cores /\ e.proxies = d.proxies
  <2>1. d = [cores |-> d.cores, proxies |-> d.proxies, profiles |-> d.profiles]
    BY DEF Holds, Configurations
  <2>2. [d EXCEPT !.profiles = t] = [[cores |-> d.cores, proxies |-> d.proxies, profiles |-> d.profiles] EXCEPT !.profiles = t]
    BY <2>1
  <2>3. [d EXCEPT !.profiles = Without(@, p)] = [d EXCEPT !.profiles = t]
    BY <1>1, <1>2
  <2>4. QED
    BY <1>3, <2>2, <2>3 DEF Holds, Configurations
<1>5. QED
  BY <1>1, <1>3, <1>4 DEF Holds, Sound

\* What a restore accepts, and what its replacement is.
Accepts(f) == ~Repeats(f.cores) /\ ~Repeats(f.proxies) /\ ~Repeats(f.profiles) /\ ~Dangles(f)

\* A plan and the file it was made of.
LEMMA PlanRestoreFacts ==
    ASSUME NEW f, IsBackup(f), Accepts(f)
    PROVE  /\ IsBackup(PlanRestore(f)) /\ Accepts(PlanRestore(f))
           /\ PlanRestore(f).cores = f.cores /\ PlanRestore(f).proxies = f.proxies
           /\ Ids(PlanRestore(f).profiles) = Ids(f.profiles)
           /\ \A i \in DOMAIN PlanRestore(f).profiles : PlanRestore(f).profiles[i].is.dir # "gone"
<1> DEFINE g == PlanRestore(f)
<1>1. /\ g = [credentials |-> f.credentials, cores |-> f.cores, proxies |-> f.proxies,
              profiles |-> g.profiles]
      /\ DOMAIN g.profiles = DOMAIN f.profiles
      /\ \A i \in DOMAIN f.profiles : g.profiles[i] = [id |-> f.profiles[i].id, is |-> Repointed(f.profiles[i].is)]
  BY DEF PlanRestore, IsBackup
<1>2. \A i \in DOMAIN f.profiles : f.profiles[i] \in Rows(ProfileIds, ProfileOf)
  BY DEF IsBackup, IsList
<1>3. ASSUME NEW r \in ProfileOf
      PROVE  /\ Repointed(r) \in ProfileOf /\ Repointed(r).dir # "gone"
             /\ Repointed(r).core = r.core /\ Repointed(r).proxy = r.proxy
  BY DEF Repointed, ProfileOf
<1> HIDE DEF g
<1>4. ASSUME NEW i \in DOMAIN f.profiles
      PROVE  /\ g.profiles[i] \in Rows(ProfileIds, ProfileOf)
             /\ g.profiles[i].id = f.profiles[i].id /\ g.profiles[i].is.dir # "gone"
             /\ g.profiles[i].is.core = f.profiles[i].is.core
             /\ g.profiles[i].is.proxy = f.profiles[i].is.proxy
  <2>1. PICK id \in ProfileIds, r \in ProfileOf : f.profiles[i].id = id /\ f.profiles[i].is = r
    BY <1>2 DEF Rows
  <2>2. g.profiles[i] = [id |-> id, is |-> Repointed(r)]
    BY <1>1, <2>1
  <2>3. QED
    BY <1>3, <2>1, <2>2 DEF Rows
<1>5. IsBackup(g)
  <2>1. g.profiles \in [DOMAIN f.profiles -> Rows(ProfileIds, ProfileOf)]
    <3>1. g.profiles = [i \in DOMAIN f.profiles |-> g.profiles[i]]
      BY DEF g, PlanRestore, IsBackup
    <3>2. QED
      BY <1>4, <3>1
  <2>2. QED
    BY <1>1, <2>1 DEF IsBackup, IsList
<1>6. g.cores = f.cores /\ g.proxies = f.proxies /\ Ids(g.profiles) = Ids(f.profiles)
  BY <1>1, <1>4 DEF Ids
<1>7. Accepts(g)
  BY <1>1, <1>4, <1>6 DEF Accepts, Repeats, Dangles
<1>8. QED
  BY <1>1, <1>4, <1>5, <1>6, <1>7 DEF g

\* An accepted file is a configuration whose references resolve, with all of its rows.
LEMMA ReplacementFacts ==
    ASSUME NEW f, IsBackup(f), Accepts(f), \A i \in DOMAIN f.profiles : f.profiles[i].is.dir # "gone",
           NEW m
    PROVE  /\ Holds(Replacement(f), m \cup Ids(f.cores) \cup Ids(f.proxies) \cup Ids(f.profiles))
           /\ Fits(f)
           /\ DOMAIN Replacement(f).cores = Ids(f.cores) /\ AllIn(f.cores, Replacement(f).cores)
           /\ DOMAIN Replacement(f).proxies = Ids(f.proxies) /\ AllIn(f.proxies, Replacement(f).proxies)
           /\ DOMAIN Replacement(f).profiles = Ids(f.profiles)
<1> DEFINE d == Replacement(f)
<1>1. d.cores \in Tables(CoreIds, CoreOf) /\ DOMAIN d.cores = Ids(f.cores) /\ AllIn(f.cores, d.cores)
  <2>1. PICK rows : rows = f.cores
    OBVIOUS
  <2>2. IsList(rows, Rows(CoreIds, CoreOf)) /\ ~Repeats(rows)
    BY <2>1 DEF IsBackup, Accepts
  <2>3. /\ Upserted(rows) \in Tables(CoreIds, CoreOf) /\ DOMAIN Upserted(rows) = Ids(rows)
        /\ AllIn(rows, Upserted(rows))
    BY <2>2, UpsertedFacts
  <2>4. QED
    BY <2>1, <2>3 DEF Replacement
<1>2. d.proxies \in Tables(ProxyIds, ProxyOf) /\ DOMAIN d.proxies = Ids(f.proxies) /\ AllIn(f.proxies, d.proxies)
  <2>1. PICK rows : rows = f.proxies
    OBVIOUS
  <2>2. IsList(rows, Rows(ProxyIds, ProxyOf)) /\ ~Repeats(rows)
    BY <2>1 DEF IsBackup, Accepts
  <2>3. /\ Upserted(rows) \in Tables(ProxyIds, ProxyOf) /\ DOMAIN Upserted(rows) = Ids(rows)
        /\ AllIn(rows, Upserted(rows))
    BY <2>2, UpsertedFacts
  <2>4. QED
    BY <2>1, <2>3 DEF Replacement
<1>3. d.profiles \in Tables(ProfileIds, ProfileOf) /\ DOMAIN d.profiles = Ids(f.profiles) /\ AllIn(f.profiles, d.profiles)
  <2>1. PICK rows : rows = f.profiles
    OBVIOUS
  <2>2. IsList(rows, Rows(ProfileIds, ProfileOf)) /\ ~Repeats(rows)
    BY <2>1 DEF IsBackup, Accepts
  <2>3. /\ Upserted(rows) \in Tables(ProfileIds, ProfileOf) /\ DOMAIN Upserted(rows) = Ids(rows)
        /\ AllIn(rows, Upserted(rows))
    BY <2>2, UpsertedFacts
  <2>4. QED
    BY <2>1, <2>3 DEF Replacement
<1>4. d \in Configurations
  BY <1>1, <1>2, <1>3 DEF Configurations, Replacement
<1>5. \A i \in DOMAIN f.profiles : Resolves(d, f.profiles[i].is)
  BY <1>1, <1>2 DEF Accepts, Dangles, Resolves
<1>6. \A p \in DOMAIN d.profiles : \E i \in DOMAIN f.profiles : d.profiles[p] = f.profiles[i].is
  BY <1>3 DEF AllIn, Ids
<1> HIDE DEF d
<1>7. Sound(d) /\ \A p \in DOMAIN d.profiles : d.profiles[p].dir # "gone"
  BY <1>5, <1>6 DEF Sound, Resolves
<1>8. Holds(d, m \cup Ids(f.cores) \cup Ids(f.proxies) \cup Ids(f.profiles))
  BY <1>1, <1>2, <1>3, <1>4, <1>7 DEF Holds
<1>9. Fits(f)
  BY <1>5 DEF Fits, Accepts, d
<1>10. QED
  BY <1>1, <1>2, <1>3, <1>8, <1>9 DEF d

-----------------------------------------------------------------------------
(* What a plan says of the file it was made of.                               *)

\* Each row of the file is stored, or still to be.
Left(rows, todo, t) ==
    \A i \in DOMAIN rows :
        i \in DOMAIN todo \/ (rows[i].id \in DOMAIN t /\ rows[i].is = t[rows[i].id])
LeftProfiles(rows, todo, t) ==
    \A i \in DOMAIN rows :
        \/ i \in DOMAIN todo /\ todo[i].id = rows[i].id /\ SameProfile(rows[i].is, todo[i].is)
        \/ rows[i].id \in DOMAIN t /\ SameProfile(rows[i].is, t[rows[i].id])
Part(todo, rows) == \A i \in DOMAIN todo : i \in DOMAIN rows /\ todo[i] = rows[i]
New(todo, held) == \A i \in DOMAIN todo : todo[i].id \notin DOMAIN held
Placed(todo) == \A i \in DOMAIN todo : todo[i].is.dir # "gone"

\* A report says nothing exactly when its four lists are empty.
LEMMA ReportFacts ==
    ASSUME NEW r \in Reports
    PROVE  /\ r = [added |-> r.added, missing_core |-> r.missing_core, missing_proxy |-> r.missing_proxy,
                   differing |-> r.differing, failed |-> r.failed]
           /\ ~NeedsAttention(r) <=> r.failed = {} /\ r.differing = {} /\ r.missing_core = {} /\ r.missing_proxy = {}
BY DEF Reports, NeedsAttention

\* A profile that lands has a directory, and it is the file's own unless its proxy is nowhere.
LEMMA LandedFacts ==
    ASSUME NEW from, NEW have, NEW r \in ProfileOf
    PROVE  /\ Landed(r, from, have) \in ProfileOf
           /\ Landed(r, from, have).dir # "gone"
           /\ r.proxy \in Reachable(from, have) => SameProfile(r, Landed(r, from, have))
<1>1. PICK c \in CoreIds, x \in ProxyIds \cup {Direct}, dir \in {"default", "here", "gone"} :
          r = [core |-> c, proxy |-> x, dir |-> dir]
  BY DEF ProfileOf
<1>2. PICK y \in ProxyIds \cup {Direct} : y = IF x \in Reachable(from, have) THEN x ELSE Direct
  OBVIOUS
<1>3. PICK to \in {"default", "here"} : to = IF dir = "gone" THEN "default" ELSE dir
  OBVIOUS
<1>4. Landed(r, from, have) = [core |-> c, proxy |-> y, dir |-> to]
  <2>1. PICK s : s = [core |-> c, proxy |-> y, dir |-> dir]
    OBVIOUS
  <2>2. [r EXCEPT !.proxy = IF @ \in Reachable(from, have) THEN @ ELSE Direct] = s
    BY <1>1, <1>2, <2>1
  <2>3. Repointed(s) = [core |-> c, proxy |-> y, dir |-> to]
    BY <1>3, <2>1 DEF Repointed
  <2>4. QED
    BY <2>2, <2>3 DEF Landed
<1>5. r.proxy = x
  BY <1>1
<1>6. QED
  BY <1>1, <1>2, <1>4, <1>5 DEF ProfileOf, SameProfile

\* The profiles that arrive are those of the file whose core is known.
LEMMA WholeFacts ==
    ASSUME NEW from, IsBackup(from), NEW have
    PROVE  LET new == Arriving(from.profiles, have.profiles)
               whole == Whole(from, have)
           IN  /\ DOMAIN new = {i \in DOMAIN from.profiles : from.profiles[i].id \notin DOMAIN have.profiles}
               /\ \A i \in DOMAIN new : new[i] = from.profiles[i]
               /\ DOMAIN whole = {i \in DOMAIN new : from.profiles[i].is.core \in Known(from, have)}
               /\ \A i \in DOMAIN whole : whole[i] = from.profiles[i]
               /\ DOMAIN new \subseteq Nat
<1> DEFINE new == Arriving(from.profiles, have.profiles)
           whole == Whole(from, have)
<1>1. DOMAIN from.profiles \subseteq Nat
  BY DEF IsBackup, IsList
<1>2. /\ DOMAIN new = {i \in DOMAIN from.profiles : from.profiles[i].id \notin DOMAIN have.profiles}
      /\ \A i \in DOMAIN new : new[i] = from.profiles[i]
  BY DEF Arriving, Restrict
<1> HIDE DEF new
<1>3. whole = Restrict(new, {i \in DOMAIN new : new[i].is.core \in Known(from, have)})
  BY DEF Whole, new
<1> HIDE DEF whole
<1>4. /\ DOMAIN whole = {i \in DOMAIN new : from.profiles[i].is.core \in Known(from, have)}
      /\ \A i \in DOMAIN whole : whole[i] = from.profiles[i]
  BY <1>2, <1>3 DEF Restrict
<1>5. QED
  BY <1>1, <1>2, <1>4 DEF new, whole

\* What an import decides: the rows that arrive, and that it is silent only when the
\* others are already there as the file has them.
LEMMA PlanImportFacts ==
    ASSUME NEW from, IsBackup(from), NEW have \in Configurations
    PROVE  LET plan == PlanImport(from, have).plan
               report == PlanImport(from, have).report
           IN  /\ IsBackup(plan) /\ report \in Reports
               /\ Part(plan.cores, from.cores) /\ New(plan.cores, have.cores)
               /\ Part(plan.proxies, from.proxies) /\ New(plan.proxies, have.proxies)
               /\ Placed(plan.profiles)
               /\ ~NeedsAttention(report) =>
                      /\ Left(from.cores, plan.cores, have.cores)
                      /\ Left(from.proxies, plan.proxies, have.proxies)
                      /\ LeftProfiles(from.profiles, plan.profiles, have.profiles)
<1> DEFINE P == PlanImport(from, have)
           new == Arriving(from.profiles, have.profiles)
           whole == Whole(from, have)
           cores == Arriving(from.cores, have.cores)
           proxies == Arriving(from.proxies, have.proxies)
           profiles == [i \in DOMAIN whole |-> [id |-> whole[i].id, is |-> Landed(whole[i].is, from, have)]]
           differing == Differing(from.cores, have.cores) \cup Differing(from.proxies, have.proxies)
                        \cup DifferingProfiles(from.profiles, have.profiles)
           missing_core == {new[i].id : i \in DOMAIN new \ DOMAIN whole}
           missing_proxy == {whole[i].id : i \in {i \in DOMAIN whole :
                                                  whole[i].is.proxy \notin Reachable(from, have)}}
<1>1. /\ P.plan = [credentials |-> from.credentials, cores |-> cores, proxies |-> proxies, profiles |-> profiles]
      /\ P.report = [added |-> {}, missing_core |-> missing_core, missing_proxy |-> missing_proxy,
                     differing |-> differing, failed |-> {}]
  <2>1. from = [credentials |-> from.credentials, cores |-> from.cores, proxies |-> from.proxies,
                profiles |-> from.profiles]
    BY DEF IsBackup
  <2>2. P.plan = [[credentials |-> from.credentials, cores |-> from.cores, proxies |-> from.proxies,
                   profiles |-> from.profiles]
                      EXCEPT !.cores = cores, !.proxies = proxies, !.profiles = profiles]
    BY <2>1 DEF PlanImport
  <2>3. QED
    BY <2>2 DEF PlanImport, NoReport
<1>2. /\ IsList(from.cores, Rows(CoreIds, CoreOf)) /\ IsList(from.proxies, Rows(ProxyIds, ProxyOf))
      /\ IsList(from.profiles, Rows(ProfileIds, ProfileOf)) /\ from.credentials \in {"included", "excluded"}
  BY DEF IsBackup
<1>3. /\ IsList(cores, Rows(CoreIds, CoreOf)) /\ Part(cores, from.cores) /\ New(cores, have.cores)
      /\ DOMAIN cores = {i \in DOMAIN from.cores : from.cores[i].id \notin DOMAIN have.cores}
  BY <1>2 DEF Arriving, Restrict, IsList, Part, New
<1>4. /\ IsList(proxies, Rows(ProxyIds, ProxyOf)) /\ Part(proxies, from.proxies) /\ New(proxies, have.proxies)
      /\ DOMAIN proxies = {i \in DOMAIN from.proxies : from.proxies[i].id \notin DOMAIN have.proxies}
  BY <1>2 DEF Arriving, Restrict, IsList, Part, New
<1>5. /\ DOMAIN new = {i \in DOMAIN from.profiles : from.profiles[i].id \notin DOMAIN have.profiles}
      /\ \A i \in DOMAIN new : new[i] = from.profiles[i]
      /\ DOMAIN whole = {i \in DOMAIN new : from.profiles[i].is.core \in Known(from, have)}
      /\ \A i \in DOMAIN whole : whole[i] = from.profiles[i]
      /\ DOMAIN new \subseteq Nat
  BY WholeFacts
<1> HIDE DEF new, whole, cores, proxies
<1>6. ASSUME NEW i \in DOMAIN whole
      PROVE  /\ profiles[i] \in Rows(ProfileIds, ProfileOf) /\ profiles[i].is.dir # "gone"
             /\ profiles[i].id = from.profiles[i].id
             /\ from.profiles[i].is.proxy \in Reachable(from, have) =>
                    SameProfile(from.profiles[i].is, profiles[i].is)
  <2>1. PICK id \in ProfileIds, r \in ProfileOf : from.profiles[i].id = id /\ from.profiles[i].is = r
    BY <1>2, <1>5 DEF IsList, Rows
  <2>2. profiles[i] = [id |-> id, is |-> Landed(r, from, have)]
    BY <1>5, <2>1
  <2>3. QED
    BY <2>1, <2>2, LandedFacts DEF Rows
<1>7. DOMAIN profiles = DOMAIN whole /\ profiles \in [DOMAIN whole -> Rows(ProfileIds, ProfileOf)]
  <2>1. profiles = [i \in DOMAIN whole |-> profiles[i]]
    OBVIOUS
  <2> HIDE DEF profiles
  <2>2. QED
    BY <1>6, <2>1
<1> HIDE DEF profiles
<1>8. IsBackup(P.plan) /\ Placed(P.plan.profiles)
  BY <1>1, <1>2, <1>3, <1>4, <1>5, <1>6, <1>7 DEF IsBackup, IsList, Placed
<1>9. P.report \in Reports
  <2>1. differing \subseteq Ids3
    <3>1. Differing(from.cores, have.cores) \subseteq CoreIds
      BY <1>2 DEF Differing, IsList, Rows
    <3>2. Differing(from.proxies, have.proxies) \subseteq ProxyIds
      BY <1>2 DEF Differing, IsList, Rows
    <3>3. DifferingProfiles(from.profiles, have.profiles) \subseteq ProfileIds
      BY <1>2 DEF DifferingProfiles, IsList, Rows
    <3>4. QED
      BY <3>1, <3>2, <3>3 DEF Ids3
  <2>2. missing_core \subseteq Ids3 /\ missing_proxy \subseteq Ids3
    BY <1>2, <1>5 DEF IsList, Rows, Ids3
  <2> HIDE DEF differing, missing_core, missing_proxy
  <2>3. QED
    BY <1>1, <2>1, <2>2 DEF Reports
<1>10. ASSUME ~NeedsAttention(P.report)
       PROVE  /\ Left(from.cores, P.plan.cores, have.cores)
              /\ Left(from.proxies, P.plan.proxies, have.proxies)
              /\ LeftProfiles(from.profiles, P.plan.profiles, have.profiles)
  <2>1. differing = {} /\ missing_core = {} /\ missing_proxy = {}
    <3> HIDE DEF P, differing, missing_core, missing_proxy
    <3>1. PICK r \in Reports : r = P.report
      BY <1>9
    <3>2. r.differing = {} /\ r.missing_core = {} /\ r.missing_proxy = {}
      BY <1>10, <3>1, ReportFacts
    <3>3. QED
      BY <1>1, <3>1, <3>2
  <2>2. Left(from.cores, cores, have.cores)
    BY <1>3, <2>1 DEF Left, Differing
  <2>3. Left(from.proxies, proxies, have.proxies)
    BY <1>4, <2>1 DEF Left, Differing
  <2>4. ASSUME NEW i \in DOMAIN from.profiles, from.profiles[i].id \notin DOMAIN have.profiles
        PROVE  i \in DOMAIN whole /\ from.profiles[i].is.proxy \in Reachable(from, have)
    BY <1>5, <2>1, <2>4
  <2>5. LeftProfiles(from.profiles, profiles, have.profiles)
    BY <1>6, <1>7, <2>1, <2>4 DEF LeftProfiles, DifferingProfiles
  <2>6. QED
    BY <1>1, <2>2, <2>3, <2>5
<1>11. QED
  BY <1>1, <1>3, <1>4, <1>8, <1>9, <1>10

-----------------------------------------------------------------------------
(* The inductive invariant.  A task is what its worker holds: what it read, what  *)
(* it decided, what it has still to do and what it will report.                   *)

TaskOK(t) ==
    /\ t = [kind |-> t.kind, at |-> t.at, from |-> t.from, have |-> t.have, plan |-> t.plan,
            report |-> t.report, core |-> t.core, calm |-> t.calm]
    /\ t.kind \in TaskKinds /\ t.at \in Stages /\ t.calm \in BOOLEAN
    /\ IsBackup(t.from) /\ IsBackup(t.plan) /\ t.have \in Configurations
    /\ t.core \in CoreIds \cup {Direct} /\ t.report \in Reports

\* The same as sets of records.
Backups == [credentials : {"included", "excluded"}, cores : Tables(Nat, Rows(CoreIds, CoreOf)),
            proxies : Tables(Nat, Rows(ProxyIds, ProxyOf)), profiles : Tables(Nat, Rows(ProfileIds, ProfileOf))]
TaskRecords == [kind : TaskKinds, at : Stages, from : Backups, have : Configurations, plan : Backups,
                report : Reports, core : CoreIds \cup {Direct}, calm : BOOLEAN]

\* The core to be written again is one there was.
Redetecting(t, m) ==
    t.kind = "redetect" =>
        /\ t.core \in CoreIds
        /\ t.at = "writing" => t.core \in DOMAIN t.have.cores \cap m

\* What is about to be written is a plan that was accepted, and nothing is reported before.
Restoring(t) ==
    t.kind = "restore" =>
        /\ t.at # "answered" => t.report = NoReport
        /\ t.at = "writing" => Accepts(t.from) /\ t.plan = PlanRestore(t.from)
Restored(t, d) ==
    (t.kind = "restore" /\ t.at = "answered" /\ t.report.added # {} /\ t.calm) =>
        /\ DOMAIN d.cores = Ids(t.from.cores) /\ DOMAIN d.proxies = Ids(t.from.proxies)
        /\ AllIn(t.from.cores, d.cores) /\ AllIn(t.from.proxies, d.proxies)
        /\ DOMAIN d.profiles = Ids(t.from.profiles)

Adding == {"adding cores", "adding proxies", "adding profiles"}
Done(t) == t.at = "answered" /\ t.from # NoFile

\* Of the file, an import has still to write what was not there, kind after kind.
Sorted(t) ==
    t.kind = "import" =>
        /\ t.at = "file" => t.from = NoFile
        /\ t.at \in Adding => Part(t.plan.cores, t.from.cores) /\ Part(t.plan.proxies, t.from.proxies)
        /\ t.at = "adding cores" => New(t.plan.cores, t.have.cores)
        /\ t.at \in {"adding cores", "adding proxies"} => New(t.plan.proxies, t.have.proxies)
        /\ (t.at \in {"adding proxies", "adding profiles"} \/ Done(t)) => DOMAIN t.plan.cores = {}
        /\ (t.at = "adding profiles" \/ Done(t)) => DOMAIN t.plan.proxies = {}
        /\ Done(t) => DOMAIN t.plan.profiles = {}

\* While nobody else writes, what was read is what there is; and while there is nothing
\* to tell, each row of the file is stored or still to be.
Silent(t, d) ==
    (t.kind = "import" /\ t.calm) =>
        /\ t.at \in {"proxies", "profiles"} => t.have.cores = d.cores
        /\ t.at = "profiles" => t.have.proxies = d.proxies
        /\ (/\ t.at \in Adding \/ Done(t)
            /\ ~NeedsAttention(t.report)
            /\ ~Repeats(t.from.cores) /\ ~Repeats(t.from.proxies)) =>
               /\ Left(t.from.cores, t.plan.cores, d.cores)
               /\ Left(t.from.proxies, t.plan.proxies, d.proxies)
               /\ LeftProfiles(t.from.profiles, t.plan.profiles, d.profiles)

Worked(t, d, m) ==
    /\ TaskOK(t) /\ Placed(t.plan.profiles)
    /\ Redetecting(t, m) /\ Restoring(t) /\ Restored(t, d) /\ Sorted(t) /\ Silent(t, d)

Bounds ==
    /\ minted \subseteq Ids3 /\ IsBackup(file)
    /\ saves \subseteq [id : CoreIds, is : CoreOf]
    /\ edits \in 0..MaxEdits /\ tasks \in 0..MaxTasks

Inv == Holds(db, minted) /\ Bounds /\ Worked(task, db, minted)

-----------------------------------------------------------------------------
(* Records, one field written at a time.                                      *)

LEMMA BackupFacts ==
    ASSUME NEW f
    PROVE  IsBackup(f) <=> f \in Backups
BY DEF IsBackup, Backups, Tables, IsList

\* The two ways of saying what a task is.
LEMMA TaskFacts ==
    ASSUME NEW t
    PROVE  TaskOK(t) <=> t \in TaskRecords
BY BackupFacts DEF TaskOK, TaskRecords

\* A report with one list changed.
LEMMA ReportSteps ==
    ASSUME NEW r \in Reports, NEW S \in SUBSET Ids3
    PROVE  /\ [r EXCEPT !.added = S] \in Reports /\ [r EXCEPT !.failed = S] \in Reports
           /\ [r EXCEPT !.missing_core = S] \in Reports /\ [r EXCEPT !.missing_proxy = S] \in Reports
           /\ [r EXCEPT !.added = S].added = S /\ [r EXCEPT !.failed = S].added = r.added
           /\ NeedsAttention([r EXCEPT !.added = S]) <=> NeedsAttention(r)
           /\ S # {} => /\ NeedsAttention([r EXCEPT !.failed = S])
                        /\ NeedsAttention([r EXCEPT !.missing_core = S])
                        /\ NeedsAttention([r EXCEPT !.missing_proxy = S])
<1>1. PICK a \in SUBSET Ids3, c \in SUBSET Ids3, x \in SUBSET Ids3, d \in SUBSET Ids3, f \in SUBSET Ids3 :
          r = [added |-> a, missing_core |-> c, missing_proxy |-> x, differing |-> d, failed |-> f]
  BY DEF Reports
<1>2. [r EXCEPT !.added = S] = [added |-> S, missing_core |-> c, missing_proxy |-> x, differing |-> d, failed |-> f]
  BY <1>1
<1>3. [r EXCEPT !.failed = S] = [added |-> a, missing_core |-> c, missing_proxy |-> x, differing |-> d, failed |-> S]
  BY <1>1
<1>4. [r EXCEPT !.missing_core = S] = [added |-> a, missing_core |-> S, missing_proxy |-> x, differing |-> d, failed |-> f]
  BY <1>1
<1>5. [r EXCEPT !.missing_proxy = S] = [added |-> a, missing_core |-> c, missing_proxy |-> S, differing |-> d, failed |-> f]
  BY <1>1
<1>6. /\ [r EXCEPT !.added = S] \in Reports /\ [r EXCEPT !.failed = S] \in Reports
      /\ [r EXCEPT !.missing_core = S] \in Reports /\ [r EXCEPT !.missing_proxy = S] \in Reports
  BY <1>2, <1>3, <1>4, <1>5 DEF Reports
<1>7. [r EXCEPT !.added = S].added = S /\ [r EXCEPT !.failed = S].added = r.added
  BY <1>1, <1>2, <1>3
<1>8. NeedsAttention([r EXCEPT !.added = S]) <=> NeedsAttention(r)
  BY <1>1, <1>2 DEF NeedsAttention
<1>9. S # {} => /\ NeedsAttention([r EXCEPT !.failed = S])
                /\ NeedsAttention([r EXCEPT !.missing_core = S])
                /\ NeedsAttention([r EXCEPT !.missing_proxy = S])
  BY <1>3, <1>4, <1>5 DEF NeedsAttention
<1>10. QED
  BY <1>6, <1>7, <1>8, <1>9

\* A configuration with one table read again.
LEMMA HaveSteps ==
    ASSUME NEW d \in Configurations, NEW e \in Configurations
    PROVE  /\ [d EXCEPT !.cores = e.cores] \in Configurations
           /\ [d EXCEPT !.cores = e.cores].cores = e.cores
           /\ [d EXCEPT !.cores = e.cores].proxies = d.proxies
           /\ [d EXCEPT !.proxies = e.proxies] \in Configurations
           /\ [d EXCEPT !.proxies = e.proxies].proxies = e.proxies
           /\ [d EXCEPT !.proxies = e.proxies].cores = d.cores
           /\ [d EXCEPT !.profiles = e.profiles] \in Configurations
           /\ [d EXCEPT !.profiles = e.profiles].profiles = e.profiles
           /\ [d EXCEPT !.profiles = e.profiles].cores = d.cores
           /\ [d EXCEPT !.profiles = e.profiles].proxies = d.proxies
BY DEF Configurations

\* A plan with one row taken off.
LEMMA PlanSteps ==
    ASSUME NEW p, IsBackup(p), NEW i
    PROVE  /\ [p EXCEPT !.cores = Without(@, i)] = [credentials |-> p.credentials,
                  cores |-> Without(p.cores, i), proxies |-> p.proxies, profiles |-> p.profiles]
           /\ [p EXCEPT !.proxies = Without(@, i)] = [credentials |-> p.credentials,
                  cores |-> p.cores, proxies |-> Without(p.proxies, i), profiles |-> p.profiles]
           /\ [p EXCEPT !.profiles = Without(@, i)] = [credentials |-> p.credentials,
                  cores |-> p.cores, proxies |-> p.proxies, profiles |-> Without(p.profiles, i)]
           /\ IsBackup([p EXCEPT !.cores = Without(@, i)])
           /\ IsBackup([p EXCEPT !.proxies = Without(@, i)])
           /\ IsBackup([p EXCEPT !.profiles = Without(@, i)])
<1>1. /\ IsList(p.cores, Rows(CoreIds, CoreOf)) /\ IsList(p.proxies, Rows(ProxyIds, ProxyOf))
      /\ IsList(p.profiles, Rows(ProfileIds, ProfileOf)) /\ p.credentials \in {"included", "excluded"}
  BY DEF IsBackup
<1>2. /\ IsList(Without(p.cores, i), Rows(CoreIds, CoreOf)) /\ IsList(Without(p.proxies, i), Rows(ProxyIds, ProxyOf))
      /\ IsList(Without(p.profiles, i), Rows(ProfileIds, ProfileOf))
  BY <1>1 DEF IsList, Without, Restrict
<1>3. p = [credentials |-> p.credentials, cores |-> p.cores, proxies |-> p.proxies, profiles |-> p.profiles]
  BY DEF IsBackup
<1>4. /\ [p EXCEPT !.cores = Without(@, i)] = [credentials |-> p.credentials,
             cores |-> Without(p.cores, i), proxies |-> p.proxies, profiles |-> p.profiles]
      /\ [p EXCEPT !.proxies = Without(@, i)] = [credentials |-> p.credentials,
             cores |-> p.cores, proxies |-> Without(p.proxies, i), profiles |-> p.profiles]
      /\ [p EXCEPT !.profiles = Without(@, i)] = [credentials |-> p.credentials,
             cores |-> p.cores, proxies |-> p.proxies, profiles |-> Without(p.profiles, i)]
  BY <1>3
<1>5. QED
  BY <1>1, <1>2, <1>4 DEF IsBackup

\* What a task is before it has read anything.
LEMMA NothingYet ==
    Empty \in Configurations /\ NoFile \in Backups /\ NoReport \in Reports /\ NoTask \in TaskRecords
<1>1. Empty \in Configurations
  BY NothingIsATable DEF Empty, Configurations
<1>2. NoFile \in Backups
  BY NothingIsATable DEF NoFile, Backups
<1>3. NoReport \in Reports
  BY DEF NoReport, Reports
<1>4. QED
  BY <1>1, <1>2, <1>3 DEF NoTask, TaskRecords, TaskKinds, Stages

-----------------------------------------------------------------------------
(* A task, from what it held to what it holds.                                *)

\* Someone else writes: what the worker read may no longer be what there is.
LEMMA Disturbed ==
    ASSUME NEW t, NEW d, NEW m, Worked(t, d, m), NEW e, NEW n, m \subseteq n,
           NEW u, u = [t EXCEPT !.calm = FALSE]
    PROVE  Worked(u, e, n)
<1>1. t \in TaskRecords
  BY TaskFacts DEF Worked
<1>2. /\ u \in TaskRecords /\ u.kind = t.kind /\ u.at = t.at /\ u.from = t.from /\ u.have = t.have
      /\ u.plan = t.plan /\ u.report = t.report /\ u.core = t.core /\ u.calm = FALSE
  BY <1>1 DEF TaskRecords
<1>3. TaskOK(u)
  BY <1>2, TaskFacts
<1>4. QED
  BY <1>2, <1>3 DEF Worked, Placed, Redetecting, Restoring, Restored, Sorted, Silent, Done

\* The marker is taken: by kind, at its first stage.
LEMMA Begun ==
    ASSUME NEW d, NEW m, NEW k \in TaskKinds, NEW at \in {"file", "cores"}, NEW c \in CoreIds \cup {Direct},
           k = "redetect" => c \in CoreIds, k = "none" => FALSE,
           NEW u, u = [NoTask EXCEPT !.kind = k, !.at = at, !.core = c]
    PROVE  Worked(u, d, m)
<1>1. /\ u \in TaskRecords /\ u.kind = k /\ u.at = at /\ u.from = NoFile
      /\ u.plan = NoFile /\ u.report = NoReport /\ u.core = c
  BY NothingYet DEF NoTask, TaskRecords, Stages
<1>2. TaskOK(u)
  BY <1>1, TaskFacts
<1>3. Placed(NoFile.profiles)
  BY NothingIsATable DEF Placed, NoFile
<1>4. QED
  BY <1>1, <1>2, <1>3 DEF Worked, Redetecting, Restoring, Restored, Sorted, Silent, Done, Adding

\* It ends in an error, and nothing it held is left.
LEMMA GaveUp ==
    ASSUME NEW d, NEW m, NEW k \in TaskKinds, NEW calm \in BOOLEAN,
           NEW u, u = [NoTask EXCEPT !.kind = k, !.calm = calm], k # "redetect"
    PROVE  Worked(u, d, m)
<1>1. /\ u \in TaskRecords /\ u.kind = k /\ u.at = "answered" /\ u.from = NoFile
      /\ u.plan = NoFile /\ u.report = NoReport
  BY NothingYet DEF NoTask, TaskRecords, Stages
<1>2. TaskOK(u) /\ NoReport.added = {}
  BY <1>1, TaskFacts DEF NoReport
<1>3. Placed(NoFile.profiles)
  BY NothingIsATable DEF Placed, NoFile
<1>4. QED
  BY <1>1, <1>2, <1>3 DEF Worked, Redetecting, Restoring, Restored, Sorted, Silent, Done, Adding

\* No task has nothing to keep.
LEMMA Idle ==
    ASSUME NEW d, NEW m
    PROVE  Worked(NoTask, d, m)
<1>1. /\ NoTask.kind = "none" /\ NoTask.plan = NoFile
  BY DEF NoTask
<1>2. TaskOK(NoTask)
  BY NothingYet, TaskFacts
<1>3. Placed(NoFile.profiles)
  BY NothingIsATable DEF Placed, NoFile
<1>4. QED
  BY <1>1, <1>2, <1>3 DEF Worked, Redetecting, Restoring, Restored, Sorted, Silent

\* An answer, when an import has nothing left of its file and a restore nothing to report.
LEMMA Answered ==
    ASSUME NEW t, NEW d, NEW m, Worked(t, d, m), NEW u, u = [t EXCEPT !.at = "answered"],
           t.kind = "import" => \/ t.at = "file"
                                \/ t.at = "adding profiles" /\ DOMAIN t.plan.profiles = {},
           t.kind = "restore" => t.at # "answered",
           NEW e, t.kind \in {"import", "restore"} => e = d
    PROVE  Worked(u, e, m)
<1>1. t \in TaskRecords
  BY TaskFacts DEF Worked
<1>2. /\ u \in TaskRecords /\ u.kind = t.kind /\ u.at = "answered" /\ u.from = t.from /\ u.have = t.have
      /\ u.plan = t.plan /\ u.report = t.report /\ u.core = t.core /\ u.calm = t.calm
  BY <1>1 DEF TaskRecords, Stages
<1>3. TaskOK(u) /\ Placed(u.plan.profiles) /\ Redetecting(u, m)
  BY <1>2, TaskFacts DEF Worked, Redetecting
<1>4. Restoring(u) /\ Restored(u, e)
  <2>1. NoReport.added = {}
    BY DEF NoReport
  <2>2. u.kind = "restore" => u.report = NoReport
    BY <1>2 DEF Worked, Restoring
  <2>3. QED
    BY <1>2, <2>1, <2>2 DEF Restoring, Restored
<1>5. Sorted(u)
  BY <1>2 DEF Worked, Sorted, Done, Adding
<1>6. Silent(u, e)
  BY <1>2 DEF Worked, Sorted, Silent, Done, Adding
<1>7. QED
  BY <1>3, <1>4, <1>5, <1>6 DEF Worked

\* The file, read: nothing of it is decided yet.
LEMMA FileRead ==
    ASSUME NEW t, NEW d, NEW m, Worked(t, d, m), t.kind \in {"import", "restore"}, t.at = "file",
           NEW f, IsBackup(f), NEW u, u = [t EXCEPT !.from = f, !.at = "cores"]
    PROVE  Worked(u, d, m)
<1>1. t \in TaskRecords /\ f \in Backups
  BY TaskFacts, BackupFacts DEF Worked
<1>2. /\ u \in TaskRecords /\ u.kind = t.kind /\ u.at = "cores" /\ u.from = f /\ u.have = t.have
      /\ u.plan = t.plan /\ u.report = t.report /\ u.core = t.core /\ u.calm = t.calm
  BY <1>1 DEF TaskRecords, Stages
<1>3. TaskOK(u)
  BY <1>2, TaskFacts
<1>4. QED
  BY <1>2, <1>3 DEF Worked, Redetecting, Restoring, Restored, Sorted, Silent, Done, Adding

\* A table, read: while nobody else writes, it is the one there is.
LEMMA CoresRead ==
    ASSUME NEW t, NEW d, NEW m, Worked(t, d, m), d \in Configurations,
           NEW b, \/ t.kind \in {"export", "import", "restore"} /\ t.at = "cores" /\ b = "proxies"
                  \/ t.kind = "redetect" /\ t.at = "cores" /\ b = "writing" /\ t.core \in DOMAIN d.cores \cap m
                  \/ t.kind = "import" /\ t.at = "adding cores" /\ b = "adding proxies" /\ DOMAIN t.plan.cores = {},
           NEW u, u = [t EXCEPT !.have.cores = d.cores, !.at = b]
    PROVE  Worked(u, d, m)
<1>1. t \in TaskRecords
  BY TaskFacts DEF Worked
<1>2. PICK have \in Configurations : have = t.have
  BY <1>1 DEF TaskRecords
<1>3. PICK h \in Configurations : /\ h = [have EXCEPT !.cores = d.cores] /\ h.cores = d.cores
                                  /\ h.proxies = have.proxies
  BY HaveSteps
<1>4. b \in Stages
  BY DEF Stages
<1>5. /\ u \in TaskRecords /\ u.kind = t.kind /\ u.at = b /\ u.from = t.from /\ u.have = h
      /\ u.plan = t.plan /\ u.report = t.report /\ u.core = t.core /\ u.calm = t.calm
  BY <1>1, <1>2, <1>3, <1>4 DEF TaskRecords
<1>6. TaskOK(u) /\ Placed(u.plan.profiles) /\ Redetecting(u, m)
  BY <1>3, <1>5, TaskFacts DEF Worked, Redetecting
<1>7. Restoring(u) /\ Restored(u, d)
  BY <1>5 DEF Worked, Restoring, Restored
<1>8. Sorted(u)
  BY <1>2, <1>3, <1>5 DEF Worked, Sorted, Done, Adding
<1>9. Silent(u, d)
  BY <1>2, <1>3, <1>5 DEF Worked, Silent, Done, Adding
<1>10. QED
  BY <1>6, <1>7, <1>8, <1>9 DEF Worked

\* The proxies likewise.
LEMMA ProxiesRead ==
    ASSUME NEW t, NEW d, NEW m, Worked(t, d, m), d \in Configurations,
           NEW b, \/ t.kind \in {"export", "import", "restore"} /\ t.at = "proxies" /\ b = "profiles"
                  \/ t.kind = "import" /\ t.at = "adding proxies" /\ b = "adding profiles" /\ DOMAIN t.plan.proxies = {},
           NEW u, u = [t EXCEPT !.have.proxies = d.proxies, !.at = b]
    PROVE  Worked(u, d, m)
<1>1. t \in TaskRecords
  BY TaskFacts DEF Worked
<1>2. PICK have \in Configurations : have = t.have
  BY <1>1 DEF TaskRecords
<1>3. PICK h \in Configurations : /\ h = [have EXCEPT !.proxies = d.proxies] /\ h.proxies = d.proxies
                                  /\ h.cores = have.cores
  BY HaveSteps
<1>4. b \in Stages
  BY DEF Stages
<1>5. /\ u \in TaskRecords /\ u.kind = t.kind /\ u.at = b /\ u.from = t.from /\ u.have = h
      /\ u.plan = t.plan /\ u.report = t.report /\ u.core = t.core /\ u.calm = t.calm
  BY <1>1, <1>2, <1>3, <1>4 DEF TaskRecords
<1>6. TaskOK(u) /\ Placed(u.plan.profiles) /\ Redetecting(u, m)
  BY <1>3, <1>5, TaskFacts DEF Worked, Redetecting
<1>7. Restoring(u) /\ Restored(u, d)
  BY <1>5 DEF Worked, Restoring, Restored
<1>8. Sorted(u)
  BY <1>2, <1>3, <1>5 DEF Worked, Sorted, Done, Adding
<1>9. Silent(u, d)
  BY <1>2, <1>3, <1>5 DEF Worked, Silent, Done, Adding
<1>10. QED
  BY <1>6, <1>7, <1>8, <1>9 DEF Worked

\* An import decides.
LEMMA Decided ==
    ASSUME NEW t, NEW d, NEW m, Worked(t, d, m), d \in Configurations, t.kind = "import", t.at = "profiles",
           NEW h, h = [t.have EXCEPT !.profiles = d.profiles],
           NEW u, u = [t EXCEPT !.have = h, !.plan = PlanImport(t.from, h).plan,
                                !.report = PlanImport(t.from, h).report, !.at = "adding cores"]
    PROVE  Worked(u, d, m)
<1>1. t \in TaskRecords
  BY TaskFacts DEF Worked
<1>2. PICK have \in Configurations : have = t.have
  BY <1>1 DEF TaskRecords
<1>3. h \in Configurations /\ h.profiles = d.profiles /\ h.cores = have.cores /\ h.proxies = have.proxies
  <2>1. PICK g \in Configurations : /\ g = [have EXCEPT !.profiles = d.profiles] /\ g.profiles = d.profiles
                                    /\ g.cores = have.cores /\ g.proxies = have.proxies
    BY HaveSteps
  <2>2. h = g
    BY <1>2, <2>1
  <2>3. QED
    BY <2>1, <2>2
<1>4. PICK from : from = t.from /\ IsBackup(from)
  BY DEF Worked, TaskOK
<1>5. PICK plan, report : plan = PlanImport(from, h).plan /\ report = PlanImport(from, h).report
  OBVIOUS
<1>6. /\ IsBackup(plan) /\ report \in Reports
      /\ Part(plan.cores, from.cores) /\ New(plan.cores, h.cores)
      /\ Part(plan.proxies, from.proxies) /\ New(plan.proxies, h.proxies)
      /\ Placed(plan.profiles)
      /\ ~NeedsAttention(report) =>
             /\ Left(from.cores, plan.cores, h.cores)
             /\ Left(from.proxies, plan.proxies, h.proxies)
             /\ LeftProfiles(from.profiles, plan.profiles, h.profiles)
  BY <1>3, <1>4, <1>5, PlanImportFacts
<1>7. /\ u \in TaskRecords /\ u.kind = t.kind /\ u.at = "adding cores" /\ u.from = t.from /\ u.have = h
      /\ u.plan = plan /\ u.report = report /\ u.core = t.core /\ u.calm = t.calm
  <2>1. plan \in Backups
    BY <1>6, BackupFacts
  <2>2. u = [t EXCEPT !.have = h, !.plan = plan, !.report = report, !.at = "adding cores"]
    BY <1>4, <1>5
  <2>3. QED
    BY <1>1, <1>3, <1>6, <2>1, <2>2 DEF TaskRecords, Stages
<1>8. TaskOK(u) /\ Placed(u.plan.profiles) /\ Redetecting(u, m) /\ Restoring(u) /\ Restored(u, d)
  BY <1>6, <1>7, TaskFacts DEF Redetecting, Restoring, Restored
<1>9. Sorted(u)
  BY <1>4, <1>6, <1>7 DEF Sorted, Done
<1>10. Silent(u, d)
  <2>1. t.calm => h.cores = d.cores /\ h.proxies = d.proxies
    BY <1>2, <1>3 DEF Worked, Silent
  <2>2. QED
    BY <1>3, <1>4, <1>6, <1>7, <2>1 DEF Silent
<1>11. QED
  BY <1>8, <1>9, <1>10 DEF Worked

\* One row less to write.
Shorter(rest, plan) ==
    /\ IsBackup(rest)
    /\ \A i \in DOMAIN rest.cores : i \in DOMAIN plan.cores /\ rest.cores[i] = plan.cores[i]
    /\ \A i \in DOMAIN rest.proxies : i \in DOMAIN plan.proxies /\ rest.proxies[i] = plan.proxies[i]
    /\ \A i \in DOMAIN rest.profiles : i \in DOMAIN plan.profiles /\ rest.profiles[i] = plan.profiles[i]

\* A plan with one row taken off is shorter, and the other two lists are the same.
LEMMA RestFacts ==
    ASSUME NEW p, IsBackup(p), NEW i
    PROVE  /\ \A q : q = [p EXCEPT !.cores = Without(@, i)] =>
                  /\ Shorter(q, p) /\ q.cores = Without(p.cores, i) /\ q.proxies = p.proxies /\ q.profiles = p.profiles
           /\ \A q : q = [p EXCEPT !.proxies = Without(@, i)] =>
                  /\ Shorter(q, p) /\ q.proxies = Without(p.proxies, i) /\ q.cores = p.cores /\ q.profiles = p.profiles
           /\ \A q : q = [p EXCEPT !.profiles = Without(@, i)] =>
                  /\ Shorter(q, p) /\ q.profiles = Without(p.profiles, i) /\ q.cores = p.cores /\ q.proxies = p.proxies
<1>1. ASSUME NEW rows
      PROVE  \A j \in DOMAIN Without(rows, i) : j \in DOMAIN rows /\ Without(rows, i)[j] = rows[j]
  BY DEF Without, Restrict
<1>2. ASSUME NEW q, q = [p EXCEPT !.cores = Without(@, i)]
      PROVE  /\ Shorter(q, p) /\ q.cores = Without(p.cores, i) /\ q.proxies = p.proxies /\ q.profiles = p.profiles
  <2>1. PICK b : b = q
    OBVIOUS
  <2>2. b = [credentials |-> p.credentials, cores |-> Without(p.cores, i), proxies |-> p.proxies, profiles |-> p.profiles]
    BY <1>2, <2>1, PlanSteps
  <2>3. b.cores = Without(p.cores, i) /\ b.proxies = p.proxies /\ b.profiles = p.profiles
    BY <2>2
  <2>4. IsBackup(q)
    BY <1>2, PlanSteps
  <2>5. Shorter(b, p)
    BY <1>1, <2>1, <2>3, <2>4 DEF Shorter
  <2>6. QED
    BY <2>1, <2>3, <2>5
<1>3. ASSUME NEW q, q = [p EXCEPT !.proxies = Without(@, i)]
      PROVE  /\ Shorter(q, p) /\ q.proxies = Without(p.proxies, i) /\ q.cores = p.cores /\ q.profiles = p.profiles
  <2>1. PICK b : b = q
    OBVIOUS
  <2>2. b = [credentials |-> p.credentials, cores |-> p.cores, proxies |-> Without(p.proxies, i), profiles |-> p.profiles]
    BY <1>3, <2>1, PlanSteps
  <2>3. b.proxies = Without(p.proxies, i) /\ b.cores = p.cores /\ b.profiles = p.profiles
    BY <2>2
  <2>4. IsBackup(q)
    BY <1>3, PlanSteps
  <2>5. Shorter(b, p)
    BY <1>1, <2>1, <2>3, <2>4 DEF Shorter
  <2>6. QED
    BY <2>1, <2>3, <2>5
<1>4. ASSUME NEW q, q = [p EXCEPT !.profiles = Without(@, i)]
      PROVE  /\ Shorter(q, p) /\ q.profiles = Without(p.profiles, i) /\ q.cores = p.cores /\ q.proxies = p.proxies
  <2>1. PICK b : b = q
    OBVIOUS
  <2>2. b = [credentials |-> p.credentials, cores |-> p.cores, proxies |-> p.proxies, profiles |-> Without(p.profiles, i)]
    BY <1>4, <2>1, PlanSteps
  <2>3. b.profiles = Without(p.profiles, i) /\ b.cores = p.cores /\ b.proxies = p.proxies
    BY <2>2
  <2>4. IsBackup(q)
    BY <1>4, PlanSteps
  <2>5. Shorter(b, p)
    BY <1>1, <2>1, <2>3, <2>4 DEF Shorter
  <2>6. QED
    BY <2>1, <2>3, <2>5
<1>5. QED
  BY <1>2, <1>3, <1>4

\* The same task with less to write; it has something to tell, or no more than it had.
Moved(u, t, rest) ==
    /\ u \in TaskRecords /\ u.kind = t.kind /\ u.at = t.at /\ u.from = t.from /\ u.have = t.have
    /\ u.plan = rest /\ u.core = t.core /\ u.calm = t.calm
AsLoud(u, t) == NeedsAttention(u.report) <=> NeedsAttention(t.report)
Loud(u) == NeedsAttention(u.report)

\* What is left to write after one row is still of the file and still new.
LEMMA OneRowLess ==
    ASSUME NEW t, NEW d, NEW m, Worked(t, d, m), t.kind = "import", t.at \in Adding,
           NEW rest, Shorter(rest, t.plan), NEW e, NEW n, NEW u, Moved(u, t, rest)
    PROVE  TaskOK(u) /\ Placed(u.plan.profiles) /\ Redetecting(u, n) /\ Restoring(u) /\ Restored(u, e) /\ Sorted(u)
<1>1. /\ u \in TaskRecords /\ u.kind = t.kind /\ u.at = t.at /\ u.from = t.from /\ u.have = t.have
      /\ u.plan = rest /\ u.core = t.core /\ u.calm = t.calm
  BY DEF Moved
<1>2. TaskOK(u) /\ Redetecting(u, n) /\ Restoring(u) /\ Restored(u, e)
  BY <1>1, TaskFacts DEF Redetecting, Restoring, Restored
<1>3. Placed(u.plan.profiles)
  BY <1>1 DEF Shorter, Worked, Placed
<1>4. PICK plan : plan = t.plan
  OBVIOUS
<1>5. \A rows : /\ Part(plan.cores, rows) => Part(rest.cores, rows)
                /\ Part(plan.proxies, rows) => Part(rest.proxies, rows)
  BY <1>4 DEF Shorter, Part
<1>6. \A held : /\ New(plan.cores, held) => New(rest.cores, held)
                /\ New(plan.proxies, held) => New(rest.proxies, held)
  BY <1>4 DEF Shorter, New
<1>7. /\ DOMAIN plan.cores = {} => DOMAIN rest.cores = {}
      /\ DOMAIN plan.proxies = {} => DOMAIN rest.proxies = {}
  BY <1>4 DEF Shorter
<1>8. Sorted(u)
  BY <1>1, <1>4, <1>5, <1>6, <1>7 DEF Worked, Sorted, Done, Adding
<1>9. QED
  BY <1>2, <1>3, <1>8

\* A row that is refused is named.
LEMMA NotWritten ==
    ASSUME NEW t, NEW d, NEW m, Worked(t, d, m), t.kind = "import", t.at \in Adding,
           NEW rest, Shorter(rest, t.plan), NEW u, Moved(u, t, rest), Loud(u)
    PROVE  Worked(u, d, m)
<1>1. TaskOK(u) /\ Placed(u.plan.profiles) /\ Redetecting(u, m) /\ Restoring(u) /\ Restored(u, d) /\ Sorted(u)
  BY OneRowLess
<1>2. Silent(u, d)
  BY DEF Worked, Silent, Done, Adding, Moved, Loud
<1>3. QED
  BY <1>1, <1>2 DEF Worked

\* A row that is written is the file's, and no other row of the file has its identifier.
LEMMA LeftStep ==
    ASSUME NEW I, NEW R, NEW rows, NEW todo, NEW t \in Tables(I, R), Left(rows, todo, t), Part(todo, rows),
           NEW i \in DOMAIN todo, todo[i] \in Rows(I, R), ~Repeats(rows)
    PROVE  Left(rows, Without(todo, i), Saved(t, todo[i].id, todo[i].is))
<1>1. PICK id \in I, r \in R : todo[i].id = id /\ todo[i].is = r
  BY DEF Rows
<1>2. PICK v : v = Saved(t, id, r)
  OBVIOUS
<1>3. DOMAIN v = DOMAIN t \cup {id} /\ v[id] = r /\ \A x \in DOMAIN t : x # id => v[x] = t[x]
  BY <1>2, SavedFacts
<1>4. DOMAIN Without(todo, i) = DOMAIN todo \ {i}
  BY DEF Without, Restrict
<1>5. i \in DOMAIN rows /\ rows[i].id = id /\ rows[i].is = r
  BY <1>1 DEF Part
<1>6. \A j \in DOMAIN rows : j # i => rows[j].id # id
  BY <1>5 DEF Repeats
<1>7. Left(rows, Without(todo, i), v)
  BY <1>3, <1>4, <1>5, <1>6 DEF Left
<1>8. QED
  BY <1>1, <1>2, <1>7

\* The same of a profile, which is stored as the plan has it.
LEMMA LeftProfilesStep ==
    ASSUME NEW I, NEW R, NEW rows, NEW todo, NEW t \in Tables(I, R), LeftProfiles(rows, todo, t),
           NEW i \in DOMAIN todo, NEW id \in I, NEW r \in R, todo[i].id = id, todo[i].is = r, id \notin DOMAIN t
    PROVE  LeftProfiles(rows, Without(todo, i), Saved(t, id, r))
<1>1. PICK v : v = Saved(t, id, r)
  OBVIOUS
<1>2. DOMAIN v = DOMAIN t \cup {id} /\ v[id] = r /\ \A x \in DOMAIN t : x # id => v[x] = t[x]
  BY <1>1 DEF Saved
<1>3. PICK less : less = Without(todo, i)
  OBVIOUS
<1>4. DOMAIN less = DOMAIN todo \ {i} /\ \A j \in DOMAIN less : less[j] = todo[j]
  BY <1>3 DEF Without, Restrict
<1>5. LeftProfiles(rows, less, v)
  BY <1>2, <1>4 DEF LeftProfiles
<1>6. QED
  BY <1>1, <1>3, <1>5

\* A core of the plan is stored.
LEMMA CoreAdded ==
    ASSUME NEW t, NEW d, NEW m, Holds(d, m), Worked(t, d, m), t.kind = "import", t.at = "adding cores",
           NEW i \in Firsts(t.plan.cores), NEW id, NEW r,
           id = t.plan.cores[i].id, r = t.plan.cores[i].is,
           NEW rest, Shorter(rest, t.plan), rest.cores = Without(t.plan.cores, i),
           rest.proxies = t.plan.proxies, rest.profiles = t.plan.profiles,
           NEW u, Moved(u, t, rest), AsLoud(u, t),
           NEW e, e = SavedCore(d, id, r)
    PROVE  Worked(u, e, m \cup {id})
<1>1. PICK plan : plan = t.plan /\ IsBackup(plan)
  BY DEF Worked, TaskOK
<1>2. /\ u.kind = t.kind /\ u.at = t.at /\ u.from = t.from /\ u.plan = rest /\ u.calm = t.calm
      /\ NeedsAttention(u.report) <=> NeedsAttention(t.report)
  BY DEF Moved, AsLoud
<1>3. /\ TaskOK(u) /\ Placed(u.plan.profiles) /\ Redetecting(u, m \cup {id}) /\ Restoring(u)
      /\ Restored(u, e) /\ Sorted(u)
  BY OneRowLess DEF Adding
<1>4. PICK todo : todo = plan.cores /\ IsList(todo, Rows(CoreIds, CoreOf))
  BY <1>1 DEF IsBackup
<1>5. /\ rest.cores = Without(todo, i) /\ rest.proxies = plan.proxies /\ rest.profiles = plan.profiles
  BY <1>1, <1>4
<1>6. PICK held \in Tables(CoreIds, CoreOf) : held = d.cores
  BY DEF Holds, Configurations
<1>7. e.cores = Saved(held, todo[i].id, todo[i].is) /\ e.proxies = d.proxies /\ e.profiles = d.profiles
  <2>1. d = [cores |-> d.cores, proxies |-> d.proxies, profiles |-> d.profiles]
    BY DEF Holds, Configurations
  <2>2. id = todo[i].id /\ r = todo[i].is
    BY <1>1, <1>4
  <2>3. PICK v : v = Saved(held, id, r)
    OBVIOUS
  <2>4. e = [d EXCEPT !.cores = v]
    BY <1>6, <2>3 DEF SavedCore
  <2>5. [d EXCEPT !.cores = v] = [[cores |-> d.cores, proxies |-> d.proxies, profiles |-> d.profiles] EXCEPT !.cores = v]
    BY <2>1
  <2>6. e.cores = v /\ e.proxies = d.proxies /\ e.profiles = d.profiles
    BY <2>4, <2>5
  <2>7. QED
    BY <2>2, <2>3, <2>6
<1>8. i \in DOMAIN todo /\ todo[i] \in Rows(CoreIds, CoreOf)
  BY <1>1, <1>4 DEF Firsts, IsList
<1>9. ASSUME t.calm, ~NeedsAttention(t.report), ~Repeats(t.from.cores), ~Repeats(t.from.proxies)
      PROVE  Left(t.from.cores, rest.cores, e.cores)
  <2>1. PICK rows : rows = t.from.cores
    OBVIOUS
  <2>2. Left(rows, todo, held) /\ Part(todo, rows) /\ ~Repeats(rows)
    BY <1>1, <1>4, <1>6, <1>9, <2>1 DEF Worked, Silent, Sorted, Adding
  <2>3. Left(rows, Without(todo, i), Saved(held, todo[i].id, todo[i].is))
    BY <1>8, <2>2, LeftStep
  <2>4. QED
    BY <1>5, <1>7, <2>1, <2>3
<1>10. Silent(u, e)
  <2>1. ASSUME t.calm, ~NeedsAttention(t.report), ~Repeats(t.from.cores), ~Repeats(t.from.proxies)
        PROVE  Left(t.from.proxies, t.plan.proxies, d.proxies) /\ LeftProfiles(t.from.profiles, t.plan.profiles, d.profiles)
    BY <2>1 DEF Worked, Silent, Adding
  <2>2. QED
    BY <1>2, <1>1, <1>5, <1>7, <1>9, <2>1 DEF Silent, Done
<1>11. QED
  BY <1>3, <1>10 DEF Worked

\* A proxy of the plan is stored.
LEMMA ProxyAdded ==
    ASSUME NEW t, NEW d, NEW m, Holds(d, m), Worked(t, d, m), t.kind = "import", t.at = "adding proxies",
           NEW i \in Firsts(t.plan.proxies), NEW id, NEW r,
           id = t.plan.proxies[i].id, r = t.plan.proxies[i].is,
           NEW rest, Shorter(rest, t.plan), rest.proxies = Without(t.plan.proxies, i),
           rest.cores = t.plan.cores, rest.profiles = t.plan.profiles,
           NEW u, Moved(u, t, rest), AsLoud(u, t),
           NEW e, e = SavedProxy(d, id, r)
    PROVE  Worked(u, e, m \cup {id})
<1>1. PICK plan : plan = t.plan /\ IsBackup(plan)
  BY DEF Worked, TaskOK
<1>2. /\ u.kind = t.kind /\ u.at = t.at /\ u.from = t.from /\ u.plan = rest /\ u.calm = t.calm
      /\ NeedsAttention(u.report) <=> NeedsAttention(t.report)
  BY DEF Moved, AsLoud
<1>3. /\ TaskOK(u) /\ Placed(u.plan.profiles) /\ Redetecting(u, m \cup {id}) /\ Restoring(u)
      /\ Restored(u, e) /\ Sorted(u)
  BY OneRowLess DEF Adding
<1>4. PICK todo : todo = plan.proxies /\ IsList(todo, Rows(ProxyIds, ProxyOf))
  BY <1>1 DEF IsBackup
<1>5. /\ rest.proxies = Without(todo, i) /\ rest.cores = plan.cores /\ rest.profiles = plan.profiles
  BY <1>1, <1>4
<1>6. PICK held \in Tables(ProxyIds, ProxyOf) : held = d.proxies
  BY DEF Holds, Configurations
<1>7. e.proxies = Saved(held, todo[i].id, todo[i].is) /\ e.cores = d.cores /\ e.profiles = d.profiles
  <2>1. d = [cores |-> d.cores, proxies |-> d.proxies, profiles |-> d.profiles]
    BY DEF Holds, Configurations
  <2>2. id = todo[i].id /\ r = todo[i].is
    BY <1>1, <1>4
  <2>3. PICK v : v = Saved(held, id, r)
    OBVIOUS
  <2>4. e = [d EXCEPT !.proxies = v]
    BY <1>6, <2>3 DEF SavedProxy
  <2>5. [d EXCEPT !.proxies = v] = [[cores |-> d.cores, proxies |-> d.proxies, profiles |-> d.profiles] EXCEPT !.proxies = v]
    BY <2>1
  <2>6. e.proxies = v /\ e.cores = d.cores /\ e.profiles = d.profiles
    BY <2>4, <2>5
  <2>7. QED
    BY <2>2, <2>3, <2>6
<1>8. i \in DOMAIN todo /\ todo[i] \in Rows(ProxyIds, ProxyOf)
  BY <1>1, <1>4 DEF Firsts, IsList
<1>9. ASSUME t.calm, ~NeedsAttention(t.report), ~Repeats(t.from.cores), ~Repeats(t.from.proxies)
      PROVE  Left(t.from.proxies, rest.proxies, e.proxies)
  <2>1. PICK rows : rows = t.from.proxies
    OBVIOUS
  <2>2. Left(rows, todo, held) /\ Part(todo, rows) /\ ~Repeats(rows)
    BY <1>1, <1>4, <1>6, <1>9, <2>1 DEF Worked, Silent, Sorted, Adding
  <2>3. Left(rows, Without(todo, i), Saved(held, todo[i].id, todo[i].is))
    BY <1>8, <2>2, LeftStep
  <2>4. QED
    BY <1>5, <1>7, <2>1, <2>3
<1>10. Silent(u, e)
  <2>1. ASSUME t.calm, ~NeedsAttention(t.report), ~Repeats(t.from.cores), ~Repeats(t.from.proxies)
        PROVE  Left(t.from.cores, t.plan.cores, d.cores) /\ LeftProfiles(t.from.profiles, t.plan.profiles, d.profiles)
    BY <2>1 DEF Worked, Silent, Adding
  <2>2. QED
    BY <1>2, <1>1, <1>5, <1>7, <1>9, <2>1 DEF Silent, Done
<1>11. QED
  BY <1>3, <1>10 DEF Worked

\* A profile is inserted as the plan has it: one whose proxy is lost is noted.
LEMMA ProfileAdded ==
    ASSUME NEW t, NEW d, NEW m, Holds(d, m), Worked(t, d, m), t.kind = "import", t.at = "adding profiles",
           NEW i \in Firsts(t.plan.profiles), NEW id, id = t.plan.profiles[i].id, id \notin DOMAIN d.profiles,
           NEW r \in ProfileOf,
           NEW rest, Shorter(rest, t.plan), rest.profiles = Without(t.plan.profiles, i),
           rest.cores = t.plan.cores, rest.proxies = t.plan.proxies,
           NEW u, Moved(u, t, rest), Loud(u) \/ (AsLoud(u, t) /\ r = t.plan.profiles[i].is),
           NEW e, e = InsertedProfile(d, id, r)
    PROVE  Worked(u, e, m \cup {id})
<1>1. PICK plan : plan = t.plan /\ IsBackup(plan)
  BY DEF Worked, TaskOK
<1>2. /\ u.kind = t.kind /\ u.at = t.at /\ u.from = t.from /\ u.plan = rest /\ u.calm = t.calm
      /\ ~NeedsAttention(u.report) => ~NeedsAttention(t.report) /\ r = t.plan.profiles[i].is
  BY DEF Moved, AsLoud, Loud
<1>3. /\ TaskOK(u) /\ Placed(u.plan.profiles) /\ Redetecting(u, m \cup {id}) /\ Restoring(u)
      /\ Restored(u, e) /\ Sorted(u)
  BY OneRowLess DEF Adding
<1>4. PICK todo : todo = plan.profiles /\ IsList(todo, Rows(ProfileIds, ProfileOf))
  BY <1>1 DEF IsBackup
<1>5. /\ rest.profiles = Without(todo, i) /\ rest.cores = plan.cores /\ rest.proxies = plan.proxies
  BY <1>1, <1>4
<1>6. PICK held \in Tables(ProfileIds, ProfileOf) : held = d.profiles
  BY DEF Holds, Configurations
<1>7. e.profiles = Saved(held, id, r) /\ e.cores = d.cores /\ e.proxies = d.proxies
  <2>1. d = [cores |-> d.cores, proxies |-> d.proxies, profiles |-> d.profiles]
    BY DEF Holds, Configurations
  <2>2. PICK v : v = Saved(held, id, r)
    OBVIOUS
  <2>3. e = [d EXCEPT !.profiles = v]
    BY <1>6, <2>2 DEF InsertedProfile
  <2>4. [d EXCEPT !.profiles = v] = [[cores |-> d.cores, proxies |-> d.proxies, profiles |-> d.profiles] EXCEPT !.profiles = v]
    BY <2>1
  <2>5. e.profiles = v /\ e.cores = d.cores /\ e.proxies = d.proxies
    BY <2>3, <2>4
  <2>6. QED
    BY <2>2, <2>5
<1>8. i \in DOMAIN todo /\ todo[i] \in Rows(ProfileIds, ProfileOf) /\ todo[i].id = id
  BY <1>1, <1>4 DEF Firsts, IsList
<1>9. ASSUME t.calm, ~NeedsAttention(u.report), ~Repeats(t.from.cores), ~Repeats(t.from.proxies)
      PROVE  LeftProfiles(t.from.profiles, rest.profiles, e.profiles)
  <2>1. PICK rows : rows = t.from.profiles
    OBVIOUS
  <2>2. LeftProfiles(rows, todo, held)
    BY <1>2, <1>1, <1>4, <1>6, <1>9, <2>1 DEF Worked, Silent, Adding
  <2>3. id \in ProfileIds /\ r = todo[i].is /\ id \notin DOMAIN held
    BY <1>2, <1>1, <1>4, <1>6, <1>8, <1>9 DEF Rows
  <2>4. LeftProfiles(rows, Without(todo, i), Saved(held, id, r))
    BY <1>8, <2>2, <2>3, LeftProfilesStep
  <2>5. QED
    BY <1>5, <1>7, <2>1, <2>4
<1>10. Silent(u, e)
  <2>1. ASSUME t.calm, ~NeedsAttention(u.report), ~Repeats(t.from.cores), ~Repeats(t.from.proxies)
        PROVE  Left(t.from.cores, t.plan.cores, d.cores) /\ Left(t.from.proxies, t.plan.proxies, d.proxies)
    BY <1>2, <2>1 DEF Worked, Silent, Adding
  <2>2. QED
    BY <1>2, <1>1, <1>5, <1>7, <1>9, <2>1 DEF Silent, Done
<1>11. QED
  BY <1>3, <1>10 DEF Worked

-----------------------------------------------------------------------------
(* A restore, from what it read to what it replaces.                          *)

LEMMA RestoreDecided ==
    ASSUME NEW t, NEW d, NEW m, Worked(t, d, m), d \in Configurations, t.kind = "restore", t.at = "profiles",
           NEW h, h = [t.have EXCEPT !.profiles = d.profiles],
           NEW u, \/ Accepts(t.from) /\ u = [t EXCEPT !.have = h, !.plan = PlanRestore(t.from), !.at = "writing"]
                  \/ u = [t EXCEPT !.have = h, !.at = "answered"]
    PROVE  Worked(u, d, m)
<1>1. t \in TaskRecords
  BY TaskFacts DEF Worked
<1>2. PICK have \in Configurations : have = t.have
  BY <1>1 DEF TaskRecords
<1>3. PICK g \in Configurations : g = [have EXCEPT !.profiles = d.profiles]
  BY HaveSteps
<1>4. h = g
  BY <1>2, <1>3
<1>5. PICK from : from = t.from /\ IsBackup(from)
  BY DEF Worked, TaskOK
<1>6. CASE Accepts(t.from) /\ u = [t EXCEPT !.have = h, !.plan = PlanRestore(t.from), !.at = "writing"]
  <2>1. PICK plan : plan = PlanRestore(from)
    OBVIOUS
  <2>2. IsBackup(plan) /\ \A i \in DOMAIN plan.profiles : plan.profiles[i].is.dir # "gone"
    BY <1>5, <1>6, <2>1, PlanRestoreFacts
  <2>3. plan \in Backups
    BY <2>2, BackupFacts
  <2>4. u = [t EXCEPT !.have = g, !.plan = plan, !.at = "writing"]
    BY <1>4, <1>5, <1>6, <2>1
  <2>5. /\ u \in TaskRecords /\ u.kind = t.kind /\ u.at = "writing" /\ u.from = t.from
        /\ u.plan = plan /\ u.report = t.report
    BY <1>1, <2>3, <2>4 DEF TaskRecords, Stages
  <2>6. TaskOK(u)
    BY <2>5, TaskFacts
  <2>7. QED
    BY <1>5, <1>6, <2>1, <2>2, <2>5, <2>6
       DEF Worked, Placed, Redetecting, Restoring, Restored, Sorted, Silent
<1>7. CASE u = [t EXCEPT !.have = h, !.at = "answered"]
  <2>1. u = [t EXCEPT !.have = g, !.at = "answered"]
    BY <1>4, <1>7
  <2>2. /\ u \in TaskRecords /\ u.kind = t.kind /\ u.at = "answered" /\ u.plan = t.plan /\ u.report = t.report
    BY <1>1, <2>1 DEF TaskRecords, Stages
  <2>3. TaskOK(u) /\ NoReport.added = {}
    BY <2>2, TaskFacts DEF NoReport
  <2>4. u.report = NoReport
    BY <2>2 DEF Worked, Restoring
  <2>5. QED
    BY <2>2, <2>3, <2>4 DEF Worked, Redetecting, Restoring, Restored, Sorted, Silent
<1>8. QED
  BY <1>6, <1>7

\* A plan that was accepted fits, and puts the file in the database's place.
LEMMA Replaced ==
    ASSUME NEW t, NEW d, NEW m, Worked(t, d, m), t.kind = "restore", t.at = "writing",
           NEW S, S = Ids(t.plan.cores) \cup Ids(t.plan.proxies) \cup Ids(t.plan.profiles)
    PROVE  /\ Fits(t.plan)
           /\ Holds(Replacement(t.plan), m \cup S) /\ S \subseteq Ids3
           /\ \A u : u = [t EXCEPT !.at = "answered", !.report.added = S] =>
                  Worked(u, Replacement(t.plan), m \cup S)
<1>1. t \in TaskRecords
  BY TaskFacts DEF Worked
<1>2. PICK from : from = t.from /\ IsBackup(from) /\ Accepts(from)
  BY DEF Worked, TaskOK, Restoring
<1>3. PICK plan : plan = t.plan /\ plan = PlanRestore(from)
  BY <1>2 DEF Worked, Restoring
<1>4. /\ IsBackup(plan) /\ Accepts(plan) /\ plan.cores = from.cores /\ plan.proxies = from.proxies
      /\ Ids(plan.profiles) = Ids(from.profiles)
      /\ \A i \in DOMAIN plan.profiles : plan.profiles[i].is.dir # "gone"
  BY <1>2, <1>3, PlanRestoreFacts
<1>5. PICK e : e = Replacement(plan)
  OBVIOUS
<1>6. /\ Holds(e, m \cup Ids(plan.cores) \cup Ids(plan.proxies) \cup Ids(plan.profiles)) /\ Fits(plan)
      /\ DOMAIN e.cores = Ids(plan.cores) /\ AllIn(plan.cores, e.cores)
      /\ DOMAIN e.proxies = Ids(plan.proxies) /\ AllIn(plan.proxies, e.proxies)
      /\ DOMAIN e.profiles = Ids(plan.profiles)
  BY <1>4, <1>5, ReplacementFacts
<1>7. S = Ids(plan.cores) \cup Ids(plan.proxies) \cup Ids(plan.profiles)
  BY <1>3
<1>8. m \cup Ids(plan.cores) \cup Ids(plan.proxies) \cup Ids(plan.profiles) = m \cup S
  BY <1>7
<1>9. Holds(e, m \cup S)
  BY <1>6, <1>8
<1>10. PICK W \in SUBSET Ids3 : W = S
  <2>1. Ids(plan.cores) \subseteq CoreIds
    BY <1>4 DEF IsBackup, IsList, Rows, Ids
  <2>2. Ids(plan.proxies) \subseteq ProxyIds
    BY <1>4 DEF IsBackup, IsList, Rows, Ids
  <2>3. Ids(plan.profiles) \subseteq ProfileIds
    BY <1>4 DEF IsBackup, IsList, Rows, Ids
  <2>4. QED
    BY <1>7, <2>1, <2>2, <2>3 DEF Ids3
<1>11. ASSUME NEW u, u = [t EXCEPT !.at = "answered", !.report.added = S]
       PROVE  Worked(u, e, m \cup S)
  <2>1. PICK r \in Reports : r = t.report
    BY <1>1 DEF TaskRecords
  <2>2. PICK s \in Reports : s = [r EXCEPT !.added = W]
    BY ReportSteps
  <2>3. u = [t EXCEPT !.at = "answered", !.report = s]
    BY <1>10, <1>11, <2>1, <2>2
  <2>4. /\ u \in TaskRecords /\ u.kind = t.kind /\ u.at = "answered" /\ u.from = t.from
        /\ u.plan = t.plan /\ u.report = s
    BY <1>1, <2>2, <2>3 DEF TaskRecords, Stages
  <2>5. TaskOK(u) /\ Placed(u.plan.profiles) /\ Redetecting(u, m \cup S) /\ Restoring(u) /\ Sorted(u) /\ Silent(u, e)
    BY <2>4, TaskFacts DEF Worked, Redetecting, Restoring, Sorted, Silent
  <2>6. Restored(u, e)
    BY <1>2, <1>4, <1>6, <2>4 DEF Restored
  <2>7. QED
    BY <2>5, <2>6 DEF Worked
<1>12. QED
  BY <1>3, <1>5, <1>6, <1>9, <1>10, <1>11

-----------------------------------------------------------------------------
(* The steps.                                                                 *)

\* A click, once what it stores is known to hold.
LEMMA ClickKeeps ==
    ASSUME Inv, NEW e, NEW new \in SUBSET Ids3, Holds(e, minted \cup new), Clicks, Click(e, new)
    PROVE  Inv'
<1>1. PICK t : t = task
  OBVIOUS
<1>2. PICK d, m : d = db /\ m = minted
  OBVIOUS
<1>3. PICK u : u = [t EXCEPT !.calm = FALSE]
  OBVIOUS
<1>4. db' = e /\ minted' = m \cup new /\ task' = u
  BY <1>1, <1>2, <1>3 DEF Click
<1>5. Worked(u, e, m \cup new)
  BY <1>1, <1>2, <1>3, Disturbed DEF Inv
<1>6. Bounds'
  BY ConfigAssumption DEF Inv, Bounds, Click, Clicks
<1>7. QED
  BY <1>2, <1>4, <1>5, <1>6 DEF Inv

\* The user's clicks, one by one.
LEMMA UserKeeps ==
    ASSUME Inv, User
    PROVE  Inv'
<1>0. Clicks
  BY DEF User
<1>1. PICK d, m : d = db /\ m = minted /\ Holds(d, m)
  BY DEF Inv
<1>2. ASSUME NEW p \in ProfileIds, NEW r \in ProfileOf, CreateProfile(p, r)
      PROVE  Inv'
  <2>1. PICK e : e = InsertedProfile(d, p, r)
    OBVIOUS
  <2>2. Holds(e, m \cup {p})
    BY <1>1, <1>2, <2>1, ProfileStored DEF CreateProfile, Insertable
  <2>3. Click(e, {p}) /\ {p} \in SUBSET Ids3
    BY <1>1, <1>2, <2>1 DEF CreateProfile, Ids3
  <2>4. QED
    BY <1>1, <2>2, <2>3, <1>0, ClickKeeps
<1>3. ASSUME NEW p \in ProfileIds, NEW r \in ProfileOf, UpdateProfile(p, r)
      PROVE  Inv'
  <2>1. PICK e : e = InsertedProfile(d, p, r)
    OBVIOUS
  <2>2. p \in DOMAIN d.profiles /\ Resolves(d, r) /\ r.dir = d.profiles[p].dir
    BY <1>1, <1>3 DEF UpdateProfile
  <2>3. r.dir # "gone" /\ m \cup {p} = m \cup {}
    BY <1>1, <2>2 DEF Holds
  <2>4. Holds(e, m \cup {})
    BY <1>1, <2>1, <2>2, <2>3, ProfileStored
  <2>5. Click(e, {}) /\ {} \in SUBSET Ids3
    BY <1>1, <1>3, <2>1 DEF UpdateProfile
  <2>6. QED
    BY <1>1, <2>4, <2>5, <1>0, ClickKeeps
<1>4. ASSUME NEW p \in ProfileIds, NEW q \in ProfileIds, DuplicateProfile(p, q)
      PROVE  Inv'
  <2>1. p \in DOMAIN d.profiles
    BY <1>1, <1>4 DEF DuplicateProfile
  <2>2. PICK r \in ProfileOf : r = d.profiles[p]
    BY <1>1, <2>1 DEF Holds, Configurations, Tables
  <2>3. PICK s \in ProfileOf : s = [r EXCEPT !.dir = "default"] /\ s.core = r.core /\ s.proxy = r.proxy /\ s.dir # "gone"
    <3>1. PICK s : s = [r EXCEPT !.dir = "default"]
      OBVIOUS
    <3>2. s \in ProfileOf /\ s.core = r.core /\ s.proxy = r.proxy /\ s.dir # "gone"
      BY <3>1 DEF ProfileOf
    <3>3. QED
      BY <3>1, <3>2
  <2>4. Resolves(d, s)
    BY <1>1, <2>1, <2>2, <2>3 DEF Holds, Sound, Resolves
  <2>5. PICK e : e = InsertedProfile(d, q, s)
    OBVIOUS
  <2>6. Holds(e, m \cup {q})
    BY <1>1, <2>3, <2>4, <2>5, ProfileStored
  <2>7. Click(e, {q}) /\ {q} \in SUBSET Ids3
    BY <1>1, <1>4, <2>2, <2>3, <2>5 DEF DuplicateProfile, Ids3
  <2>8. QED
    BY <1>1, <2>6, <2>7, <1>0, ClickKeeps
<1>5. ASSUME NEW p \in ProfileIds, DeleteProfile(p)
      PROVE  Inv'
  <2>1. PICK e : e = [d EXCEPT !.profiles = Without(@, p)]
    OBVIOUS
  <2>2. Holds(e, m)
    BY <1>1, <2>1, ProfileRemoved
  <2>3. Click(e, {}) /\ {} \in SUBSET Ids3 /\ m \cup {} = m
    BY <1>1, <1>5, <2>1 DEF DeleteProfile
  <2>4. QED
    BY <1>1, <2>2, <2>3, <1>0, ClickKeeps
<1>6. ASSUME NEW x \in ProxyIds, NEW r \in ProxyOf, CreateProxy(x, r) \/ UpdateProxy(x, r)
      PROVE  Inv'
  <2>1. PICK e : e = SavedProxy(d, x, r)
    OBVIOUS
  <2>2. Holds(e, m \cup {x})
    BY <1>1, <2>1, ProxyStored
  <2>3. PICK new \in SUBSET Ids3 : Click(e, new) /\ m \cup new = m \cup {x}
    <3>1. CASE CreateProxy(x, r)
      <4>1. Click(e, {x}) /\ {x} \in SUBSET Ids3
        BY <1>1, <2>1, <3>1 DEF CreateProxy, Ids3
      <4>2. QED
        BY <4>1
    <3>2. CASE UpdateProxy(x, r)
      <4>1. Click(e, {}) /\ x \in DOMAIN d.proxies
        BY <1>1, <2>1, <3>2 DEF UpdateProxy
      <4>2. m \cup {} = m \cup {x} /\ {} \in SUBSET Ids3
        BY <1>1, <4>1 DEF Holds
      <4>3. QED
        BY <4>1, <4>2
    <3>3. QED
      BY <1>6, <3>1, <3>2
  <2>4. QED
    BY <1>1, <2>2, <2>3, <1>0, ClickKeeps
<1>7. ASSUME NEW x \in ProxyIds, DeleteProxy(x)
      PROVE  Inv'
  <2>1. PICK e : e = [d EXCEPT !.proxies = Without(@, x)]
    OBVIOUS
  <2>2. Holds(e, m)
    BY <1>1, <1>7, <2>1, ProxyRemoved DEF DeleteProxy
  <2>3. Click(e, {}) /\ {} \in SUBSET Ids3 /\ m \cup {} = m
    BY <1>1, <1>7, <2>1 DEF DeleteProxy
  <2>4. QED
    BY <1>1, <2>2, <2>3, <1>0, ClickKeeps
<1>8. ASSUME NEW c \in CoreIds, DeleteCore(c)
      PROVE  Inv'
  <2>1. PICK e : e = [d EXCEPT !.cores = Without(@, c)]
    OBVIOUS
  <2>2. Holds(e, m)
    BY <1>1, <1>8, <2>1, CoreRemoved DEF DeleteCore
  <2>3. Click(e, {}) /\ {} \in SUBSET Ids3 /\ m \cup {} = m
    BY <1>1, <1>8, <2>1 DEF DeleteCore
  <2>4. QED
    BY <1>1, <2>2, <2>3, <1>0, ClickKeeps
<1>9. ASSUME NEW c \in CoreIds, NEW r \in CoreOf, AddCore(c, r) \/ UpdateCore(c, r)
      PROVE  Inv'
  <2>1. UNCHANGED <<db, minted, file, task, tasks>> /\ edits < MaxEdits /\ edits' = edits + 1
        /\ saves' = saves \cup {[id |-> c, is |-> r]}
    BY <1>0, <1>9 DEF AddCore, UpdateCore, Clicks
  <2>2. Bounds'
    BY <2>1, ConfigAssumption DEF Inv, Bounds
  <2>3. QED
    BY <2>1, <2>2 DEF Inv
<1>10. QED
  BY <1>2, <1>3, <1>4, <1>5, <1>6, <1>7, <1>8, <1>9 DEF User

\* A core's save, at last written.
LEMMA SaveKeeps ==
    ASSUME Inv, NEW s \in saves, CoreSaved(s)
    PROVE  Inv'
<1>1. PICK c \in CoreIds, r \in CoreOf : s.id = c /\ s.is = r
  BY DEF Inv, Bounds
<1>2. PICK d, m : d = db /\ m = minted /\ Holds(d, m)
  BY DEF Inv
<1>3. PICK t : t = task /\ Worked(t, d, m)
  BY <1>2 DEF Inv
<1>4. PICK u : u = [t EXCEPT !.calm = FALSE]
  OBVIOUS
<1>5. PICK e, n : /\ db' = e /\ minted' = n
                  /\ \/ e = d /\ n = m
                     \/ e = SavedCore(d, c, r) /\ n = m \cup {c}
  BY <1>1, <1>2 DEF CoreSaved
<1>6. Holds(e, n)
  BY <1>2, <1>5, CoreStored
<1>7. Worked(u, e, n) /\ task' = u
  BY <1>3, <1>4, <1>5, Disturbed DEF CoreSaved
<1>8. Bounds'
  BY <1>2, <1>5 DEF Inv, Bounds, CoreSaved, Ids3
<1>9. QED
  BY <1>5, <1>6, <1>7, <1>8 DEF Inv

\* What an export writes is a backup.
LEMMA BackupIsOne ==
    ASSUME NEW have \in Configurations, NEW credentials \in {"included", "excluded"}
    PROVE  IsBackup(Backup(have, credentials))
<1>1. PICK c \in Tables(CoreIds, CoreOf), x \in Tables(ProxyIds, ProxyOf), p \in Tables(ProfileIds, ProfileOf) :
          c = have.cores /\ x = have.proxies /\ p = have.profiles
  BY DEF Configurations
<1>2. PICK y : y = [i \in DOMAIN x |-> Kept(credentials, x[i])]
  OBVIOUS
<1>3. y \in Tables(ProxyIds, ProxyOf)
  <2>1. DOMAIN x \subseteq ProxyIds /\ x \in [DOMAIN x -> ProxyOf]
    BY TableFacts
  <2>2. \A r \in ProxyOf : Kept(credentials, r) \in ProxyOf
    BY DEF Kept, ProxyOf
  <2>3. DOMAIN y = DOMAIN x /\ y \in [DOMAIN y -> ProxyOf]
    BY <1>2, <2>1, <2>2
  <2>4. QED
    BY <2>1, <2>3, TableFacts
<1>4. /\ IsList(AsRows(c), Rows(CoreIds, CoreOf)) /\ IsList(AsRows(y), Rows(ProxyIds, ProxyOf))
      /\ IsList(AsRows(p), Rows(ProfileIds, ProfileOf))
  BY <1>3, ConfigAssumption, AsRowsFacts
<1>5. Backup(have, credentials) = [credentials |-> credentials, cores |-> AsRows(c), proxies |-> AsRows(y),
                                   profiles |-> AsRows(p)]
  BY <1>1, <1>2 DEF Backup
<1>6. QED
  BY <1>4, <1>5 DEF IsBackup

\* A maintenance task is begun, reads, and answers.
LEMMA ReadKeeps ==
    ASSUME Inv,
           \/ BeginExport \/ BeginImport \/ BeginRestore \/ \E c \in CoreIds : BeginRedetect(c)
           \/ ReadFile \/ ReadCores \/ ReadProxies \/ Unreadable \/ Export \/ RedetectReads \/ RedetectWrites
           \/ Finish \/ Crash
    PROVE  Inv'
<1>1. PICK d, m : d = db /\ m = minted /\ Holds(d, m) /\ d \in Configurations
  BY DEF Inv, Holds
<1>2. PICK t : t = task /\ Worked(t, d, m) /\ t \in TaskRecords
  BY <1>1, TaskFacts DEF Inv, Worked
<1>3. ASSUME NEW u, NEW e, NEW n, task' = u, db' = e, minted' = n, Worked(u, e, n), Holds(e, n), Bounds'
      PROVE  Inv'
  BY <1>3 DEF Inv
<1>4. ASSUME NEW k \in TaskKinds, NEW at \in {"file", "cores"}, NEW c \in CoreIds \cup {Direct},
             k = "redetect" => c \in CoreIds, k = "none" => FALSE, Begin(k, at, c)
      PROVE  Inv'
  <2>1. PICK u : u = [NoTask EXCEPT !.kind = k, !.at = at, !.core = c]
    OBVIOUS
  <2>2. Worked(u, d, m)
    BY <1>4, <2>1, Begun
  <2>3. task' = u /\ db' = d /\ minted' = m
    BY <1>1, <1>4, <2>1 DEF Begin
  <2>4. Bounds'
    BY <1>4, ConfigAssumption DEF Inv, Bounds, Begin
  <2>5. QED
    BY <1>1, <1>3, <2>2, <2>3, <2>4
<1>5. ASSUME BeginExport \/ BeginImport \/ BeginRestore \/ \E c \in CoreIds : BeginRedetect(c)
      PROVE  Inv'
  <2>1. "export" \in TaskKinds /\ "import" \in TaskKinds /\ "restore" \in TaskKinds /\ "redetect" \in TaskKinds
    BY DEF TaskKinds
  <2>2. QED
    BY <1>4, <1>5, <2>1 DEF BeginExport, BeginImport, BeginRestore, BeginRedetect
<1>6. ASSUME Answer, \/ t.kind \notin {"import", "restore"} /\ db' \in Configurations
                     \/ db' = d /\ t.kind \in {"import", "restore"} /\ t.at = "file",
             NEW e, db' = e, Holds(e, m), minted' = m, Bounds'
      PROVE  Inv'
  <2>1. PICK u : u = [t EXCEPT !.at = "answered"]
    OBVIOUS
  <2>2. Worked(u, e, m)
    BY <1>2, <1>6, <2>1, Answered
  <2>3. QED
    BY <1>2, <1>3, <1>6, <2>1, <2>2 DEF Answer
<1>7. CASE ReadFile
  <2>1. Bounds' /\ db' = d /\ minted' = m
    BY <1>1, <1>7 DEF Inv, Bounds, ReadFile, Aside
  <2>2. t.kind \in {"import", "restore"} /\ t.at = "file"
    BY <1>2, <1>7 DEF ReadFile, Works
  <2>3. CASE Answer
    BY <1>1, <1>6, <2>1, <2>2, <2>3
  <2>4. ASSUME NEW f \in Edited \cup {file}, task' = [task EXCEPT !.from = f, !.at = "cores"]
        PROVE  Inv'
    <3>1. PICK g : g = f /\ IsBackup(g)
      BY ConfigAssumption DEF Inv, Bounds
    <3>2. PICK u : u = [t EXCEPT !.from = g, !.at = "cores"]
      OBVIOUS
    <3>3. Worked(u, d, m)
      BY <1>2, <2>2, <3>1, <3>2, FileRead
    <3>4. QED
      BY <1>1, <1>2, <1>3, <2>1, <2>4, <3>1, <3>2, <3>3
  <2>5. QED
    BY <1>7, <2>3, <2>4 DEF ReadFile
<1>8. CASE ReadCores
  <2>1. PICK u : u = [t EXCEPT !.have.cores = d.cores, !.at = "proxies"]
    OBVIOUS
  <2>2. Worked(u, d, m)
    BY <1>1, <1>2, <1>8, <2>1, CoresRead DEF ReadCores, Works
  <2>3. Bounds' /\ db' = d /\ minted' = m
    BY <1>1, <1>8 DEF Inv, Bounds, ReadCores, Aside
  <2>4. task' = u
    BY <1>1, <1>2, <1>8, <2>1 DEF ReadCores
  <2>5. QED
    BY <1>1, <1>3, <2>2, <2>3, <2>4
<1>9. CASE ReadProxies
  <2>1. PICK u : u = [t EXCEPT !.have.proxies = d.proxies, !.at = "profiles"]
    OBVIOUS
  <2>2. Worked(u, d, m)
    BY <1>1, <1>2, <1>9, <2>1, ProxiesRead DEF ReadProxies, Works
  <2>3. Bounds' /\ db' = d /\ minted' = m
    BY <1>1, <1>9 DEF Inv, Bounds, ReadProxies, Aside
  <2>4. task' = u
    BY <1>1, <1>2, <1>9, <2>1 DEF ReadProxies
  <2>5. QED
    BY <1>1, <1>3, <2>2, <2>3, <2>4
<1>10. CASE Export
  <2>1. PICK have \in Configurations : have = [t.have EXCEPT !.profiles = d.profiles]
    <3>1. PICK h \in Configurations : h = t.have
      BY <1>2 DEF TaskRecords
    <3>2. PICK g \in Configurations : g = [h EXCEPT !.profiles = d.profiles]
      BY <1>1, HaveSteps
    <3>3. QED
      BY <3>1, <3>2
  <2>2. ASSUME NEW credentials \in {"included", "excluded"}
        PROVE  IsBackup(Backup(have, credentials))
    BY BackupIsOne
  <2>3. IsBackup(file')
    BY <1>1, <1>2, <1>10, <2>1, <2>2 DEF Export, Inv, Bounds
  <2>4. Bounds' /\ db' = d /\ minted' = m /\ t.kind = "export" /\ Answer
    BY <1>1, <1>2, <1>10, <2>3 DEF Inv, Bounds, Export, Aside, Works
  <2>5. QED
    BY <1>1, <1>6, <2>4
<1>11. CASE RedetectReads
  <2>1. Bounds' /\ db' = d /\ minted' = m /\ t.kind = "redetect" /\ t.at = "cores"
    BY <1>1, <1>2, <1>11 DEF Inv, Bounds, RedetectReads, Aside, Works
  <2>2. CASE Answer
    BY <1>1, <1>6, <2>1, <2>2
  <2>3. CASE task.core \in DOMAIN db.cores /\ task' = [task EXCEPT !.have.cores = db.cores, !.at = "writing"]
    <3>1. PICK u : u = [t EXCEPT !.have.cores = d.cores, !.at = "writing"]
      OBVIOUS
    <3>2. t.core \in DOMAIN d.cores \cap m
      BY <1>1, <1>2, <2>3 DEF Holds
    <3>3. Worked(u, d, m)
      BY <1>1, <1>2, <2>1, <3>1, <3>2, CoresRead
    <3>4. task' = u
      BY <1>1, <1>2, <2>3, <3>1
    <3>5. QED
      BY <1>1, <1>3, <2>1, <3>3, <3>4
  <2>4. QED
    BY <1>11, <2>2, <2>3 DEF RedetectReads
<1>12. CASE RedetectWrites
  <2>1. Bounds' /\ minted' = m /\ t.kind = "redetect" /\ t.at = "writing" /\ Answer
    BY <1>1, <1>2, <1>12 DEF Inv, Bounds, RedetectWrites, Aside, Works
  <2>2. PICK c \in CoreIds : c = t.core /\ c \in DOMAIN t.have.cores /\ c \in m
    BY <1>2, <2>1 DEF Worked, Redetecting
  <2>3. PICK r \in CoreOf : r = t.have.cores[c]
    BY <1>2, <2>2 DEF TaskRecords, Configurations, Tables
  <2>4. PICK e : db' = e /\ (e = d \/ e = SavedCore(d, c, r))
    BY <1>1, <1>2, <1>12, <2>2, <2>3 DEF RedetectWrites
  <2>5. m \cup {c} = m
    BY <2>2
  <2>6. Holds(e, m)
    BY <1>1, <2>4, <2>5, CoreStored
  <2>7. e \in Configurations
    BY <2>6 DEF Holds
  <2>8. QED
    BY <1>6, <2>1, <2>4, <2>6, <2>7
<1>13. CASE Finish \/ Crash
  <2>1. PICK u : u = NoTask
    OBVIOUS
  <2>2. Worked(u, d, m)
    BY <2>1, Idle
  <2>3. Bounds' /\ db' = d /\ minted' = m /\ task' = u
    BY <1>1, <1>13, <2>1 DEF Inv, Bounds, Finish, Crash, Aside
  <2>4. QED
    BY <1>1, <1>3, <2>2, <2>3
<1>14. CASE Unreadable
  <2>1. PICK k \in TaskKinds, calm \in BOOLEAN : k = t.kind /\ calm = t.calm
    BY <1>2 DEF TaskRecords
  <2>2. PICK u : u = [NoTask EXCEPT !.kind = k, !.calm = calm]
    OBVIOUS
  <2>3. Bounds' /\ db' = d /\ minted' = m /\ task' = u /\ k # "redetect"
    BY <1>1, <1>2, <1>14, <2>1, <2>2 DEF Inv, Bounds, Unreadable, Aside
  <2>4. Worked(u, d, m)
    BY <2>2, <2>3, GaveUp
  <2>5. QED
    BY <1>1, <1>3, <2>3, <2>4
<1>15. QED
  BY <1>5, <1>7, <1>8, <1>9, <1>10, <1>11, <1>12, <1>13, <1>14

\* An import, row by row.
LEMMA RowAdded ==
    ASSUME NEW t \in TaskRecords, NEW rest, Shorter(rest, t.plan), NEW id \in Ids3,
           NEW S, S = t.report.added \cup {id}, NEW u, u = [t EXCEPT !.plan = rest, !.report.added = S]
    PROVE  Moved(u, t, rest) /\ AsLoud(u, t)
<1>1. rest \in Backups
  BY BackupFacts DEF Shorter
<1>2. PICK r \in Reports : r = t.report
  BY DEF TaskRecords
<1>3. r.added \in SUBSET Ids3
  BY DEF Reports
<1>4. S \in SUBSET Ids3 /\ S # {}
  BY <1>2, <1>3
<1>5. PICK s \in Reports : s = [r EXCEPT !.added = S] /\ (NeedsAttention(s) <=> NeedsAttention(r))
  BY <1>4, ReportSteps
<1>6. u = [t EXCEPT !.plan = rest, !.report = s]
  BY <1>2, <1>5
<1>7. QED
  BY <1>1, <1>2, <1>5, <1>6 DEF TaskRecords, Moved, AsLoud, Loud

\* A row that is refused moves the plan on and is named.
LEMMA RowFailed ==
    ASSUME NEW t \in TaskRecords, NEW rest, Shorter(rest, t.plan), NEW id \in Ids3,
           NEW S, S = t.report.failed \cup {id}, NEW u, u = [t EXCEPT !.plan = rest, !.report.failed = S]
    PROVE  Moved(u, t, rest) /\ Loud(u)
<1>1. rest \in Backups
  BY BackupFacts DEF Shorter
<1>2. PICK r \in Reports : r = t.report
  BY DEF TaskRecords
<1>3. r.failed \in SUBSET Ids3
  BY DEF Reports
<1>4. S \in SUBSET Ids3 /\ S # {}
  BY <1>2, <1>3
<1>5. PICK s \in Reports : s = [r EXCEPT !.failed = S] /\ NeedsAttention(s)
  BY <1>4, ReportSteps
<1>6. u = [t EXCEPT !.plan = rest, !.report = s]
  BY <1>2, <1>5
<1>7. QED
  BY <1>1, <1>2, <1>5, <1>6 DEF TaskRecords, Moved, AsLoud, Loud

\* So does a profile whose core is not stored.
LEMMA RowWithoutCore ==
    ASSUME NEW t \in TaskRecords, NEW rest, Shorter(rest, t.plan), NEW id \in Ids3,
           NEW S, S = t.report.missing_core \cup {id}, NEW u, u = [t EXCEPT !.plan = rest, !.report.missing_core = S]
    PROVE  Moved(u, t, rest) /\ Loud(u)
<1>1. rest \in Backups
  BY BackupFacts DEF Shorter
<1>2. PICK r \in Reports : r = t.report
  BY DEF TaskRecords
<1>3. r.missing_core \in SUBSET Ids3
  BY DEF Reports
<1>4. S \in SUBSET Ids3 /\ S # {}
  BY <1>2, <1>3
<1>5. PICK s \in Reports : s = [r EXCEPT !.missing_core = S] /\ NeedsAttention(s)
  BY <1>4, ReportSteps
<1>6. u = [t EXCEPT !.plan = rest, !.report = s]
  BY <1>2, <1>5
<1>7. QED
  BY <1>1, <1>2, <1>5, <1>6 DEF TaskRecords, Moved, AsLoud, Loud

\* What an import or a restore decides, once the three tables are read.
LEMMA DecisionKeeps ==
    ASSUME Inv, Import \/ Restore
    PROVE  Inv'
<1>1. PICK d, m : d = db /\ m = minted /\ Holds(d, m) /\ d \in Configurations
  BY DEF Inv, Holds
<1>2. PICK t : t = task /\ Worked(t, d, m)
  BY <1>1 DEF Inv
<1>3. PICK h : h = [t.have EXCEPT !.profiles = d.profiles]
  OBVIOUS
<1>4. Bounds' /\ db' = d /\ minted' = m
  BY <1>1 DEF Inv, Bounds, Import, Restore, Aside
<1>5. CASE Import
  <2>1. PICK u : u = [t EXCEPT !.have = h, !.plan = PlanImport(t.from, h).plan,
                               !.report = PlanImport(t.from, h).report, !.at = "adding cores"]
    OBVIOUS
  <2>2. Worked(u, d, m)
    BY <1>1, <1>2, <1>3, <1>5, <2>1, Decided DEF Import, Works
  <2>3. task' = u
    BY <1>1, <1>2, <1>3, <1>5, <2>1 DEF Import
  <2>4. QED
    BY <1>1, <1>4, <2>2, <2>3 DEF Inv
<1>6. CASE Restore
  <2>1. t.kind = "restore" /\ t.at = "profiles"
    BY <1>2, <1>6 DEF Restore, Works
  <2>2. PICK u : /\ task' = u
                 /\ \/ Accepts(t.from) /\ u = [t EXCEPT !.have = h, !.plan = PlanRestore(t.from), !.at = "writing"]
                    \/ u = [t EXCEPT !.have = h, !.at = "answered"]
    BY <1>1, <1>2, <1>3, <1>6 DEF Restore, Restorable, Accepts
  <2>3. Worked(u, d, m)
    BY <1>1, <1>2, <1>3, <2>1, <2>2, RestoreDecided
  <2>4. QED
    BY <1>1, <1>4, <2>2, <2>3 DEF Inv
<1>7. QED
  BY <1>5, <1>6

\* An import writes its cores: one, a refusal, or the list read again.
LEMMA AddCoresKeeps ==
    ASSUME Inv, AddCores
    PROVE  Inv'
<1>1. PICK d, m : d = db /\ m = minted /\ Holds(d, m) /\ d \in Configurations
  BY DEF Inv, Holds
<1>2. PICK t : t = task /\ Worked(t, d, m) /\ t \in TaskRecords
  BY <1>1, TaskFacts DEF Inv, Worked
<1>3. t.kind = "import" /\ t.at = "adding cores"
  BY <1>2 DEF AddCores, Works
<1>4. ASSUME NEW u, NEW e, NEW n, n \subseteq Ids3, task' = u, db' = e, minted' = n, Worked(u, e, n), Holds(e, n)
      PROVE  Inv'
  BY <1>4 DEF Inv, Bounds, AddCores
<1>5. m \subseteq Ids3
  BY <1>1 DEF Inv, Bounds
<1>6. CASE DOMAIN t.plan.cores = {} /\ task' = [t EXCEPT !.have.cores = d.cores, !.at = "adding proxies"]
           /\ UNCHANGED <<db, minted>>
  <2>1. PICK u : u = [t EXCEPT !.have.cores = d.cores, !.at = "adding proxies"]
    OBVIOUS
  <2>2. Worked(u, d, m)
    BY <1>1, <1>2, <1>3, <1>6, <2>1, CoresRead
  <2>3. QED
    BY <1>1, <1>4, <1>5, <1>6, <2>1, <2>2
<1>7. ASSUME NEW i \in Firsts(t.plan.cores), NEW b, b = t.plan.cores[i],
             NEW rest, Shorter(rest, t.plan), rest.cores = Without(t.plan.cores, i),
             rest.proxies = t.plan.proxies, rest.profiles = t.plan.profiles,
             Wrote(SavedCore(d, b.id, b.is), b.id, rest) \/ Refused(b.id, rest)
      PROVE  Inv'
  <2>1. PICK plan : plan = t.plan /\ IsBackup(plan)
    BY <1>2 DEF Worked, TaskOK
  <2>2. PICK id \in CoreIds, r \in CoreOf : id = b.id /\ r = b.is
    BY <1>7, <2>1 DEF IsBackup, IsList, Rows, Firsts
  <2>3. id \in Ids3 /\ Shorter(rest, t.plan) /\ t \in TaskRecords
    BY <1>2, <1>7 DEF Ids3
  <2>4. CASE Wrote(SavedCore(d, b.id, b.is), b.id, rest)
    <3>1. PICK S, u : S = t.report.added \cup {id} /\ u = [t EXCEPT !.plan = rest, !.report.added = S]
      OBVIOUS
    <3>2. Moved(u, t, rest) /\ AsLoud(u, t)
      BY <2>3, <3>1, RowAdded
    <3>3. PICK e : e = SavedCore(d, id, r)
      OBVIOUS
    <3>4. Worked(u, e, m \cup {id})
      <4>1. id = t.plan.cores[i].id /\ r = t.plan.cores[i].is
        BY <1>7, <2>2
      <4>2. QED
        BY <1>1, <1>2, <1>3, <1>7, <3>2, <3>3, <4>1, CoreAdded
    <3>5. Holds(e, m \cup {id})
      BY <1>1, <3>3, CoreStored
    <3>6. task' = u /\ db' = e /\ minted' = m \cup {id}
      BY <1>1, <1>2, <2>2, <2>4, <3>1, <3>3 DEF Wrote
    <3>7. QED
      BY <1>4, <1>5, <2>3, <3>4, <3>5, <3>6
  <2>5. CASE Refused(b.id, rest)
    <3>1. PICK S, u : S = t.report.failed \cup {id} /\ u = [t EXCEPT !.plan = rest, !.report.failed = S]
      OBVIOUS
    <3>2. Moved(u, t, rest) /\ Loud(u)
      BY <2>3, <3>1, RowFailed
    <3>3. Worked(u, d, m)
      BY <1>2, <1>3, <1>7, <3>2, NotWritten DEF Adding
    <3>4. task' = u /\ db' = d /\ minted' = m
      BY <1>1, <1>2, <2>2, <2>5, <3>1 DEF Refused
    <3>5. QED
      BY <1>1, <1>4, <1>5, <3>3, <3>4
  <2>6. QED
    BY <1>7, <2>4, <2>5
<1>8. QED
  <2>1. CASE \E i \in Firsts(task.plan.cores) :
            LET r == task.plan.cores[i]
                rest == [task.plan EXCEPT !.cores = Without(@, i)]
            IN  \/ ValidCore(r.is) /\ Wrote(SavedCore(db, r.id, r.is), r.id, rest)
                \/ Refused(r.id, rest)
    <3>1. PICK i \in Firsts(t.plan.cores) :
            LET r == t.plan.cores[i]
                rest == [t.plan EXCEPT !.cores = Without(@, i)]
            IN  Wrote(SavedCore(d, r.id, r.is), r.id, rest) \/ Refused(r.id, rest)
      BY <1>1, <1>2, <2>1
    <3>2. PICK b : b = t.plan.cores[i]
      OBVIOUS
    <3>3. PICK plan : plan = t.plan /\ IsBackup(plan)
      BY <1>2 DEF Worked, TaskOK
    <3>4. PICK rest : rest = [plan EXCEPT !.cores = Without(@, i)]
      OBVIOUS
    <3>5. /\ Shorter(rest, plan) /\ rest.cores = Without(plan.cores, i)
          /\ rest.proxies = plan.proxies /\ rest.profiles = plan.profiles
      BY <3>3, <3>4, RestFacts
    <3>6. Wrote(SavedCore(d, b.id, b.is), b.id, rest) \/ Refused(b.id, rest)
      BY <3>1, <3>2, <3>3, <3>4
    <3>7. QED
      BY <1>7, <3>2, <3>3, <3>5, <3>6
  <2>2. QED
    BY <1>1, <1>2, <1>6, <2>1 DEF AddCores

\* Its proxies.
LEMMA AddProxiesKeeps ==
    ASSUME Inv, AddProxies
    PROVE  Inv'
<1>1. PICK d, m : d = db /\ m = minted /\ Holds(d, m) /\ d \in Configurations
  BY DEF Inv, Holds
<1>2. PICK t : t = task /\ Worked(t, d, m) /\ t \in TaskRecords
  BY <1>1, TaskFacts DEF Inv, Worked
<1>3. t.kind = "import" /\ t.at = "adding proxies"
  BY <1>2 DEF AddProxies, Works
<1>4. ASSUME NEW u, NEW e, NEW n, n \subseteq Ids3, task' = u, db' = e, minted' = n, Worked(u, e, n), Holds(e, n)
      PROVE  Inv'
  BY <1>4 DEF Inv, Bounds, AddProxies
<1>5. m \subseteq Ids3
  BY <1>1 DEF Inv, Bounds
<1>6. CASE DOMAIN t.plan.proxies = {} /\ task' = [t EXCEPT !.have.proxies = d.proxies, !.at = "adding profiles"]
           /\ UNCHANGED <<db, minted>>
  <2>1. PICK u : u = [t EXCEPT !.have.proxies = d.proxies, !.at = "adding profiles"]
    OBVIOUS
  <2>2. Worked(u, d, m)
    BY <1>1, <1>2, <1>3, <1>6, <2>1, ProxiesRead
  <2>3. QED
    BY <1>1, <1>4, <1>5, <1>6, <2>1, <2>2
<1>7. ASSUME NEW i \in Firsts(t.plan.proxies), NEW b, b = t.plan.proxies[i],
             NEW rest, Shorter(rest, t.plan), rest.proxies = Without(t.plan.proxies, i),
             rest.cores = t.plan.cores, rest.profiles = t.plan.profiles,
             Wrote(SavedProxy(d, b.id, b.is), b.id, rest) \/ Refused(b.id, rest)
      PROVE  Inv'
  <2>1. PICK plan : plan = t.plan /\ IsBackup(plan)
    BY <1>2 DEF Worked, TaskOK
  <2>2. PICK id \in ProxyIds, r \in ProxyOf : id = b.id /\ r = b.is
    BY <1>7, <2>1 DEF IsBackup, IsList, Rows, Firsts
  <2>3. id \in Ids3 /\ Shorter(rest, t.plan) /\ t \in TaskRecords
    BY <1>2, <1>7 DEF Ids3
  <2>4. CASE Wrote(SavedProxy(d, b.id, b.is), b.id, rest)
    <3>1. PICK S, u : S = t.report.added \cup {id} /\ u = [t EXCEPT !.plan = rest, !.report.added = S]
      OBVIOUS
    <3>2. Moved(u, t, rest) /\ AsLoud(u, t)
      BY <2>3, <3>1, RowAdded
    <3>3. PICK e : e = SavedProxy(d, id, r)
      OBVIOUS
    <3>4. Worked(u, e, m \cup {id})
      <4>1. id = t.plan.proxies[i].id /\ r = t.plan.proxies[i].is
        BY <1>7, <2>2
      <4>2. QED
        BY <1>1, <1>2, <1>3, <1>7, <3>2, <3>3, <4>1, ProxyAdded
    <3>5. Holds(e, m \cup {id})
      BY <1>1, <3>3, ProxyStored
    <3>6. task' = u /\ db' = e /\ minted' = m \cup {id}
      BY <1>1, <1>2, <2>2, <2>4, <3>1, <3>3 DEF Wrote
    <3>7. QED
      BY <1>4, <1>5, <2>3, <3>4, <3>5, <3>6
  <2>5. CASE Refused(b.id, rest)
    <3>1. PICK S, u : S = t.report.failed \cup {id} /\ u = [t EXCEPT !.plan = rest, !.report.failed = S]
      OBVIOUS
    <3>2. Moved(u, t, rest) /\ Loud(u)
      BY <2>3, <3>1, RowFailed
    <3>3. Worked(u, d, m)
      BY <1>2, <1>3, <1>7, <3>2, NotWritten DEF Adding
    <3>4. task' = u /\ db' = d /\ minted' = m
      BY <1>1, <1>2, <2>2, <2>5, <3>1 DEF Refused
    <3>5. QED
      BY <1>1, <1>4, <1>5, <3>3, <3>4
  <2>6. QED
    BY <1>7, <2>4, <2>5
<1>8. QED
  <2>1. CASE \E i \in Firsts(task.plan.proxies) :
            LET r == task.plan.proxies[i]
                rest == [task.plan EXCEPT !.proxies = Without(@, i)]
            IN  \/ ValidProxy(r.is) /\ Wrote(SavedProxy(db, r.id, r.is), r.id, rest)
                \/ Refused(r.id, rest)
    <3>1. PICK i \in Firsts(t.plan.proxies) :
            LET r == t.plan.proxies[i]
                rest == [t.plan EXCEPT !.proxies = Without(@, i)]
            IN  Wrote(SavedProxy(d, r.id, r.is), r.id, rest) \/ Refused(r.id, rest)
      BY <1>1, <1>2, <2>1
    <3>2. PICK b : b = t.plan.proxies[i]
      OBVIOUS
    <3>3. PICK plan : plan = t.plan /\ IsBackup(plan)
      BY <1>2 DEF Worked, TaskOK
    <3>4. PICK rest : rest = [plan EXCEPT !.proxies = Without(@, i)]
      OBVIOUS
    <3>5. /\ Shorter(rest, plan) /\ rest.proxies = Without(plan.proxies, i)
          /\ rest.cores = plan.cores /\ rest.profiles = plan.profiles
      BY <3>3, <3>4, RestFacts
    <3>6. Wrote(SavedProxy(d, b.id, b.is), b.id, rest) \/ Refused(b.id, rest)
      BY <3>1, <3>2, <3>3, <3>4
    <3>7. QED
      BY <1>7, <3>2, <3>3, <3>5, <3>6
  <2>2. QED
    BY <1>1, <1>2, <1>6, <2>1 DEF AddProxies

\* And its profiles, whose references are looked up once more.
LEMMA AddProfilesKeeps ==
    ASSUME Inv, AddProfiles
    PROVE  Inv'
<1>1. PICK d, m : d = db /\ m = minted /\ Holds(d, m) /\ d \in Configurations
  BY DEF Inv, Holds
<1>2. PICK t : t = task /\ Worked(t, d, m) /\ t \in TaskRecords
  BY <1>1, TaskFacts DEF Inv, Worked
<1>3. t.kind = "import" /\ t.at = "adding profiles"
  BY <1>2 DEF AddProfiles, Works
<1>4. ASSUME NEW u, NEW e, NEW n, n \subseteq Ids3, task' = u, db' = e, minted' = n, Worked(u, e, n), Holds(e, n)
      PROVE  Inv'
  BY <1>4 DEF Inv, Bounds, AddProfiles
<1>5. m \subseteq Ids3
  BY <1>1 DEF Inv, Bounds
<1>6. CASE DOMAIN t.plan.profiles = {} /\ Answer /\ UNCHANGED <<db, minted>>
  <2>1. PICK u : u = [t EXCEPT !.at = "answered"]
    OBVIOUS
  <2>2. Worked(u, d, m)
    BY <1>2, <1>3, <1>6, <2>1, Answered
  <2>3. task' = u /\ db' = d /\ minted' = m
    BY <1>1, <1>2, <1>6, <2>1 DEF Answer
  <2>4. QED
    BY <1>1, <1>4, <1>5, <2>2, <2>3
<1>7. ASSUME NEW i \in Firsts(t.plan.profiles), NEW b, b = t.plan.profiles[i],
             NEW rest, Shorter(rest, t.plan), rest.profiles = Without(t.plan.profiles, i),
             rest.cores = t.plan.cores, rest.proxies = t.plan.proxies,
             AddProfile(b, rest)
      PROVE  Inv'
  <2>1. PICK plan : plan = t.plan /\ IsBackup(plan)
    BY <1>2 DEF Worked, TaskOK
  <2>2. PICK id \in ProfileIds, r \in ProfileOf : id = b.id /\ r = b.is /\ r.dir # "gone"
    <3>1. i \in DOMAIN plan.profiles /\ b \in Rows(ProfileIds, ProfileOf)
      BY <1>7, <2>1 DEF IsBackup, IsList, Firsts
    <3>2. b.is.dir # "gone"
      BY <1>2, <1>7, <2>1, <3>1 DEF Worked, Placed
    <3>3. QED
      BY <3>1, <3>2 DEF Rows
  <2>3. id \in Ids3 /\ Shorter(rest, t.plan) /\ t \in TaskRecords
    BY <1>2, <1>7 DEF Ids3
  <2>4. PICK o \in Reports : o = t.report
    BY <1>2 DEF TaskRecords
  <2>5. PICK w \in ProfileOf : w = [r EXCEPT !.proxy = Direct] /\ w.dir # "gone"
    <3>1. PICK w : w = [r EXCEPT !.proxy = Direct]
      OBVIOUS
    <3>2. w \in ProfileOf /\ w.dir = r.dir
      BY <3>1 DEF ProfileOf
    <3>3. QED
      BY <2>2, <3>1, <3>2
  <2>6. PICK arriving \in ProfileOf, x \in SUBSET Ids3, notes \in Reports :
          /\ arriving = IF r.proxy \notin DOMAIN t.have.proxies \cup {Direct} THEN w ELSE r
          /\ x = IF r.proxy \notin DOMAIN t.have.proxies \cup {Direct}
                 THEN o.missing_proxy \cup {id} ELSE o.missing_proxy
          /\ notes = [o EXCEPT !.missing_proxy = x]
          /\ arriving.dir # "gone"
          /\ NeedsAttention(notes) \/ (notes = o /\ arriving = r)
    <3>1. o.missing_proxy \in SUBSET Ids3 /\ [o EXCEPT !.missing_proxy = o.missing_proxy] = o
      BY DEF Reports
    <3>2. CASE r.proxy \notin DOMAIN t.have.proxies \cup {Direct}
      <4>1. PICK x \in SUBSET Ids3 : x = o.missing_proxy \cup {id} /\ x # {}
        BY <2>3, <3>1
      <4>2. PICK notes \in Reports : notes = [o EXCEPT !.missing_proxy = x] /\ NeedsAttention(notes)
        BY <4>1, ReportSteps
      <4>3. QED
        BY <2>5, <3>2, <4>1, <4>2
    <3>3. CASE r.proxy \in DOMAIN t.have.proxies \cup {Direct}
      BY <2>2, <3>1, <3>3
    <3>4. QED
      BY <3>2, <3>3
  <2>7. PICK added \in Reports : /\ added = [notes EXCEPT !.added = @ \cup {id}]
                                 /\ NeedsAttention(added) <=> NeedsAttention(notes)
    <3>1. PICK a \in SUBSET Ids3 : a = notes.added \cup {id}
      BY <2>3 DEF Reports
    <3>2. PICK s \in Reports : s = [notes EXCEPT !.added = a] /\ (NeedsAttention(s) <=> NeedsAttention(notes))
      BY ReportSteps
    <3>3. QED
      BY <3>1, <3>2
  <2>8. PICK failed \in Reports : failed = [notes EXCEPT !.failed = @ \cup {id}] /\ NeedsAttention(failed)
    <3>1. PICK a : a = notes.failed \cup {id}
      OBVIOUS
    <3>2. a \in SUBSET Ids3 /\ a # {}
      BY <2>3, <3>1 DEF Reports
    <3>3. PICK s \in Reports : s = [notes EXCEPT !.failed = a] /\ NeedsAttention(s)
      BY <3>2, ReportSteps
    <3>4. QED
      BY <3>1, <3>3
  <2>9. ASSUME NEW u, NEW s \in Reports, u = [t EXCEPT !.plan = rest, !.report = s]
        PROVE  Moved(u, t, rest) /\ u.report = s
    <3>1. rest \in Backups
      BY <2>3, BackupFacts DEF Shorter
    <3>2. QED
      BY <1>2, <2>9, <3>1 DEF TaskRecords, Moved
  <2>10. CASE task' = [t EXCEPT !.plan = rest, !.report.missing_core = @ \cup {id}] /\ UNCHANGED <<db, minted>>
    <3>1. PICK S, u : S = t.report.missing_core \cup {id} /\ u = [t EXCEPT !.plan = rest, !.report.missing_core = S]
      OBVIOUS
    <3>2. Moved(u, t, rest) /\ Loud(u)
      BY <2>3, <3>1, RowWithoutCore
    <3>3. Worked(u, d, m)
      BY <1>2, <1>3, <1>7, <3>2, NotWritten DEF Adding
    <3>4. task' = u /\ db' = d /\ minted' = m
      BY <1>1, <1>2, <2>10, <3>1
    <3>5. QED
      BY <1>1, <1>4, <1>5, <3>3, <3>4
  <2>11. CASE /\ Insertable(d, id, arriving)
              /\ db' = InsertedProfile(d, id, arriving) /\ minted' = m \cup {id}
              /\ task' = [t EXCEPT !.plan = rest, !.report = [notes EXCEPT !.added = @ \cup {id}]]
    <3>1. NeedsAttention(added) \/ (arriving = r /\ (NeedsAttention(added) <=> NeedsAttention(o)))
      BY <2>6, <2>7, Zenon
    <3>2. PICK u : u = [t EXCEPT !.plan = rest, !.report = added]
      OBVIOUS
    <3>3. Moved(u, t, rest) /\ u.report = added
      BY <2>9, <3>2
    <3>4. Loud(u) \/ (AsLoud(u, t) /\ arriving = t.plan.profiles[i].is)
      BY <1>7, <2>2, <2>4, <3>1, <3>3 DEF Loud, AsLoud
    <3>5. PICK e : e = InsertedProfile(d, id, arriving)
      OBVIOUS
    <3>6. Holds(e, m \cup {id})
      BY <1>1, <2>6, <2>11, <3>5, ProfileStored DEF Insertable
    <3>7. Worked(u, e, m \cup {id})
      <4>1. id = t.plan.profiles[i].id /\ id \notin DOMAIN d.profiles
        BY <1>7, <2>2, <2>11 DEF Insertable
      <4>2. QED
        BY <1>1, <1>2, <1>3, <1>7, <3>3, <3>4, <3>5, <4>1, ProfileAdded
    <3>8. task' = u /\ db' = e /\ minted' = m \cup {id}
      BY <2>7, <2>11, <3>2, <3>5
    <3>9. QED
      BY <1>4, <1>5, <2>3, <3>6, <3>7, <3>8
  <2>12. CASE /\ UNCHANGED <<db, minted>>
              /\ task' = [t EXCEPT !.plan = rest, !.report = [notes EXCEPT !.failed = @ \cup {id}]]
    <3>1. PICK u : u = [t EXCEPT !.plan = rest, !.report = failed]
      OBVIOUS
    <3>2. Moved(u, t, rest) /\ Loud(u)
      BY <2>9, <2>8, <3>1 DEF Loud
    <3>3. Worked(u, d, m)
      BY <1>2, <1>3, <1>7, <3>2, NotWritten DEF Adding
    <3>4. task' = u /\ db' = d /\ minted' = m
      BY <1>1, <2>12, <2>8, <3>1
    <3>5. QED
      BY <1>1, <1>4, <1>5, <3>3, <3>4
  <2>13. QED
    <3>1. (IF b.is.proxy \notin DOMAIN task.have.proxies \cup {Direct}
           THEN o.missing_proxy \cup {b.id} ELSE o.missing_proxy) = x
      BY <1>2, <2>2, <2>6
    <3>2. [task.report EXCEPT !.missing_proxy =
               IF b.is.proxy \notin DOMAIN task.have.proxies \cup {Direct} THEN @ \cup {b.id} ELSE @] = notes
      BY <1>2, <2>4, <2>6, <3>1
    <3>3. (IF b.is.proxy \notin DOMAIN task.have.proxies \cup {Direct}
           THEN [b.is EXCEPT !.proxy = Direct] ELSE b.is) = arriving
      BY <1>2, <2>2, <2>5, <2>6
    <3>4. \/ task' = [t EXCEPT !.plan = rest, !.report.missing_core = @ \cup {id}] /\ UNCHANGED <<db, minted>>
          \/ /\ Insertable(d, id, arriving)
             /\ db' = InsertedProfile(d, id, arriving) /\ minted' = m \cup {id}
             /\ task' = [t EXCEPT !.plan = rest, !.report = [notes EXCEPT !.added = @ \cup {id}]]
          \/ /\ UNCHANGED <<db, minted>>
             /\ task' = [t EXCEPT !.plan = rest, !.report = [notes EXCEPT !.failed = @ \cup {id}]]
      BY <1>1, <1>2, <1>7, <2>2, <3>2, <3>3 DEF AddProfile
    <3>5. QED
      BY <2>10, <2>11, <2>12, <3>4
<1>8. QED
  <2>1. CASE \E i \in Firsts(task.plan.profiles) :
            AddProfile(task.plan.profiles[i], [task.plan EXCEPT !.profiles = Without(@, i)])
    <3>1. PICK i \in Firsts(t.plan.profiles) :
            AddProfile(t.plan.profiles[i], [t.plan EXCEPT !.profiles = Without(@, i)])
      BY <1>2, <2>1
    <3>2. PICK b : b = t.plan.profiles[i]
      OBVIOUS
    <3>3. PICK plan : plan = t.plan /\ IsBackup(plan)
      BY <1>2 DEF Worked, TaskOK
    <3>4. PICK rest : rest = [plan EXCEPT !.profiles = Without(@, i)]
      OBVIOUS
    <3>5. /\ Shorter(rest, plan) /\ rest.profiles = Without(plan.profiles, i)
          /\ rest.cores = plan.cores /\ rest.proxies = plan.proxies
      BY <3>3, <3>4, RestFacts
    <3>6. AddProfile(b, rest)
      BY <3>1, <3>2, <3>3, <3>4
    <3>7. QED
      BY <1>7, <3>2, <3>3, <3>5, <3>6
  <2>2. QED
    BY <1>1, <1>2, <1>6, <2>1 DEF AddProfiles

\* The replacement, or nothing: a plan that was accepted is not refused.
LEMMA ReplaceKeeps ==
    ASSUME Inv, Replace
    PROVE  Inv'
<1>1. PICK d, m : d = db /\ m = minted /\ Holds(d, m)
  BY DEF Inv
<1>2. PICK t : t = task /\ Worked(t, d, m)
  BY <1>1 DEF Inv
<1>3. t.kind = "restore" /\ t.at = "writing"
  BY <1>2 DEF Replace, Works
<1>4. PICK S : S = Ids(t.plan.cores) \cup Ids(t.plan.proxies) \cup Ids(t.plan.profiles)
  OBVIOUS
<1>5. /\ Fits(t.plan) /\ Holds(Replacement(t.plan), m \cup S) /\ S \subseteq Ids3
      /\ \A u : u = [t EXCEPT !.at = "answered", !.report.added = S] => Worked(u, Replacement(t.plan), m \cup S)
  BY <1>2, <1>3, <1>4, Replaced
<1>6. CASE /\ db' = Replacement(t.plan)
           /\ minted' = minted \cup Ids(t.plan.cores) \cup Ids(t.plan.proxies) \cup Ids(t.plan.profiles)
           /\ task' = [t EXCEPT !.at = "answered", !.report.added =
                           Ids(t.plan.cores) \cup Ids(t.plan.proxies) \cup Ids(t.plan.profiles)]
  <2>1. PICK e, u : e = Replacement(t.plan) /\ u = [t EXCEPT !.at = "answered", !.report.added = S]
    OBVIOUS
  <2>2. db' = e /\ minted' = m \cup S /\ task' = u
    BY <1>1, <1>4, <1>6, <2>1
  <2>3. Worked(u, e, m \cup S) /\ Holds(e, m \cup S)
    BY <1>5, <2>1
  <2>4. Bounds'
    BY <1>1, <1>5, <2>2 DEF Inv, Bounds, Replace
  <2>5. QED
    BY <2>2, <2>3, <2>4 DEF Inv
<1>7. CASE Answer /\ UNCHANGED <<db, minted>>
  <2>1. PICK u : u = [t EXCEPT !.at = "answered"]
    OBVIOUS
  <2>2. Worked(u, d, m)
    BY <1>2, <1>3, <2>1, Answered
  <2>3. task' = u /\ db' = d /\ minted' = m
    BY <1>1, <1>2, <1>7, <2>1 DEF Answer
  <2>4. Bounds'
    BY <1>1, <2>3 DEF Inv, Bounds, Replace
  <2>5. QED
    BY <1>1, <2>2, <2>3, <2>4 DEF Inv
<1>8. QED
  BY <1>2, <1>5, <1>6, <1>7 DEF Replace

\* The program starts with what it stored.
LEMMA InitInv == Init => Inv
<1> SUFFICES ASSUME Init PROVE Inv
  OBVIOUS
<1>1. IsBackup(file)
  BY NothingYet, BackupFacts DEF Init
<1>2. Holds(db, minted) /\ minted \subseteq Ids3
  <2>1. db \in Configurations /\ Sound(db) /\ \A p \in DOMAIN db.profiles : db.profiles[p].dir # "gone"
    BY ConfigAssumption DEF Init
  <2>2. DOMAIN db.cores \subseteq CoreIds /\ DOMAIN db.proxies \subseteq ProxyIds /\ DOMAIN db.profiles \subseteq ProfileIds
    BY <2>1, TableFacts DEF Configurations
  <2>3. QED
    BY <2>1, <2>2 DEF Init, Holds, Ids3
<1>3. Bounds
  BY <1>1, <1>2, ConfigAssumption DEF Init, Bounds
<1>4. QED
  BY <1>2, <1>3, Idle DEF Init, Inv

\* Every step keeps the invariant.
LEMMA InvStep == Inv /\ [Next]_vars => Inv'
<1> SUFFICES ASSUME Inv, [Next]_vars PROVE Inv'
  OBVIOUS
<1>1. CASE User
  BY <1>1, UserKeeps
<1>2. CASE \E s \in saves : CoreSaved(s)
  BY <1>2, SaveKeeps
<1>3. CASE Worker
  BY <1>3, ReadKeeps, DecisionKeeps, AddCoresKeeps, AddProxiesKeeps, AddProfilesKeeps, ReplaceKeeps DEF Worker
<1>4. CASE Crash
  BY <1>4, ReadKeeps
<1>5. CASE UNCHANGED vars
  BY <1>5 DEF vars, Inv, Bounds
<1>6. QED
  BY <1>1, <1>2, <1>3, <1>4, <1>5 DEF Next

\* So it holds in every reachable state.
LEMMA SpecInv == Spec => []Inv
<1>1. QED
  BY InitInv, InvStep, PTL DEF Spec

-----------------------------------------------------------------------------
(* The theorems.                                                              *)

\* A stored profile names a core and a proxy that are stored, for any configuration the
\* program is started with and any file: the database's foreign keys, the services'
\* questions and a restore's own check leave no way around (core_service.rs:142,
\* restore.rs:142).
THEOREM NothingDangles == Spec => []NeverDangles
<1>1. ASSUME Inv PROVE NeverDangles
  <2>1. PICK t : t = task /\ TaskOK(t)
    BY <1>1 DEF Inv, Worked
  <2>2. TypeOK
    BY <1>1, <2>1 DEF Inv, Holds, Bounds, TaskOK, TypeOK
  <2>3. QED
    BY <1>1, <2>2 DEF Inv, Holds, NeverDangles
<1>2. QED
  BY <1>1, SpecInv, PTL

\* An import that had nothing to tell, and beside which nobody wrote, left the whole
\* file in the database, however many rows it has (state/configuration.rs:290).
THEOREM SilenceIsEverything == Spec => []SilenceMeansAll
<1>1. ASSUME Inv PROVE SilenceMeansAll
  <2> SUFFICES ASSUME task.kind = "import", task.at = "answered", task.from # NoFile, task.calm,
                      ~NeedsAttention(task.report), ~Repeats(task.from.cores), ~Repeats(task.from.proxies)
               PROVE  /\ AllIn(task.from.cores, db.cores) /\ AllIn(task.from.proxies, db.proxies)
                      /\ \A i \in DOMAIN task.from.profiles :
                             LET r == task.from.profiles[i]
                             IN  r.id \in DOMAIN db.profiles /\ SameProfile(r.is, db.profiles[r.id])
    BY DEF SilenceMeansAll
  <2>1. /\ Left(task.from.cores, task.plan.cores, db.cores)
        /\ Left(task.from.proxies, task.plan.proxies, db.proxies)
        /\ LeftProfiles(task.from.profiles, task.plan.profiles, db.profiles)
    BY <1>1 DEF Inv, Worked, Silent, Done
  <2>2. DOMAIN task.plan.cores = {} /\ DOMAIN task.plan.proxies = {} /\ DOMAIN task.plan.profiles = {}
    BY <1>1 DEF Inv, Worked, Sorted, Done
  <2>3. QED
    BY <2>1, <2>2 DEF Left, LeftProfiles, AllIn
<1>2. QED
  BY <1>1, SpecInv, PTL

\* A restore's plan is one the database takes, and once it has taken it the configuration
\* is the file's: the check before the transaction is as strong as the transaction's own
\* (restore.rs:142).
THEOREM RestoresLand == Spec => []RestoreLands
<1>1. ASSUME Inv PROVE RestoreLands
  <2>1. PICK t, d, m : t = task /\ d = db /\ m = minted /\ Worked(t, d, m)
    BY <1>1 DEF Inv
  <2>2. (t.kind = "restore" /\ t.at = "writing") => Fits(t.plan)
    BY <2>1, Replaced
  <2>3. QED
    BY <2>1, <2>2 DEF RestoreLands, Worked, Restored
<1>2. QED
  BY <1>1, SpecInv, PTL

\* What the importing step may do to the three tables.
OnlyAdds(d, e, have) ==
    /\ \A c \in DOMAIN d.cores : c \in DOMAIN have.cores => e.cores[c] = d.cores[c]
    /\ \A x \in DOMAIN d.proxies : x \in DOMAIN have.proxies => e.proxies[x] = d.proxies[x]
    /\ \A p \in DOMAIN d.profiles : e.profiles[p] = d.profiles[p]

\* One row written under an identifier nobody had.
LEMMA WritesKeep ==
    ASSUME NEW d \in Configurations, NEW have, NEW id, NEW r
    PROVE  /\ id \notin DOMAIN have.cores => OnlyAdds(d, SavedCore(d, id, r), have)
           /\ id \notin DOMAIN have.proxies => OnlyAdds(d, SavedProxy(d, id, r), have)
           /\ id \notin DOMAIN d.profiles => OnlyAdds(d, InsertedProfile(d, id, r), have)
<1>1. PICK c, x, p : d = [cores |-> c, proxies |-> x, profiles |-> p]
  BY DEF Configurations
<1>2. SavedCore(d, id, r) = [cores |-> Saved(c, id, r), proxies |-> x, profiles |-> p]
  BY <1>1 DEF SavedCore
<1>3. SavedProxy(d, id, r) = [cores |-> c, proxies |-> Saved(x, id, r), profiles |-> p]
  BY <1>1 DEF SavedProxy
<1>4. InsertedProfile(d, id, r) = [cores |-> c, proxies |-> x, profiles |-> Saved(p, id, r)]
  BY <1>1 DEF InsertedProfile
<1>5. ASSUME NEW t
      PROVE  \A y \in DOMAIN t : y # id => Saved(t, id, r)[y] = t[y]
  BY DEF Saved
<1>6. QED
  BY <1>1, <1>2, <1>3, <1>4, <1>5 DEF OnlyAdds

\* Whoever else takes a step - the user, a core's save - leaves the import's plan alone.
LEMMA OthersDoNotImport ==
    ASSUME Inv, [Next]_vars, Importing, db' # db
    PROVE  AddCores \/ AddProxies \/ AddProfiles
<1>1. PICK t : t = task /\ t \in TaskRecords
  BY TaskFacts DEF Inv, Worked
<1>2. t.kind = "import" /\ task'.plan # t.plan
  BY <1>1 DEF Importing
<1>3. ASSUME task' = [task EXCEPT !.calm = FALSE]
      PROVE  FALSE
  BY <1>1, <1>2, <1>3 DEF TaskRecords
<1>4. ~User
  <2>1. ASSUME NEW e, NEW new PROVE ~Click(e, new)
    BY <1>3 DEF Click
  <2>2. ASSUME NEW c, NEW r PROVE ~AddCore(c, r) /\ ~UpdateCore(c, r)
    BY DEF AddCore, UpdateCore
  <2>3. QED
    BY <2>1, <2>2 DEF User, CreateProfile, UpdateProfile, DuplicateProfile, DeleteProfile, CreateProxy,
                      UpdateProxy, DeleteProxy, DeleteCore
<1>5. ~\E s \in saves : CoreSaved(s)
  BY <1>3 DEF CoreSaved
<1>6. ~Crash /\ ~(UNCHANGED vars)
  BY DEF Crash, vars
<1>7. Worker
  BY <1>4, <1>5, <1>6 DEF Next
<1>8. ~Replace /\ ~RedetectWrites
  BY <1>1, <1>2 DEF Replace, RedetectWrites, Works
<1>9. QED
  BY <1>7, <1>8 DEF Worker, BeginExport, BeginImport, BeginRestore, BeginRedetect, Begin, ReadFile, ReadCores,
                    ReadProxies, Unreadable, Export, Import, Restore, RedetectReads, Finish

\* An import never changes and never removes what was there when it read the tables, for
\* any file and whatever the user writes meanwhile (import.rs:143).
THEOREM ImportOnlyAdds == Spec => ImportKeeps
<1>1. ASSUME Inv, [Next]_vars, Importing
      PROVE  OnlyAdds(db, db', task.have)
  <2>1. PICK d \in Configurations : d = db
    BY <1>1 DEF Inv, Holds
  <2>2. PICK t : t = task /\ Worked(t, d, minted)
    BY <1>1, <2>1 DEF Inv
  <2>3. CASE db' = db
    BY <2>3 DEF OnlyAdds
  <2>4. CASE AddCores /\ db' # db
    <3>1. PICK i \in DOMAIN t.plan.cores : db' = SavedCore(d, t.plan.cores[i].id, t.plan.cores[i].is)
      BY <2>1, <2>2, <2>4 DEF AddCores, Wrote, Refused, Firsts
    <3>2. t.plan.cores[i].id \notin DOMAIN t.have.cores
      BY <2>2, <2>4, <3>1 DEF AddCores, Works, Worked, Sorted, New
    <3>3. QED
      BY <2>1, <2>2, <3>1, <3>2, WritesKeep
  <2>5. CASE AddProxies /\ db' # db
    <3>1. PICK i \in DOMAIN t.plan.proxies : db' = SavedProxy(d, t.plan.proxies[i].id, t.plan.proxies[i].is)
      BY <2>1, <2>2, <2>5 DEF AddProxies, Wrote, Refused, Firsts
    <3>2. t.plan.proxies[i].id \notin DOMAIN t.have.proxies
      BY <2>2, <2>5, <3>1 DEF AddProxies, Works, Worked, Sorted, New
    <3>3. QED
      BY <2>1, <2>2, <3>1, <3>2, WritesKeep
  <2>6. CASE AddProfiles /\ db' # db
    <3>1. PICK b, rest : AddProfile(b, rest)
      BY <2>6 DEF AddProfiles
    <3>2. PICK id, r : db' = InsertedProfile(d, id, r) /\ id \notin DOMAIN d.profiles
      BY <2>1, <2>6, <3>1 DEF AddProfile, Insertable
    <3>3. QED
      BY <2>1, <3>2, WritesKeep
  <2>7. QED
    BY <1>1, <2>3, <2>4, <2>5, <2>6, OthersDoNotImport
<1>2. ASSUME Inv, [Next]_vars
      PROVE  [Importing =>
                /\ \A c \in DOMAIN db.cores : c \in DOMAIN task.have.cores => db'.cores[c] = db.cores[c]
                /\ \A x \in DOMAIN db.proxies : x \in DOMAIN task.have.proxies => db'.proxies[x] = db.proxies[x]
                /\ \A p \in DOMAIN db.profiles : db'.profiles[p] = db.profiles[p]]_vars
  BY <1>1, <1>2 DEF OnlyAdds
<1>3. QED
  BY <1>2, SpecInv, PTL DEF Spec, ImportKeeps

-----------------------------------------------------------------------------
(* The downloads.  RecordedWhole is not inductive: that a program is whole when   *)
(* its row is written rests on what the worker had reached when it answered, and   *)
(* on nobody writing in its place between the answer, the probe and the row.       *)

\* What the worker has reached: a whole .part before it is renamed, a whole program
\* before it is called usable.
Reached ==
    /\ worker # "idle" => answer = "none"
    /\ worker \in {"renaming", "removed"} => Here.part = "whole"
    /\ answer = "usable" => Here.program = "whole"

\* An asset that never came down is nowhere; one whose first download is under way is
\* in nobody's hands but the worker's; and one that came down once and was probed or
\* recorded is whole.  Only a core is registered.
Chain ==
    /\ kind = "engine" => adding = {} /\ probed = {}
    /\ \A i \in Items :
          /\ asked[i] = 0 => slot # i
          /\ asked[i] = 0 \/ (asked[i] = 1 /\ slot = i) => i \notin adding \cup probed \cup recorded
          /\ asked[i] = 1 /\ i \in probed \cup recorded => disk[i].program = "whole"

DownloadsInv == DownloadsTypeOK /\ NeverHalfAFile /\ Reached /\ Chain

\* NoItem is nobody's asset: the assumption on None is about this.
LEMMA NoItemIsNone == NoItem \notin Items
  BY DownloadsAssumption DEF NoItem, Items

\* Before the first download there is nothing to be wrong.
LEMMA DownloadsInitInv == DownloadsInit => DownloadsInv
  <1> SUFFICES ASSUME DownloadsInit PROVE DownloadsInv
    OBVIOUS
  <1>0. Cardinality({}) = 0
    BY FS_EmptySet
  <1>1. DownloadsTypeOK
    BY <1>0, DownloadsAssumption DEF DownloadsInit, DownloadsTypeOK, Places, States, Kinds
  <1>2. NeverHalfAFile /\ Reached /\ Chain
    BY NoItemIsNone DEF DownloadsInit, NeverHalfAFile, Reached, Chain
  <1> QED
    BY <1>1, <1>2 DEF DownloadsInv

\* The worker's file operations keep it: each writes in the slot's place only.
LEMMA WorkInv == DownloadsInv /\ Work => DownloadsInv'
  <1> SUFFICES ASSUME DownloadsInv, Work PROVE DownloadsInv'
    OBVIOUS
  <1> USE DEF DownloadsInv, Here, Put, To, Sends, Apart
  <1>0. slot \in Items /\ answer = "none" /\ worker \in {"streaming", "renaming", "removed", "unpacking"}
    BY NoItemIsNone DEF DownloadsTypeOK, Reached, Work, Stream, RemoveOld, Rename, Unpack
  <1>1. disk[slot] \in Places /\ disk[slot].file # "partial"
    BY <1>0 DEF DownloadsTypeOK, NeverHalfAFile
  <1>2. \E places \in Places : disk' = [disk EXCEPT ![slot] = places] /\ places.file # "partial"
    <2>1. CASE Stream
      BY <1>0, <1>1, <2>1 DEF Stream, Into, Places, States, DownloadsTypeOK
    <2>2. CASE RemoveOld
      <3> DEFINE places == [disk[slot] EXCEPT !.file = "none",
                                             !.program = IF Runs THEN "none" ELSE @]
      <3>1. disk' = [disk EXCEPT ![slot] = places]
        BY <2>2 DEF RemoveOld
      <3>2. places \in Places /\ places.file # "partial"
        BY <1>1 DEF Places, States
      <3> QED
        BY <3>1, <3>2
    <2>3. CASE Rename
      BY <1>0, <1>1, <2>3 DEF Rename, Places, States, Reached, DownloadsTypeOK
    <2>4. CASE Unpack
      BY <1>0, <1>1, <2>4 DEF Unpack, Places, States, DownloadsTypeOK
    <2> QED
      BY <2>1, <2>2, <2>3, <2>4 DEF Work
  <1>3. /\ worker' \in {"idle", "streaming", "renaming", "removed", "unpacking"}
        /\ answer' \in {"none", "failed", "saved", "usable"}
        /\ worker' # "idle" \/ answer' # "none"
        /\ UNCHANGED <<kind, slot, recorded, adding, probed, listing, asked, begun>>
    BY <1>0 DEF Work, Stream, RemoveOld, Rename, Unpack
  <1>4. DownloadsTypeOK'
    BY <1>0, <1>2, <1>3, NoItemIsNone DEF DownloadsTypeOK
  <1>5. NeverHalfAFile'
    BY <1>0, <1>2 DEF NeverHalfAFile, DownloadsTypeOK
  <1>6. Reached'
    <2>1. CASE Stream
      BY <1>0, <1>1, <1>3, <2>1 DEF Stream, Into, Places, DownloadsTypeOK, Reached
    <2>2. CASE RemoveOld
      BY <1>0, <1>1, <1>3, <2>2 DEF RemoveOld, Places, DownloadsTypeOK, Reached
    <2>3. CASE Rename
      BY <1>0, <1>1, <1>3, <2>3 DEF Rename, Places, DownloadsTypeOK, Reached, Runs
    <2>4. CASE Unpack
      BY <1>0, <1>1, <1>3, <2>4 DEF Unpack, Places, DownloadsTypeOK, Reached
    <2> QED
      BY <2>1, <2>2, <2>3, <2>4 DEF Work
  <1>7. Chain'
    <2> SUFFICES ASSUME NEW i \in Items, asked[i] = 1, i \in probed \cup recorded
                 PROVE disk'[i].program = "whole"
      BY <1>3 DEF Chain
    <2>1. slot # i
      BY DEF Chain
    <2> QED
      BY <1>0, <1>2, <2>1 DEF Chain, DownloadsTypeOK
  <1> QED
    BY <1>4, <1>5, <1>6, <1>7

\* Every other action leaves the disk alone; what it moves is one asset, from hand to hand.
LEMMA DownloadsStepInv == DownloadsInv /\ [DownloadsNext]_downloads => DownloadsInv'
  <1> SUFFICES ASSUME DownloadsInv, [DownloadsNext]_downloads PROVE DownloadsInv'
    OBVIOUS
  <1> USE DEF DownloadsInv
  <1>1. CASE Fetch
    BY <1>1 DEF Fetch, DownloadsTypeOK, NeverHalfAFile, Reached, Chain, Here
  <1>2. CASE Listed
    BY <1>2 DEF Listed, DownloadsTypeOK, NeverHalfAFile, Reached, Chain, Here
  <1>3. CASE Work
    BY <1>3, WorkInv
  <1>4. CASE Drain
    <2>0. slot \in Items /\ slot' = NoItem /\ worker = "idle"
      BY <1>4, NoItemIsNone DEF Drain, Emptied, DownloadsTypeOK, Reached
    <2>1. DownloadsTypeOK'
      <3>1. Cardinality({slot}) = 1
        BY FS_Singleton
      <3>2. recorded' \in SUBSET Items /\ (kind' = "engine" => Cardinality(recorded') <= 1)
        BY <1>4, <2>0, <3>1 DEF Drain, Usable, Kinds, DownloadsTypeOK
      <3> QED
        BY <1>4, <2>0, <3>2 DEF Drain, DownloadsTypeOK
    <2>2. NeverHalfAFile' /\ Reached'
      BY <1>4, <2>0 DEF Drain, NeverHalfAFile, Reached, Here
    <2>3. asked[slot] # 0 /\ (answer = "usable" => disk[slot].program = "whole")
      BY <2>0 DEF Chain, Reached, Here
    <2>4. Chain'
      BY <1>4, <2>0, <2>3, NoItemIsNone DEF Drain, Chain, Usable, Kinds, DownloadsTypeOK
    <2> QED
      BY <2>1, <2>2, <2>4
  <1>5. CASE Restart
    <2>1. DownloadsTypeOK' /\ NeverHalfAFile' /\ Reached'
      BY <1>5 DEF Restart, DownloadsTypeOK, NeverHalfAFile, Reached
    <2>2. Chain'
      BY <1>5, NoItemIsNone DEF Restart, Chain
    <2> QED
      BY <2>1, <2>2
  <1>6. ASSUME NEW i \in Items, BeginDownload(i) PROVE DownloadsInv'
    <2>1. DownloadsTypeOK'
      BY <1>6, NoItemIsNone, DownloadsAssumption DEF BeginDownload, DownloadsTypeOK
    <2>2. NeverHalfAFile' /\ Reached'
      BY <1>6 DEF BeginDownload, NeverHalfAFile, Reached, DownloadsTypeOK
    <2>3. Chain'
      BY <1>6 DEF BeginDownload, Chain, DownloadsTypeOK
    <2> QED
      BY <2>1, <2>2, <2>3
  <1>7. ASSUME NEW i \in Items, Probe(i) PROVE DownloadsInv'
    BY <1>7 DEF Probe, DownloadsTypeOK, NeverHalfAFile, Reached, Chain, Here
  <1>8. ASSUME NEW i \in Items, Register(i) PROVE DownloadsInv'
    <2>1. kind # "engine"
      BY <1>8 DEF Register, Chain
    <2> QED
      BY <1>8, <2>1 DEF Register, DownloadsTypeOK, NeverHalfAFile, Reached, Chain, Here
  <1>9. CASE UNCHANGED downloads
    BY <1>9 DEF downloads, DownloadsTypeOK, NeverHalfAFile, Reached, Chain, Here
  <1> QED
    BY <1>1, <1>2, <1>3, <1>4, <1>5, <1>6, <1>7, <1>8, <1>9 DEF DownloadsNext

\* What the database and the settings name is a whole program, as long as its asset is
\* not downloaded a second time, and no kill leaves half a file under a whole one's
\* name: whatever fails between the stream, the rename, the unpacking, the answer, the
\* probe and the row (releases.rs, core_releases.rs, xray_releases.rs).
THEOREM WholeIsRecorded == DownloadsSpec => []RecordedWhole
  <1>1. DownloadsInv => RecordedWhole
    BY DEF DownloadsInv, RecordedWhole, Chain, DownloadsTypeOK
  <1> QED
    BY <1>1, DownloadsInitInv, DownloadsStepInv, PTL DEF DownloadsSpec
=============================================================================
