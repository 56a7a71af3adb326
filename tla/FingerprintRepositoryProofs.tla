---------------------- MODULE FingerprintRepositoryProofs ----------------------
(***************************************************************************)
(* What a match and its verification rest on, for every set of genuine     *)
(* fingerprints, captures and directories: a load that succeeds holds one  *)
(* genuine record for each file that it listed, a result is verified with  *)
(* the fingerprints it was made of exactly when it is as it was made, a    *)
(* label is earned, and honest work is served.                             *)
(***************************************************************************)
EXTENDS FingerprintRepository

(* A genuine record after someone tampered with it. *)
Spoiled ==
  {[f EXCEPT !.label = "other"] : f \in Genuine}
    \cup {[f EXCEPT !.status = "software_checked"] : f \in Genuine}
    \cup {[f EXCEPT !.vector = [m \in DOMAIN @ |-> 0]] : f \in Genuine}

(* Nobody tampers twice, so what is in the directory is genuine, a link,   *)
(* or one step away from genuine.                                          *)
DirectoryKnown ==
  /\ \A n \in DOMAIN directory : directory[n] \in Genuine \cup Spoiled \cup {Link}
  /\ capture = Null => query = Null
  /\ capture = Null \/ trouble = Null => \A n \in DOMAIN directory : directory[n] \in Genuine

(* Each name is read once, and everything listed is read or still to read. *)
LoadKnown(l) ==
  /\ l = [todo |-> l.todo, listed |-> l.listed, links |-> l.links, read |-> l.read]
  /\ l.todo \in Seq(Files \cup {"s"}) /\ IsInjective(l.todo)
  /\ l.listed \subseteq Files /\ Range(l.todo) \ {"s"} \subseteq l.listed
  /\ "s" \in Range(l.todo) => l.listed \cap Range(Inner) = {}
  /\ l.read \subseteq Genuine /\ IsFiniteSet(l.read)
  /\ Cardinality(l.read) = Cardinality(l.listed \ Range(l.todo))

(* An edited result is still about the query it was made for. *)
ResultKnown ==
  /\ {"query", "references", "rejections", "comparisons", "decision"} \subseteq DOMAIN result
  /\ result.query = made.result.query
  /\ made.result = Match(made.result.query, made.of.read)
  /\ Complete(made.of)

VerdictKnown ==
  /\ load = Null
  /\ Complete(verdict.of)
  /\ ResultKnown
  /\ verdict.agrees => Match(result.query, verdict.of.read) = result

(* The inductive invariant. *)
Inv ==
  /\ DirectoryKnown
  /\ load \notin {Null, Failure} => LoadKnown(load)
  /\ made # Null => Complete(made.of)
  /\ result # Null => ResultKnown
  /\ verdict # Null => VerdictKnown

-----------------------------------------------------------------------------
(* Records.                                                                *)

LEMMA GenuineFields ==
  ASSUME NEW f \in Genuine
  PROVE  /\ f = [id |-> f.id, response |-> f.response, label |-> f.label, status |-> f.status,
                 vector |-> f.vector]
         /\ f.vector = Vector(f.response)
         /\ f.response = Response(f.response.observation)
         /\ ContentOf(f) \in DOMAIN Digest /\ f.id = Digest[ContentOf(f)]
         /\ ValidFingerprint(f)
<1>1. ValidFingerprint(f) /\ f = Fingerprint(f.response, f.label, f.status)
  BY GenuineAssumption
<1> QED
  BY <1>1 DEF ValidFingerprint, ValidResponse, Fingerprint, ContentOf

(* The identity of a genuine record determines it. *)
LEMMA IdentityDetermines ==
  ASSUME NEW f \in Genuine, NEW g \in Genuine, f.id = g.id
  PROVE  f = g
<1>1. ContentOf(f) = ContentOf(g)
  BY GenuineFields, DigestAssumption
<1>2. f.response.observation = g.response.observation /\ f.label = g.label /\ f.status = g.status
  BY <1>1 DEF ContentOf
<1>3. f.response = g.response
  BY <1>2, GenuineFields
<1> QED
  BY <1>2, <1>3, GenuineAssumption

(* A record that was tampered with is refused, unless nothing changed.     *)
LEMMA TamperingShows ==
  ASSUME NEW g \in Spoiled, ValidFingerprint(g)
  PROVE  g \in Genuine
<1>1. ASSUME NEW f \in Genuine, g = [f EXCEPT !.label = "other"] PROVE g = f
  <2>1. g = [id |-> f.id, response |-> f.response, label |-> "other", status |-> f.status,
             vector |-> f.vector]
    BY <1>1, GenuineFields
  <2>2. ContentOf(g) = <<f.response.observation, "other", f.status>>
    BY <2>1 DEF ContentOf
  <2>3. ContentOf(g) \in DOMAIN Digest /\ f.id = Digest[ContentOf(g)]
    BY <2>1 DEF ValidFingerprint
  <2>4. ContentOf(g) = ContentOf(f)
    BY <2>3, GenuineFields, DigestAssumption
  <2>5. f.label = "other"
    BY <2>2, <2>4 DEF ContentOf
  <2> QED
    BY <2>1, <2>5, GenuineFields
<1>2. ASSUME NEW f \in Genuine, g = [f EXCEPT !.status = "software_checked"] PROVE g = f
  <2>1. g = [id |-> f.id, response |-> f.response, label |-> f.label, status |-> "software_checked",
             vector |-> f.vector]
    BY <1>2, GenuineFields
  <2>2. ContentOf(g) = <<f.response.observation, f.label, "software_checked">>
    BY <2>1 DEF ContentOf
  <2>3. ContentOf(g) \in DOMAIN Digest /\ f.id = Digest[ContentOf(g)]
    BY <2>1 DEF ValidFingerprint
  <2>4. ContentOf(g) = ContentOf(f)
    BY <2>3, GenuineFields, DigestAssumption
  <2>5. f.status = "software_checked"
    BY <2>2, <2>4 DEF ContentOf
  <2> QED
    BY <2>1, <2>5, GenuineFields
<1>3. ASSUME NEW f \in Genuine, g = [f EXCEPT !.vector = [m \in DOMAIN @ |-> 0]] PROVE g = f
  <2>1. g = [id |-> f.id, response |-> f.response, label |-> f.label, status |-> f.status,
             vector |-> g.vector]
    BY <1>3, GenuineFields
  <2>2. g.response = f.response
    BY <2>1
  <2>3. g.vector = f.vector
    BY <2>2, GenuineFields DEF ValidFingerprint
  <2> QED
    BY <2>1, <2>3, GenuineFields
<1> QED
  BY <1>1, <1>2, <1>3 DEF Spoiled
-----------------------------------------------------------------------------
(* Loading.                                                                *)

(* What is listed of a directory is some of its names, each once. *)
LEMMA EntriesListed ==
  ASSUME NEW names \in {Outer, Inner}
  PROVE  /\ Entries(names) \in Seq(Files \cup {"s"})
         /\ IsInjective(Entries(names))
         /\ Range(Entries(names)) \subseteq Range(names)
<1> DEFINE P == {i \in DOMAIN names :
                   IF names[i] = "s" THEN HasInner ELSE names[i] \in DOMAIN directory}
<1>1. /\ names \in Seq(Files \cup {"s"})
      /\ \A i, j \in DOMAIN names : names[i] = names[j] => i = j
  <2>1. CASE names = <<"a", "b", "s">>
    BY <2>1 DEF Files
  <2>2. CASE names = <<"s/c", "s/d">>
    BY <2>2 DEF Files
  <2> QED
    BY <2>1, <2>2 DEF Outer, Inner
<1>2. P \in SUBSET DOMAIN names /\ Entries(names) = Kept(names, P)
  BY DEF Entries
<1> HIDE DEF P
<1>3. /\ Kept(names, P) \in Seq(Files \cup {"s"})
      /\ Len(Kept(names, P)) = Cardinality(P) /\ Cardinality(P) \in Nat
      /\ \A i \in 1..Cardinality(P) : Place(P, i) \in P /\ Kept(names, P)[i] = names[Place(P, i)]
      /\ \A i, j \in 1..Cardinality(P) : i < j => Place(P, i) < Place(P, j)
  BY <1>1, <1>2, KeptInOrder
<1>4. PICK n, k : /\ n \in Nat /\ n = Cardinality(P) /\ k = Kept(names, P) /\ DOMAIN k = 1..n
                  /\ k \in Seq(Files \cup {"s"})
  BY <1>3
<1>5. \A i \in 1..n : k[i] = names[Place(P, i)] /\ Place(P, i) \in DOMAIN names
  BY <1>2, <1>3, <1>4
<1>6. ASSUME NEW i \in 1..n, NEW j \in 1..n, k[i] = k[j] PROVE i = j
  <2>1. Place(P, i) = Place(P, j)
    BY <1>1, <1>5, <1>6
  <2>2. PICK a \in Nat, b \in Nat : a = Place(P, i) /\ b = Place(P, j)
    BY <1>1, <1>5
  <2>3. ~(i < j) /\ ~(j < i)
    BY <1>3, <1>4, <2>1, <2>2
  <2> QED
    BY <2>3
<1>7. IsInjective(k)
  BY <1>4, <1>6 DEF IsInjective
<1>8. \A x \in Range(k) : x \in Range(names)
  BY <1>4, <1>5 DEF Range
<1> QED
  BY <1>2, <1>4, <1>7, <1>8

LEMMA EmptyRange == Range(<<>>) = {}
BY DEF Range

(* What is left after the first of different names, and after others are   *)
(* put before the rest. *)
LEMMA RestOf ==
  ASSUME NEW S, NEW seq \in Seq(S), IsInjective(seq), seq # <<>>
  PROVE  /\ Head(seq) \in Range(seq) /\ Head(seq) \in S
         /\ Tail(seq) \in Seq(S) /\ IsInjective(Tail(seq))
         /\ Range(Tail(seq)) = Range(seq) \ {Head(seq)}
<1>1. PICK n \in Nat : n = Len(seq) /\ n > 0 /\ DOMAIN seq = 1..n /\ 1 \in 1..n
  OBVIOUS
<1>2. PICK h, t : /\ h = Head(seq) /\ h = seq[1] /\ t = Tail(seq) /\ t \in Seq(S)
                  /\ DOMAIN t = 1..n - 1 /\ \A i \in 1..n - 1 : t[i] = seq[i + 1]
  <2>1. Head(seq) = seq[1] /\ Tail(seq) \in Seq(S) /\ Len(Tail(seq)) = n - 1
    BY <1>1
  <2>2. \A i \in 1..n - 1 : Tail(seq)[i] = seq[i + 1]
    BY <1>1
  <2>3. DOMAIN Tail(seq) = 1..n - 1
    BY <2>1
  <2> QED
    BY <2>1, <2>2, <2>3, Zenon
<1>3. \A i, j \in 1..n : seq[i] = seq[j] => i = j
  BY <1>1 DEF IsInjective
<1>4. \A i \in 1..n - 1 : i + 1 \in 1..n /\ i + 1 # 1
  BY <1>1
<1>5. IsInjective(t)
  <2> SUFFICES ASSUME NEW i \in 1..n - 1, NEW j \in 1..n - 1, t[i] = t[j] PROVE i = j
    BY <1>2 DEF IsInjective
  <2>1. i + 1 = j + 1
    BY <1>2, <1>3, <1>4
  <2> QED
    BY <2>1
<1>6. Range(t) = Range(seq) \ {h}
  <2>1. ASSUME NEW i \in 1..n - 1 PROVE t[i] \in Range(seq) /\ t[i] # h
    BY <1>1, <1>2, <1>3, <1>4 DEF Range
  <2>2. ASSUME NEW i \in 1..n, seq[i] # h PROVE seq[i] \in Range(t)
    <3>1. i - 1 \in 1..n - 1 /\ (i - 1) + 1 = i
      BY <1>1, <1>2, <2>2
    <3>2. t[i - 1] = seq[i]
      BY <1>2, <3>1
    <3> QED
      BY <1>2, <3>1, <3>2 DEF Range
  <2> QED
    BY <1>1, <1>2, <2>1, <2>2 DEF Range
<1>7. h \in Range(seq) /\ h \in S
  BY <1>1, <1>2 DEF Range
<1> QED
  BY <1>2, <1>5, <1>6, <1>7

LEMMA Joined ==
  ASSUME NEW S, NEW r \in Seq(S), NEW t \in Seq(S), IsInjective(r), IsInjective(t),
         Range(r) \cap Range(t) = {}
  PROVE  /\ r \o t \in Seq(S) /\ IsInjective(r \o t)
         /\ Range(r \o t) = Range(r) \cup Range(t)
<1>1. PICK m \in Nat, n \in Nat : /\ m = Len(r) /\ n = Len(t)
                                  /\ DOMAIN r = 1..m /\ DOMAIN t = 1..n
  OBVIOUS
<1>2. PICK u : /\ u = r \o t /\ u \in Seq(S) /\ DOMAIN u = 1..m + n
               /\ \A i \in 1..m + n : u[i] = IF i <= m THEN r[i] ELSE t[i - m]
  <2>1. r \o t \in Seq(S) /\ Len(r \o t) = m + n
    BY <1>1
  <2>2. \A i \in 1..m + n : (r \o t)[i] = IF i <= m THEN r[i] ELSE t[i - m]
    BY <1>1
  <2>3. DOMAIN (r \o t) = 1..m + n
    BY <2>1
  <2> QED
    BY <2>1, <2>2, <2>3, Zenon
<1>3. \A i \in 1..m + n : (i <= m /\ i \in 1..m) \/ (i > m /\ i - m \in 1..n)
  BY <1>1
<1>4. /\ \A i, j \in 1..m : r[i] = r[j] => i = j
      /\ \A i, j \in 1..n : t[i] = t[j] => i = j
      /\ \A i \in 1..m, j \in 1..n : r[i] # t[j]
  <2>1. \A i \in 1..m : r[i] \in Range(r)
    BY <1>1 DEF Range
  <2>2. \A j \in 1..n : t[j] \in Range(t)
    BY <1>1 DEF Range
  <2>3. \A i \in 1..m, j \in 1..n : r[i] # t[j]
    BY <2>1, <2>2
  <2> QED
    BY <1>1, <2>3 DEF IsInjective
<1>5. IsInjective(u)
  <2> SUFFICES ASSUME NEW i \in 1..m + n, NEW j \in 1..m + n, u[i] = u[j] PROVE i = j
    BY <1>2 DEF IsInjective
  <2>1. \A k \in 1..m + n :
          /\ k <= m => k \in 1..m /\ u[k] = r[k]
          /\ ~(k <= m) => k - m \in 1..n /\ u[k] = t[k - m]
    <3> SUFFICES ASSUME NEW k \in 1..m + n
                 PROVE  /\ k <= m => k \in 1..m /\ u[k] = r[k]
                        /\ ~(k <= m) => k - m \in 1..n /\ u[k] = t[k - m]
      OBVIOUS
    <3>1. u[k] = IF k <= m THEN r[k] ELSE t[k - m]
      BY <1>2, Zenon
    <3>2. (k <= m => k \in 1..m) /\ (~(k <= m) => k - m \in 1..n)
      BY ONLY m \in Nat, n \in Nat, k \in 1..m + n
    <3> QED
      BY <3>1, <3>2, Zenon
  <2>2. CASE i <= m /\ j <= m
    <3>1. i \in 1..m /\ j \in 1..m /\ r[i] = r[j]
      BY <2>1, <2>2
    <3>2. \A a, b \in 1..m : r[a] = r[b] => a = b
      BY <1>4, Zenon
    <3> QED
      BY <3>1, <3>2
  <2>3. CASE ~(i <= m) /\ ~(j <= m)
    <3>1. i - m = j - m
      <4>1. i - m \in 1..n /\ j - m \in 1..n /\ t[i - m] = t[j - m]
        BY <2>1, <2>3
      <4>2. \A a, b \in 1..n : t[a] = t[b] => a = b
        BY <1>4, Zenon
      <4> QED
        BY <4>1, <4>2
    <3> QED
      BY ONLY <3>1, m \in Nat, n \in Nat, i \in 1..m + n, j \in 1..m + n
  <2>4. ASSUME i <= m, ~(j <= m) PROVE FALSE
    <3>1. i \in 1..m /\ u[i] = r[i] /\ j - m \in 1..n /\ u[j] = t[j - m]
      BY <2>1, <2>4, Zenon
    <3>2. \A a \in 1..m, b \in 1..n : r[a] # t[b]
      BY <1>4, Zenon
    <3> QED
      BY <3>1, <3>2
  <2>5. ASSUME ~(i <= m), j <= m PROVE FALSE
    <3>1. j \in 1..m /\ u[j] = r[j] /\ i - m \in 1..n /\ u[i] = t[i - m]
      BY <2>1, <2>5, Zenon
    <3>2. \A a \in 1..m, b \in 1..n : r[a] # t[b]
      BY <1>4, Zenon
    <3> QED
      BY <3>1, <3>2
  <2> QED
    BY <2>2, <2>3, <2>4, <2>5, Zenon
<1>6. Range(u) = Range(r) \cup Range(t)
  <2>1. ASSUME NEW i \in 1..m + n PROVE u[i] \in Range(r) \cup Range(t)
    <3>1. u[i] = IF i <= m THEN r[i] ELSE t[i - m]
      BY <1>2, Zenon
    <3>2. (i \in 1..m => r[i] \in Range(r)) /\ (i - m \in 1..n => t[i - m] \in Range(t))
      BY <1>1 DEF Range
    <3>3. i \in 1..m \/ (~(i <= m) /\ i - m \in 1..n)
      BY ONLY m \in Nat, n \in Nat, i \in 1..m + n
    <3>4. i \in 1..m => i <= m
      BY ONLY m \in Nat, i \in 1..m + n
    <3> QED
      BY <3>1, <3>2, <3>3, <3>4
  <2>4. Range(r) = {r[i] : i \in 1..m} /\ Range(t) = {t[i] : i \in 1..n} /\ Range(u) = {u[i] : i \in 1..m + n}
    BY <1>1, <1>2 DEF Range
  <2>2. ASSUME NEW i \in 1..m PROVE r[i] \in Range(u)
    <3>1. i \in 1..m + n /\ u[i] = r[i]
      BY <1>1, <1>2
    <3> QED
      BY <1>2, <3>1 DEF Range
  <2>3. ASSUME NEW i \in 1..n PROVE t[i] \in Range(u)
    <3>1. i + m \in 1..m + n /\ ~(i + m <= m) /\ (i + m) - m = i
      BY ONLY m \in Nat, n \in Nat, i \in 1..n
    <3>2. u[i + m] = t[i]
      BY <1>2, <3>1
    <3> QED
      BY <1>2, <3>1, <3>2 DEF Range
  <2> QED
    <3>1. Range(r) \subseteq Range(u) /\ Range(t) \subseteq Range(u)
      BY <2>2, <2>3, <2>4
    <3>2. Range(u) \subseteq Range(r) \cup Range(t)
      BY <2>1, <2>4
    <3> QED
      BY <3>1, <3>2
<1> QED
  BY <1>2, <1>5, <1>6

LEMMA BeginKnown ==
  LoadKnown([todo |-> Entries(Outer), listed |-> {n \in Range(Entries(Outer)) : Json(n)},
             links |-> Links(Outer), read |-> {}])
<1>1. PICK t, l, x : /\ t = Entries(Outer) /\ l = {n \in Range(Entries(Outer)) : Json(n)} /\ x = Links(Outer)
  OBVIOUS
<1>2. /\ t \in Seq(Files \cup {"s"}) /\ IsInjective(t) /\ Range(t) \subseteq Range(Outer)
  BY <1>1, EntriesListed
<1>3. Range(Outer) = {"a", "b", "s"} /\ Range(Inner) = {"s/c", "s/d"}
  BY DEF Range, Outer, Inner
<1>4. l = Range(t) \ {"s"}
  BY <1>1, <1>2, <1>3 DEF Json, Files
<1>5. /\ l \subseteq Files /\ l \cap Range(Inner) = {} /\ l \ Range(t) = {}
  BY <1>2, <1>3, <1>4 DEF Files
<1>6. IsFiniteSet({}) /\ Cardinality({}) = 0
  BY FS_EmptySet
<1>7. LoadKnown([todo |-> t, listed |-> l, links |-> x, read |-> {}])
  BY <1>2, <1>4, <1>5, <1>6 DEF LoadKnown
<1> QED
  BY <1>1, <1>7
(* What the loader accepts is genuine, and is none of those it has.        *)
LEMMA Accepts ==
  ASSUME DirectoryKnown, NEW n \in DOMAIN directory, NEW R \in SUBSET Genuine,
         ~Refused(n, directory[n], R)
  PROVE  directory[n] \in Genuine /\ directory[n] \notin R
<1>1. /\ directory[n] # Link /\ ValidFingerprint(directory[n])
      /\ directory[n].id \notin {f.id : f \in R}
  BY DEF Refused
<1>2. directory[n] \in Genuine
  BY <1>1, TamperingShows DEF DirectoryKnown
<1> QED
  BY <1>1, <1>2

(* An inner directory is listed when it is its turn: nothing of it was     *)
(* listed before, and nothing of it was read.                              *)
LEMMA InnerListed ==
  ASSUME LoadKnown(load), load.todo # <<>>, Head(load.todo) = "s",
         NEW l, l = [load EXCEPT !.todo = Entries(Inner) \o Tail(load.todo),
                                 !.listed = @ \cup Range(Entries(Inner)),
                                 !.links = @ \cup Links(Inner)]
  PROVE  LoadKnown(l)
<1>1. PICK todo, listed, links, read, e :
        /\ load = [todo |-> todo, listed |-> listed, links |-> links, read |-> read]
        /\ e = Entries(Inner)
        /\ todo = load.todo /\ listed = load.listed /\ read = load.read
  BY DEF LoadKnown
<1>2. /\ todo \in Seq(Files \cup {"s"}) /\ IsInjective(todo)
      /\ listed \subseteq Files /\ Range(todo) \ {"s"} \subseteq listed
      /\ "s" \in Range(todo) => listed \cap Range(Inner) = {}
      /\ read \subseteq Genuine /\ IsFiniteSet(read)
      /\ Cardinality(read) = Cardinality(listed \ Range(todo))
      /\ todo # <<>> /\ Head(todo) = "s"
  BY <1>1 DEF LoadKnown
<1>3. PICK rest : rest = Tail(todo)
  OBVIOUS
<1>4. /\ "s" \in Range(todo) /\ rest \in Seq(Files \cup {"s"}) /\ IsInjective(rest)
      /\ Range(rest) = Range(todo) \ {"s"}
  BY <1>2, <1>3, RestOf
<1>5. e \in Seq(Files \cup {"s"}) /\ IsInjective(e) /\ Range(e) \subseteq Range(Inner)
  BY <1>1, EntriesListed
<1>6. Range(Inner) = {"s/c", "s/d"}
  BY DEF Range, Inner
<1>7. Range(e) \cap Range(rest) = {}
  BY <1>2, <1>4, <1>5
<1>8. PICK after : /\ after = e \o rest /\ after \in Seq(Files \cup {"s"}) /\ IsInjective(after)
                   /\ Range(after) = Range(e) \cup Range(rest)
  <2>1. /\ e \o rest \in Seq(Files \cup {"s"}) /\ IsInjective(e \o rest)
        /\ Range(e \o rest) = Range(e) \cup Range(rest)
    BY <1>4, <1>5, <1>7, Joined
  <2> QED
    BY <2>1, Zenon
<1>9. "s" \notin Range(after) /\ Range(e) \subseteq Files
  BY <1>4, <1>5, <1>6, <1>8 DEF Files
<1>10. (listed \cup Range(e)) \ Range(after) = listed \ Range(todo)
  <2>1. "s" \notin listed
    BY <1>2 DEF Files
  <2>2. listed \cap Range(e) = {}
    BY <1>2, <1>4, <1>5
  <2> QED
    BY <1>4, <1>8, <2>1, <2>2
<1>11. PICK x, y : x = listed \cup Range(e) /\ y = links \cup Links(Inner)
  OBVIOUS
<1>12. l = [todo |-> after, listed |-> x, links |-> y, read |-> read]
  BY <1>1, <1>3, <1>8, <1>11
<1>13. /\ x \subseteq Files /\ Range(after) \ {"s"} \subseteq x
       /\ x \ Range(after) = listed \ Range(todo)
  BY <1>2, <1>4, <1>8, <1>9, <1>10, <1>11
<1>14. l.todo = after /\ l.listed = x /\ l.links = y /\ l.read = read
  BY ONLY <1>12
<1> QED
  BY <1>2, <1>8, <1>9, <1>12, <1>13, <1>14 DEF LoadKnown

(* One file more is read, and one file less is left.                       *)
LEMMA FileRead ==
  ASSUME LoadKnown(load), load.todo # <<>>, Head(load.todo) # "s",
         NEW f \in Genuine, f \notin load.read,
         NEW l, l = [load EXCEPT !.todo = Tail(load.todo), !.read = @ \cup {f}]
  PROVE  LoadKnown(l)
<1>1. PICK todo, listed, links, read :
        /\ load = [todo |-> todo, listed |-> listed, links |-> links, read |-> read]
        /\ todo = load.todo /\ listed = load.listed /\ read = load.read
  BY DEF LoadKnown
<1>2. /\ todo \in Seq(Files \cup {"s"}) /\ IsInjective(todo)
      /\ listed \subseteq Files /\ Range(todo) \ {"s"} \subseteq listed
      /\ "s" \in Range(todo) => listed \cap Range(Inner) = {}
      /\ read \subseteq Genuine /\ IsFiniteSet(read)
      /\ Cardinality(read) = Cardinality(listed \ Range(todo))
      /\ todo # <<>> /\ Head(todo) # "s" /\ f \notin read
  BY <1>1 DEF LoadKnown
<1>3. PICK rest, n : rest = Tail(todo) /\ n = Head(todo)
  OBVIOUS
<1>4. /\ n \in Range(todo) /\ rest \in Seq(Files \cup {"s"}) /\ IsInjective(rest)
      /\ Range(rest) = Range(todo) \ {n}
  BY <1>2, <1>3, RestOf
<1>5. n \in listed
  BY <1>2, <1>3, <1>4
<1>6. PICK more : more = read \cup {f}
  OBVIOUS
<1>7. l = [todo |-> rest, listed |-> listed, links |-> links, read |-> more]
  BY <1>1, <1>3, <1>6
<1>8. listed \ Range(rest) = (listed \ Range(todo)) \cup {n} /\ n \notin listed \ Range(todo)
  BY <1>4, <1>5
<1>9. IsFiniteSet(Files)
  <2> Files = {"a"} \cup {"b"} \cup {"s/c"} \cup {"s/d"}
    BY DEF Files
  <2> QED
    BY FS_Singleton, FS_Union
<1>10. IsFiniteSet(listed \ Range(todo))
  <2>1. (listed \ Range(todo)) \in SUBSET Files
    BY <1>2
  <2> QED
    BY <1>9, <2>1, FS_Subset
<1>11. Cardinality(listed \ Range(rest)) = Cardinality(listed \ Range(todo)) + 1
  BY <1>8, <1>10, FS_AddElement
<1>12. IsFiniteSet(more) /\ Cardinality(more) = Cardinality(read) + 1
  BY <1>2, <1>6, FS_AddElement
<1>13. /\ more \subseteq Genuine /\ Range(rest) \ {"s"} \subseteq listed
       /\ "s" \in Range(rest) => listed \cap Range(Inner) = {}
       /\ Cardinality(more) = Cardinality(listed \ Range(rest))
  BY <1>2, <1>4, <1>6, <1>11, <1>12
<1>14. l.todo = rest /\ l.listed = listed /\ l.links = links /\ l.read = more
  BY ONLY <1>7
<1> QED
  BY <1>2, <1>4, <1>7, <1>12, <1>13, <1>14 DEF LoadKnown

(* Nothing left to read: as many records as files.                         *)
LEMMA LoadedComplete ==
  ASSUME NEW l, LoadKnown(l), l.todo = <<>> PROVE Complete(l)
BY EmptyRange DEF LoadKnown, Complete
-----------------------------------------------------------------------------
(* Every step keeps the invariant.                                         *)

LEMMA DirectoryStep ==
  ASSUME DirectoryKnown, [Next]_vars PROVE DirectoryKnown'
<1>1. CASE Capture
  BY <1>1, NullAssumption DEF Capture, DirectoryKnown
<1>2. CASE Edit
  <2>1. PICK n, f : /\ (directory' = Put(n, f) /\ f \in Genuine) \/ directory' = Without(n)
                    /\ UNCHANGED <<capture, query, trouble>>
    BY <1>2 DEF Edit
  <2>2. \A m \in DOMAIN directory' :
          directory'[m] \in Genuine \/ (m \in DOMAIN directory /\ directory'[m] = directory[m])
    BY <2>1 DEF Put, Without
  <2> QED
    BY <2>1, <2>2 DEF DirectoryKnown
<1>3. CASE Tamper
  <2>1. /\ trouble = Null /\ query # Null
        /\ trouble' \in {"relabelled", "approved", "reshaped", "linked", "copied"}
        /\ UNCHANGED <<capture, query>>
    BY <1>3 DEF Tamper, Lone, Editable, Ready
  <2>2. trouble' # Null /\ capture # Null
    BY <2>1, NullAssumption DEF DirectoryKnown
  <2>3. \A n \in DOMAIN directory : directory[n] \in Genuine
    BY <2>1 DEF DirectoryKnown
  <2>4. PICK n, g : directory' = Put(n, g) /\ g \in Genuine \cup Spoiled \cup {Link}
    <3>1. PICK n \in DOMAIN directory :
            LET f == directory[n] IN
            \/ directory' = Put(n, [f EXCEPT !.label = "other"])
            \/ directory' = Put(n, [f EXCEPT !.status = "software_checked"])
            \/ directory' = Put(n, [f EXCEPT !.vector = [m \in DOMAIN @ |-> 0]])
            \/ directory' = Put(n, Link)
            \/ \E m : directory' = Put(m, f)
      BY <1>3, Zenon DEF Tamper
    <3>2. PICK f \in Genuine : f = directory[n]
      BY <2>3
    <3>3. /\ [f EXCEPT !.label = "other"] \in Spoiled
          /\ [f EXCEPT !.status = "software_checked"] \in Spoiled
          /\ [f EXCEPT !.vector = [m \in DOMAIN @ |-> 0]] \in Spoiled
      BY <3>2, Zenon DEF Spoiled
    <3> QED
      BY <3>1, <3>2, <3>3, Zenon
  <2>5. \A m \in DOMAIN directory' :
          directory'[m] = g \/ (m \in DOMAIN directory /\ directory'[m] = directory[m])
    BY <2>4 DEF Put
  <2> QED
    BY <2>1, <2>2, <2>3, <2>4, <2>5 DEF DirectoryKnown
<1>4. CASE ForgeResponse \/ EditResult
  <2>1. trouble = Null /\ UNCHANGED <<capture, directory>>
    BY <1>4, Zenon DEF ForgeResponse, EditResult, Lone
  <2>2. capture = Null => query = Null /\ query' = Null
    BY <1>4, Zenon DEF ForgeResponse, EditResult, Ready, DirectoryKnown
  <2> QED
    BY <2>1, <2>2 DEF DirectoryKnown
<1>5. CASE Begin \/ ReadEntry \/ Matched \/ Verified \/ UNCHANGED vars
  <2>1. UNCHANGED <<capture, query, directory, trouble>>
    BY <1>5 DEF Begin, ReadEntry, Matched, Verified, vars
  <2> QED
    BY <2>1 DEF DirectoryKnown
<1> QED
  BY <1>1, <1>2, <1>3, <1>4, <1>5 DEF Next

LEMMA ReadStep ==
  ASSUME DirectoryKnown, Loading, LoadKnown(load), ReadEntry
  PROVE  load' = Failure \/ LoadKnown(load')
<1>1. load.todo # <<>>
  BY DEF Loading
<1>2. CASE Head(load.todo) = "s"
  <2>1. load' = [load EXCEPT !.todo = Entries(Inner) \o Tail(load.todo),
                             !.listed = @ \cup Range(Entries(Inner)), !.links = @ \cup Links(Inner)]
    BY <1>2 DEF ReadEntry
  <2> QED
    BY <1>1, <1>2, <2>1, InnerListed
<1>3. CASE Head(load.todo) # "s" /\ load' # Failure
  <2>1. PICK n : n = Head(load.todo)
    OBVIOUS
  <2>2. /\ n \in DOMAIN directory /\ ~Refused(n, directory[n], load.read)
        /\ load' = [load EXCEPT !.todo = Tail(load.todo), !.read = @ \cup {directory[n]}]
    BY <1>3, <2>1 DEF ReadEntry
  <2>3. load.read \in SUBSET Genuine
    BY DEF LoadKnown
  <2>4. directory[n] \in Genuine /\ directory[n] \notin load.read
    BY <2>2, <2>3, Accepts
  <2> QED
    BY <1>1, <1>3, <2>1, <2>2, <2>4, FileRead, Zenon
<1> QED
  BY <1>2, <1>3

LEMMA InvStep ==
  ASSUME Inv, [Next]_vars PROVE Inv'
<1>1. DirectoryKnown'
  BY DirectoryStep DEF Inv
<1>2. CASE Begin
  <2>1. load' = Failure \/ LoadKnown(load')
    BY <1>2, BeginKnown, Zenon DEF Begin
  <2>2. UNCHANGED <<result, made, verdict>> /\ verdict = Null
    BY <1>2 DEF Begin
  <2> QED
    BY <1>1, <2>1, <2>2 DEF Inv, ResultKnown
<1>3. CASE ReadEntry
  <2>1. load' = Failure \/ LoadKnown(load')
    BY <1>3, ReadStep DEF ReadEntry, Loading, Inv
  <2>2. UNCHANGED <<result, made, verdict>> /\ load # Null
    BY <1>3 DEF ReadEntry, Loading
  <2> QED
    BY <1>1, <2>1, <2>2 DEF Inv, ResultKnown, VerdictKnown
<1>4. CASE Matched
  <2>1. Complete(load) /\ load # Null
    BY <1>4, LoadedComplete DEF Matched, Loaded, Inv
  <2>2. PICK r : r = Match(query, load.read)
    OBVIOUS
  <2>3. /\ result' = r /\ made' = [of |-> load, result |-> r] /\ load' = Null
        /\ verdict' = verdict
    BY <1>4, <2>2 DEF Matched
  <2>4. /\ {"query", "references", "rejections", "comparisons", "decision"} \subseteq DOMAIN r
        /\ r.query = query
    BY <2>2 DEF Match
  <2>5. ResultKnown'
    BY <2>1, <2>2, <2>3, <2>4 DEF ResultKnown
  <2> QED
    BY <1>1, <2>1, <2>3, <2>5 DEF Inv, VerdictKnown
<1>5. CASE Verified
  <2>1. /\ Complete(load) /\ ResultKnown
        /\ load' = Null /\ UNCHANGED <<result, made>>
        /\ verdict' = [of |-> load, agrees |-> ValidResult(result) /\ Reproduced(result, load.read)]
    BY <1>5, LoadedComplete DEF Verified, Loaded, Inv
  <2>2. verdict'.of = load /\ verdict'.agrees = (ValidResult(result) /\ Reproduced(result, load.read))
    BY <2>1
  <2>3. ResultKnown'
    BY <2>1 DEF ResultKnown
  <2>4. verdict'.agrees => Match(result.query, load.read) = result
    BY <2>2 DEF Reproduced
  <2>5. VerdictKnown'
    BY <2>1, <2>2, <2>3, <2>4 DEF VerdictKnown
  <2> QED
    BY <1>1, <2>1, <2>3, <2>5 DEF Inv
<1>6. CASE EditResult
  <2>1. /\ ResultKnown /\ UNCHANGED <<load, made, verdict>> /\ verdict = Null
    BY <1>6, Zenon DEF EditResult, Concluded, Inv
  <2>2. /\ {"query", "references", "rejections", "comparisons", "decision"} \subseteq DOMAIN result'
        /\ result'.query = result.query
    BY <1>6, <2>1, Zenon DEF EditResult, Redecided, ResultKnown
  <2>3. ResultKnown'
    BY <2>1, <2>2 DEF ResultKnown
  <2> QED
    BY <1>1, <2>1, <2>3 DEF Inv
<1>7. CASE Capture \/ ForgeResponse \/ Edit \/ Tamper \/ UNCHANGED vars
  <2>1. UNCHANGED <<load, result, made, verdict>>
    BY <1>7 DEF Capture, ForgeResponse, Edit, Tamper, vars
  <2> QED
    BY <1>1, <2>1 DEF Inv, ResultKnown, VerdictKnown
<1> QED
  BY <1>2, <1>3, <1>4, <1>5, <1>6, <1>7 DEF Next

LEMMA Invariant == Spec => []Inv
<1>1. Init => Inv
  BY DirectoriesAssumption DEF Init, Inv, DirectoryKnown
<1>2. Inv /\ [Next]_vars => Inv'
  BY InvStep
<1> QED
  BY <1>1, <1>2, PTL DEF Spec

(* NothingOverlooked holds in every state, whatever is put, removed,       *)
(* linked, copied or edited while a directory is listed and read.          *)
THEOREM LoadsAreComplete == Spec => []NothingOverlooked
<1>1. Inv => NothingOverlooked
  BY DEF Inv, NothingOverlooked, VerdictKnown
<1> QED
  BY <1>1, Invariant, PTL

(* Records that genuine identities name are the same records.              *)
LEMMA SameReferences ==
  ASSUME NEW R \in SUBSET Genuine, NEW S \in SUBSET Genuine,
         \A f \in R : \E g \in S : f.id = g.id,
         \A g \in S : \E f \in R : f.id = g.id
  PROVE  R = S
BY IdentityDetermines

(* VerifiedUnchanged holds in every state: a verification that agrees      *)
(* means the very fingerprints and the very result, or neither.            *)
THEOREM VerificationIsExact == Spec => []VerifiedUnchanged
<1>1. ASSUME Inv PROVE VerifiedUnchanged
  <2> SUFFICES ASSUME verdict # Null, verdict.agrees
               PROVE  result = made.result <=> verdict.of.read = made.of.read
    BY DEF VerifiedUnchanged
  <2>1. /\ Complete(verdict.of) /\ Complete(made.of)
        /\ result.query = made.result.query
        /\ made.result = Match(made.result.query, made.of.read)
        /\ Match(result.query, verdict.of.read) = result
    BY <1>1 DEF Inv, VerdictKnown, ResultKnown
  <2>2. \A q, R : Match(q, R).references = {f.id : f \in R}
    BY DEF Match
  <2>3. ASSUME result = made.result PROVE verdict.of.read = made.of.read
    <3>1. PICK q, R, S : /\ R = verdict.of.read /\ S = made.of.read
                         /\ Match(q, R) = Match(q, S)
      BY <2>1, <2>3, Zenon
    <3>2. {f.id : f \in R} = {f.id : f \in S}
      <4>1. Match(q, R).references = {f.id : f \in R} /\ Match(q, S).references = {f.id : f \in S}
        BY <2>2, Zenon
      <4>2. Match(q, R).references = Match(q, S).references
        BY <3>1, Zenon
      <4> QED
        BY <4>1, <4>2, Zenon
    <3>3. R \in SUBSET Genuine /\ S \in SUBSET Genuine
      <4>1. verdict.of.read \subseteq Genuine /\ made.of.read \subseteq Genuine
        BY <2>1, Zenon DEF Complete
      <4> QED
        BY <3>1, <4>1, Zenon
    <3>4. /\ \A f \in R : \E g \in S : f.id = g.id
          /\ \A g \in S : \E f \in R : f.id = g.id
      <4>1. \A x : (x \in {f.id : f \in R}) <=> (x \in {f.id : f \in S})
        BY <3>2, Zenon
      <4> QED
        BY <4>1
    <3>5. R = S
      BY <3>3, <3>4, SameReferences
    <3> QED
      BY <3>1, <3>5
  <2> QED
    BY <2>1, <2>3
<1> QED
  BY <1>1, Invariant, PTL
-----------------------------------------------------------------------------
(* The nearest of some comparisons, and the one after it.                  *)

Distinct(C) ==
  /\ \A c \in C : c.distance \in Nat /\ c.id \in Nat
  /\ \A c, d \in C : c.id = d.id => c = d

LEMMA OneIsNearest ==
  ASSUME NEW C, C # {}, Distinct(C)
  PROVE  \E c \in C : \A d \in C \ {c} : Nearer(c, d)
<1> DEFINE D == {c.distance : c \in C}
<1>1. PICK m \in D : \A k \in D : m <= k
  <2>1. D \in SUBSET Nat /\ D # {}
    BY DEF Distinct
  <2> HIDE DEF D
  <2> QED
    BY <2>1, LeastNumber
<1> DEFINE I == {c.id : c \in {d \in C : d.distance = m}}
<1>2. PICK i \in I : \A k \in I : i <= k
  <2>1. I \in SUBSET Nat
    BY DEF Distinct
  <2>2. I # {}
    BY <1>1
  <2> HIDE DEF I, D
  <2> QED
    BY <2>1, <2>2, LeastNumber
<1>3. PICK c \in C : c.distance = m /\ c.id = i
  BY <1>2
<1>4. ASSUME NEW d \in C, d # c PROVE Nearer(c, d)
  <2>1. m <= d.distance /\ d.id # i /\ {m, i, d.distance, d.id} \subseteq Nat
    BY <1>1, <1>3, <1>4 DEF Distinct
  <2>2. d.distance = m => i <= d.id
    BY <1>2, <1>4
  <2> QED
    BY <1>3, <2>1, <2>2 DEF Nearer
<1> QED
  BY <1>3, <1>4

(* Nearer is a strict order in which any two that differ are related. *)
LEMMA NearerOrder ==
  ASSUME NEW C, Distinct(C)
  PROVE  /\ \A c, d \in C : c = d \/ Nearer(c, d) \/ Nearer(d, c)
         /\ \A c, d \in C : ~(Nearer(c, d) /\ Nearer(d, c))
         /\ \A c \in C : ~Nearer(c, c)
BY DEF Distinct, Nearer

Ahead(C, c) == {d \in C : Nearer(d, c)}

LEMMA RankedMeans ==
  ASSUME NEW C, NEW i \in Nat, i \in DOMAIN Ranked(C), \E c \in C : Cardinality(Ahead(C, c)) = i - 1
  PROVE  Ranked(C)[i] \in C /\ Cardinality(Ahead(C, Ranked(C)[i])) = i - 1
<1>1. Ranked(C)[i] = CHOOSE c \in C : Cardinality(Ahead(C, c)) = i - 1
  BY Zenon DEF Ranked, Ahead
<1> QED
  BY <1>1, Zenon

LEMMA FirstRanked ==
  ASSUME NEW C, IsFiniteSet(C), C # {}, Distinct(C)
  PROVE  /\ 1 \in DOMAIN Ranked(C) /\ Ranked(C)[1] \in C
         /\ \A d \in C \ {Ranked(C)[1]} : Nearer(Ranked(C)[1], d)
<1>1. PICK c \in C : \A d \in C \ {c} : Nearer(c, d)
  BY OneIsNearest
<1>2. Ahead(C, c) = {}
  BY <1>1, NearerOrder DEF Ahead
<1>3. Cardinality(C) \in Nat /\ Cardinality(C) # 0
  BY FS_CardinalityType, FS_EmptySet
<1>4. 1 \in DOMAIN Ranked(C)
  BY <1>3 DEF Ranked
<1>5. Cardinality(Ahead(C, c)) = 1 - 1
  BY <1>2, FS_EmptySet
<1>6. PICK r : r = Ranked(C)[1]
  OBVIOUS
<1>7. r \in C /\ Cardinality(Ahead(C, r)) = 1 - 1
  BY <1>4, <1>5, <1>6, RankedMeans
<1>8. Ahead(C, r) = {}
  <2>1. IsFiniteSet(Ahead(C, r))
    BY FS_Subset DEF Ahead
  <2> QED
    BY <1>7, <2>1, FS_EmptySet
<1>9. r = c
  BY <1>1, <1>7, <1>8 DEF Ahead
<1> QED
  BY <1>1, <1>4, <1>6, <1>9

LEMMA SecondRanked ==
  ASSUME NEW C, IsFiniteSet(C), Distinct(C), NEW y \in C, y # Ranked(C)[1]
  PROVE  /\ 2 \in DOMAIN Ranked(C) /\ Ranked(C)[2] \in C
         /\ Ranked(C)[2].distance <= y.distance
<1>1. PICK first : first = Ranked(C)[1]
  OBVIOUS
<1>2. /\ first \in C /\ y # first
      /\ \A d \in C \ {first} : Nearer(first, d)
  BY <1>1, FirstRanked
<1>3. PICK c \in C \ {first} : \A d \in (C \ {first}) \ {c} : Nearer(c, d)
  <2>1. Distinct(C \ {first}) /\ C \ {first} # {}
    BY <1>2 DEF Distinct
  <2> QED
    BY <2>1, OneIsNearest
<1>4. Cardinality({first}) = 1
  BY FS_Singleton
<1>5. Ahead(C, c) = {first}
  BY <1>2, <1>3, NearerOrder DEF Ahead
<1>6. Cardinality(Ahead(C, c)) = 2 - 1
  BY <1>4, <1>5
<1>7. 2 \in DOMAIN Ranked(C)
  <2>1. Cardinality({first, y}) = 2
    <3>1. {first, y} = {first} \cup {y} /\ y \notin {first} /\ IsFiniteSet({first})
      BY <1>2, FS_Singleton
    <3> QED
      BY <1>4, <3>1, FS_AddElement
  <2>2. {first, y} \in SUBSET C
    BY <1>2
  <2>3. Cardinality(C) \in Nat /\ 2 <= Cardinality(C)
    BY <2>1, <2>2, FS_Subset, FS_CardinalityType
  <2> QED
    BY <2>3 DEF Ranked
<1>8. PICK r : r = Ranked(C)[2]
  OBVIOUS
<1>9. r \in C /\ Cardinality(Ahead(C, r)) = 1
  BY <1>6, <1>7, <1>8, RankedMeans
<1>10. r # first
  <2>1. Ahead(C, first) = {}
    BY <1>2, NearerOrder DEF Ahead
  <2> QED
    BY <1>9, <2>1, FS_EmptySet
<1>11. PICK x : Ahead(C, r) = {x}
  <2>1. IsFiniteSet(Ahead(C, r))
    BY FS_Subset DEF Ahead
  <2> QED
    BY <1>9, <2>1, FS_Singleton
<1>12. r = c
  <2>1. Nearer(first, r)
    BY <1>2, <1>9, <1>10
  <2>2. r # c => Nearer(c, r)
    BY <1>3, <1>9, <1>10
  <2> QED
    BY <1>2, <1>3, <1>11, <2>1, <2>2 DEF Ahead
<1>13. y = c \/ Nearer(c, y)
  BY <1>2, <1>3
<1>14. c.distance <= y.distance
  BY <1>3, <1>13 DEF Nearer, Distinct
<1> QED
  BY <1>7, <1>8, <1>9, <1>12, <1>14
-----------------------------------------------------------------------------
(* Numbers.                                                                *)

LEMMA RootIsNat ==
  ASSUME NEW n \in Nat PROVE Root(n) \in Nat
<1> DEFINE T == {d \in Nat : n < (d + 1) * (d + 1)}
<1>1. PICK d \in T : \A k \in T : d <= k
  <2>1. T \in SUBSET Nat /\ n \in T
    <3>1. n < (n + 1) * (n + 1)
      OBVIOUS
    <3> QED
      BY <3>1
  <2> HIDE DEF T
  <2> QED
    BY <2>1, LeastNumber
<1>2. n \in T
  <2>1. n < (n + 1) * (n + 1)
    OBVIOUS
  <2> QED
    BY <2>1
<1>3. d \in 0..n
  BY <1>1, <1>2
<1>4. d * d <= n
  <2>1. CASE d = 0
    BY <2>1
  <2>2. CASE d # 0
    <3>1. d - 1 \in Nat /\ (d - 1) + 1 = d
      BY <2>2
    <3>2. d - 1 \notin T
      BY <1>1
    <3>3. ~(n < d * d)
      BY <3>1, <3>2
    <3> QED
      BY <3>3
  <2> QED
    BY <2>1, <2>2
<1>5. \E x \in 0..n : x * x <= n /\ n < (x + 1) * (x + 1)
  BY <1>1, <1>3, <1>4
<1>6. Root(n) \in 0..n
  BY <1>5 DEF Root
<1> QED
  BY <1>6

LEMMA SupportKinds ==
  ASSUME NEW w, NEW m PROVE SupportOf(w, m) \in {"unsupported", "unavailable", "supported"}
BY DEF SupportOf

LEMMA NotExcluded ==
  ASSUME NEW w, NEW m, Numeric(w.measures[m]), Exclusion(w, m) = Null
  PROVE  /\ w.measures[m].status = "complete" /\ w.measures[m].coverage >= Policy.coverage
         /\ w.measures[m].value \in Int
<1>1. /\ SupportOf(w, m) = "supported"
      /\ w.measures[m].status = "complete"
      /\ ~(w.measures[m].coverage < Policy.coverage)
      /\ w.measures[m].value # Null
  BY SupportKinds, ReasonsAssumption DEF Exclusion, Numeric
<1> QED
  BY <1>1, PolicyAssumption DEF Numeric

(* A feature without a reason against it is a number, measured completely  *)
(* in both windows.                                                        *)
LEMMA FeatureIsNumber ==
  ASSUME NEW pair, Measured(pair), NEW m \in Features, FeatureOf(pair, m).codes = {}
  PROVE  FeatureOf(pair, m).value \in Int /\ Whole(pair, m)
<1>1. Exclusions(pair, m) = {} /\ FeatureOf(pair, m).value = Normalized(pair, m)
  BY DEF FeatureOf
<1>2. Exclusion(pair.degraded, m) = Null /\ Exclusion(pair.relief, m) = Null
  BY <1>1 DEF Exclusions
<1>3. Numeric(pair.degraded.measures[m]) /\ Numeric(pair.relief.measures[m])
  BY DEF Measured, Features
<1>4. /\ Whole(pair, m)
      /\ pair.degraded.measures[m].value \in Int /\ pair.relief.measures[m].value \in Int
  BY <1>2, <1>3, NotExcluded DEF Whole
<1>5. Normalized(pair, m) \in Int
  <2>1. PICK was \in Int, is \in Int : was = pair.degraded.measures[m].value /\ is = pair.relief.measures[m].value
    BY <1>4
  <2>2. Larger(was, Policy.epsilon) \in Nat \ {0}
    BY PolicyAssumption DEF Larger
  <2>3. Scale * (is - was) \in Int
    BY ScaleAssumption
  <2>4. (Scale * (is - was)) \div Larger(was, Policy.epsilon) \in Int
    BY <2>2, <2>3
  <2> QED
    BY <2>1, <2>4 DEF Normalized
<1> QED
  BY <1>1, <1>4, <1>5
-----------------------------------------------------------------------------
(* What adoption keeps of a capture, and what a fault leaves to be seen.   *)

LEMMA WindowKept ==
  ASSUME NEW w, "measures" \in DOMAIN w
  PROVE  /\ \A f \in DOMAIN w \ {"measures"} : Adopted(w)[f] = w[f]
         /\ DOMAIN Adopted(w) = DOMAIN w
         /\ \A m \in DOMAIN Metrics : \/ Adopted(w).measures[m] = w.measures[m]
                                      \/ Adopted(w).measures[m] = NoEvidence(w.measures[m].samples)
BY DEF Adopted

LEMMA PartsKept ==
  ASSUME NEW pair, Shaped(pair)
  PROVE  /\ Prepared(pair).degraded = Adopted(pair.degraded)
         /\ Prepared(pair).relief = Adopted(pair.relief)
         /\ Prepared(pair).probe = pair.probe
BY DEF Prepared, Shaped

LEMMA FieldsKept ==
  ASSUME NEW pair, Shaped(pair), NEW p, p = Prepared(pair)
  PROVE  /\ p.degraded.context = pair.degraded.context
         /\ p.degraded.settings = pair.degraded.settings /\ p.relief.settings = pair.relief.settings
         /\ p.degraded.confounders = pair.degraded.confounders
         /\ p.relief.confounders = pair.relief.confounders
         /\ p.degraded.from = pair.degraded.from /\ p.relief.from = pair.relief.from
         /\ p.degraded.to = pair.degraded.to /\ p.relief.to = pair.relief.to
         /\ p.probe = pair.probe
<1>1. PICK d, r : d = pair.degraded /\ r = pair.relief
  OBVIOUS
<1>2. \A w \in {d, r} : {"context", "settings", "confounders", "from", "to", "measures"} \subseteq DOMAIN w
  BY <1>1 DEF Shaped
<1>3. \A w \in {d, r} : \A f \in {"context", "settings", "confounders", "from", "to"} : Adopted(w)[f] = w[f]
  BY <1>2, WindowKept
<1>4. p.degraded = Adopted(d) /\ p.relief = Adopted(r) /\ p.probe = pair.probe
  BY <1>1, PartsKept
<1> QED
  BY <1>1, <1>3, <1>4

LEMMA MeasuresKept ==
  ASSUME NEW pair, Shaped(pair), NEW p, p = Prepared(pair)
  PROVE  /\ Measured(p)
         /\ \A m \in DOMAIN Metrics : Whole(p, m) => Whole(pair, m)
<1>1. PICK d, r : d = pair.degraded /\ r = pair.relief
  OBVIOUS
<1>2. p.degraded = Adopted(d) /\ p.relief = Adopted(r)
  BY <1>1, PartsKept
<1>3. ASSUME NEW w \in {d, r}, NEW m \in DOMAIN Metrics
      PROVE  /\ Numeric(Adopted(w).measures[m])
             /\ Adopted(w).measures[m].status = "complete" => Adopted(w).measures[m] = w.measures[m]
  <2>1. Numeric(w.measures[m]) /\ "measures" \in DOMAIN w
    BY <1>1 DEF Shaped, Measured
  <2>2. PICK x, y : x = w.measures[m] /\ y = Adopted(w).measures[m]
    OBVIOUS
  <2>3. y = x \/ y = NoEvidence(x.samples)
    BY <2>1, <2>2, WindowKept
  <2>4. \A rows : NoEvidence(rows).status = "missing" /\ Numeric(NoEvidence(rows))
    BY ReasonsAssumption DEF NoEvidence, Numeric
  <2> QED
    BY <2>1, <2>2, <2>3, <2>4
<1>4. Measured(p)
  BY <1>2, <1>3 DEF Measured
<1>5. ASSUME NEW m \in DOMAIN Metrics, Whole(p, m) PROVE Whole(pair, m)
  BY <1>1, <1>2, <1>3, <1>5 DEF Whole
<1> QED
  BY <1>4, <1>5

LEMMA FeaturesFinite == \A P : IsFiniteSet({m \in Features : Whole(P, m)})
<1>1. IsFiniteSet(Features)
  BY PolicyAssumption, FS_Subset DEF Features
<1> QED
  BY <1>1, FS_Subset

LEMMA EnoughMore ==
  ASSUME NEW S, NEW T, IsFiniteSet(T), S \subseteq T, Enough(Cardinality(S))
  PROVE  Enough(Cardinality(T))
<1>1. PICK a, b : a = Cardinality(S) /\ b = Cardinality(T)
  OBVIOUS
<1>2. a \in Nat /\ b \in Nat /\ a <= b
  <2>1. S \in SUBSET T
    OBVIOUS
  <2> QED
    BY <1>1, <2>1, FS_Subset, FS_CardinalityType
<1>3. a >= Policy.shared /\ 100 * a >= Policy.share * Cardinality(Features)
  BY <1>1 DEF Enough
<1>4. Policy.share * Cardinality(Features) \in Int
  <2>1. IsFiniteSet(Features)
    BY PolicyAssumption, FS_Subset DEF Features
  <2> QED
    BY <2>1, FS_CardinalityType, PolicyAssumption
<1>5. b >= Policy.shared /\ 100 * b >= Policy.share * Cardinality(Features)
  BY <1>2, <1>3, <1>4, PolicyAssumption
<1> QED
  BY <1>1, <1>5 DEF Enough

LEMMA ConfoundedKept ==
  ASSUME NEW pair, Shaped(pair), NEW p, p = Prepared(pair)
  PROVE  Confounded(p) = Confounded(pair)
BY FieldsKept DEF Confounded

LEMMA ChangedKept ==
  ASSUME NEW pair, Shaped(pair), NEW p, p = Prepared(pair)
  PROVE  Changed(p) = Changed(pair)
BY FieldsKept DEF Changed, SettingOf

(* A pair that is valid once adopted has no fault but that it is           *)
(* confounded, or measured incompletely.                                   *)
LEMMA FaultShows ==
  ASSUME NEW pair, Shaped(pair), NEW p, p = Prepared(pair), ValidPair(p),
         NEW what \in Faults, AtFault(what, pair)
  PROVE  Confounded(p) \/ ~Enough(Cardinality({m \in Features : Whole(p, m)}))
<1> SUFFICES ASSUME ~Confounded(p) PROVE ~Enough(Cardinality({m \in Features : Whole(p, m)}))
  OBVIOUS
<1>0. ~Confounded(pair)
  BY ConfoundedKept
<1>1. /\ Changed(p) \subseteq DOMAIN p.probe.requested
      /\ Applied(p) /\ Comparable(p.degraded, p.relief)
      /\ p.degraded.from < p.degraded.to /\ p.relief.from < p.relief.to
  BY DEF ValidPair, Paired, ValidWindow, DeclaredChange
<1>2. what # "undeclared"
  <2> SUFFICES ASSUME what = "undeclared" PROVE FALSE
    OBVIOUS
  <2>1. PICK s \in Changed(pair) : s \notin DOMAIN pair.probe.requested
    BY DEF AtFault
  <2> QED
    BY <1>1, <2>1, ChangedKept, FieldsKept
<1>3. what # "confounded"
  BY <1>0 DEF AtFault, Confounded
<1>4. what # "not_applied"
  <2> SUFFICES ASSUME what = "not_applied" PROVE FALSE
    OBVIOUS
  <2>1. PICK asked : asked = pair.probe.requested
    OBVIOUS
  <2>2. PICK s \in DOMAIN asked : SettingOf(pair.relief, s) # asked[s] \/ SettingOf(pair.degraded, s) = asked[s]
    BY <2>1 DEF AtFault
  <2>3. p.probe.requested = asked
    BY <2>1, FieldsKept
  <2>4. SettingOf(p.relief, s) = asked[s] /\ SettingOf(p.degraded, s) # asked[s]
    BY <1>1, <2>3 DEF Applied
  <2>5. SettingOf(p.relief, s) = SettingOf(pair.relief, s) /\ SettingOf(p.degraded, s) = SettingOf(pair.degraded, s)
    BY FieldsKept DEF SettingOf
  <2> QED
    BY <2>2, <2>4, <2>5
<1>5. what # "too_long"
  <2> SUFFICES ASSUME what = "too_long" PROVE FALSE
    OBVIOUS
  <2>1. PICK d, r : d = Duration(pair.degraded) /\ r = Duration(pair.relief)
    OBVIOUS
  <2>2. Duration(p.degraded) = d /\ Duration(p.relief) = r
    BY <2>1, FieldsKept DEF Duration
  <2>3. d \in Int /\ r \in Int /\ d > 0 /\ r > 0
    BY <1>1, <2>1, FieldsKept DEF Duration, Shaped
  <2>4. 10 * Abs(d - r) <= Larger(d, r)
    BY <1>1, <2>2 DEF Comparable
  <2>5. PICK a, b \in {pair.degraded, pair.relief} : 10 * (Duration(a) - Duration(b)) > Duration(a)
    BY DEF AtFault
  <2>6. 10 * (d - r) > d \/ 10 * (r - d) > r \/ 10 * (d - d) > d \/ 10 * (r - r) > r
    BY <2>1, <2>5
  <2> QED
    BY <2>3, <2>4, <2>6 DEF Abs, Larger
<1>6. ~Enough(Cardinality({m \in Features : Whole(pair, m)}))
  BY <1>2, <1>3, <1>4, <1>5 DEF AtFault, Faults
<1>7. {m \in Features : Whole(p, m)} \subseteq {m \in Features : Whole(pair, m)}
  BY MeasuresKept DEF Features
<1> QED
  BY <1>6, <1>7, FeaturesFinite, EnoughMore
-----------------------------------------------------------------------------
(* What a match says of the fingerprint that it takes its label from.      *)

(* A genuine fingerprint that is not rejected is checked, of a like        *)
(* context, and shares enough features.                                    *)
LEMMA ComparedMeans ==
  ASSUME NEW q, NEW f \in Genuine, Rejections(q, f) = {}
  PROVE  /\ f.status = "software_checked"
         /\ Alike(q.observation.degraded.context) = Alike(f.response.observation.degraded.context)
         /\ Enough(Cardinality(SharedOf(q, f.vector)))
         /\ Cardinality(SharedOf(q, f.vector)) >= Policy.shared
<1>1. Mismatches(q, f) = {} /\ TooFew(q, f.vector) = {}
  BY DEF Rejections
<1> DEFINE a == q.observation
           b == f.response.observation
           same(field) == a.degraded[field] = b.degraded[field]
           checked == f.status = "software_checked"
           like == Alike(a.degraded.context) = Alike(b.degraded.context)
           checks == [validation_status |-> checked, registry_mismatch |-> same("registry"),
                      provenance_mismatch |-> same("provenance"), capture_method_mismatch |-> same("method"),
                      clock_meaning_mismatch |-> same("clock"), context_mismatch |-> like,
                      probe_mismatch |-> <<a.probe.method, a.probe.requested>> = <<b.probe.method, b.probe.requested>>,
                      settings_mismatch |-> same("settings") /\ a.relief.settings = b.relief.settings]
<1>2. checked /\ like
  <2>1. Mismatches(q, f) = {code \in DOMAIN checks : ~checks[code]}
    BY Zenon DEF Mismatches
  <2>2. checks.validation_status = checked /\ checks.context_mismatch = like
    BY Zenon
  <2>3. "validation_status" \in DOMAIN checks /\ "context_mismatch" \in DOMAIN checks
    OBVIOUS
  <2> HIDE DEF checks
  <2>4. checks["validation_status"] /\ checks["context_mismatch"]
    BY <1>1, <2>1, <2>3
  <2> QED
    BY <2>2, <2>4, Zenon
<1>3. Alike(q.observation.degraded.context) = Alike(f.response.observation.degraded.context)
  BY <1>2
<1>4. PICK n : n = Cardinality(SharedOf(q, f.vector))
  OBVIOUS
<1>5. n \in Nat
  <2>1. DOMAIN f.vector \subseteq Features
    BY GenuineFields DEF Vector
  <2>2. IsFiniteSet(Features)
    BY PolicyAssumption, FS_Subset DEF Features
  <2>3. SharedOf(q, f.vector) \in SUBSET Features
    BY <2>1 DEF SharedOf
  <2> QED
    BY <1>4, <2>2, <2>3, FS_Subset, FS_CardinalityType
<1>6. Policy.share * Cardinality(Features) \in Int
  <2>1. IsFiniteSet(Features)
    BY PolicyAssumption, FS_Subset DEF Features
  <2> QED
    BY <2>1, FS_CardinalityType, PolicyAssumption
<1>7. ~(n < Policy.shared) /\ ~(100 * n < Policy.share * Cardinality(Features))
  BY <1>1, <1>4 DEF TooFew
<1>8. n >= Policy.shared /\ 100 * n >= Policy.share * Cardinality(Features)
  BY <1>5, <1>6, <1>7, PolicyAssumption
<1> QED
  BY <1>2, <1>3, <1>4, <1>8 DEF Enough

Sound(q) == ValidResponse(q) /\ Measured(q.observation)

LEMMA SoundFeature ==
  ASSUME NEW q, Sound(q), NEW m \in Features, q.features[m].codes = {}
  PROVE  q.features[m].value \in Int /\ Whole(q.observation, m)
<1>1. q.features[m] = FeatureOf(q.observation, m)
  BY DEF Sound, ValidResponse, Response
<1> QED
  BY <1>1, FeatureIsNumber DEF Sound

LEMMA GenuineFeature ==
  ASSUME NEW f \in Genuine, NEW m \in DOMAIN f.vector
  PROVE  m \in Features /\ f.vector[m] \in Int
<1>1. f.vector = Vector(f.response) /\ Sound(f.response)
  BY GenuineFields, GenuineAssumption DEF Sound, Shaped, ValidFingerprint
<1>2. /\ m \in Features /\ f.response.features[m].codes = {}
      /\ f.vector[m] = f.response.features[m].value
  BY <1>1 DEF Vector
<1> QED
  BY <1>1, <1>2, SoundFeature

(* What is shared is measured completely, so it is enough of what is. *)
LEMMA SharedWhole ==
  ASSUME NEW q, Sound(q), NEW f \in Genuine, Rejections(q, f) = {}
  PROVE  Enough(Cardinality({m \in Features : Whole(q.observation, m)}))
<1>1. SharedOf(q, f.vector) \subseteq {m \in Features : Whole(q.observation, m)}
  BY GenuineFeature, SoundFeature DEF SharedOf
<1> QED
  BY <1>1, ComparedMeans, FeaturesFinite, EnoughMore

LEMMA ComparisonFields ==
  ASSUME NEW q, Sound(q), NEW f \in Genuine, Rejections(q, f) = {}
  PROVE  LET c == Comparison(q, f) IN
         c.id = f.id /\ c.id \in Nat /\ c.label = f.label /\ c.distance \in Nat
<1> DEFINE shared == SharedOf(q, f.vector)
           residual(m) == q.features[m].value - f.vector[m]
           terms == [m \in shared |-> residual(m) * residual(m)]
<1>1. Comparison(q, f).id = f.id /\ Comparison(q, f).label = f.label
  BY DEF Comparison
<1>2. Comparison(q, f).distance = Root(SumOver(terms) \div Cardinality(shared))
  BY DEF Comparison
<1>3. f.id \in Nat
  BY GenuineFields, PolicyAssumption
<1>4. IsFiniteSet(shared)
  <2>1. shared \in SUBSET Features
    BY GenuineFeature DEF SharedOf
  <2>2. IsFiniteSet(Features)
    BY PolicyAssumption, FS_Subset DEF Features
  <2> QED
    BY <2>1, <2>2, FS_Subset
<1>5. \A m \in shared : terms[m] \in Nat
  <2> SUFFICES ASSUME NEW m \in shared PROVE residual(m) * residual(m) \in Nat
    OBVIOUS
  <2>1. residual(m) \in Int
    BY GenuineFeature, SoundFeature DEF SharedOf
  <2> HIDE DEF residual
  <2> QED
    BY <2>1
<1>6. DOMAIN terms = shared
  OBVIOUS
<1>7. Cardinality(shared) \in Nat \ {0}
  <2>1. Cardinality(shared) >= Policy.shared
    BY ComparedMeans
  <2> HIDE DEF shared
  <2>2. Cardinality(shared) \in Nat
    BY <1>4, FS_CardinalityType
  <2> QED
    BY <2>1, <2>2, PolicyAssumption
<1>8. Comparison(q, f).distance \in Nat
  <2> HIDE DEF terms, shared
  <2>1. SumOver(terms) \in Nat
    BY <1>4, <1>5, <1>6, SumOverIsNat
  <2>2. SumOver(terms) \div Cardinality(shared) \in Nat
    BY <1>7, <2>1
  <2> QED
    BY <1>2, <2>2, RootIsNat
<1> QED
  BY <1>1, <1>3, <1>8

LEMMA MarginHolds ==
  ASSUME NEW best, NEW next, best.distance \in Nat, next.distance \in Nat, ~Close(best, next)
  PROVE  best.distance < next.distance
<1>1. PICK a \in Nat, b \in Nat : a = best.distance /\ b = next.distance
  OBVIOUS
<1>2. ~(100 * Scale * (b - a) < Policy.margin * (Scale + a) * (Scale + b))
  BY <1>1 DEF Close
<1>3. PICK s \in Nat, t \in Nat, k \in Nat : s = Scale /\ t = Policy.margin /\ s # 0 /\ t # 0 /\ k = s + a
  BY ScaleAssumption, PolicyAssumption
<1>4. t * k \in Nat /\ t * k > 0
  BY <1>3
<1>5. (t * k) * (s + b) > 0
  <2>1. PICK x \in Nat, y \in Nat : x = t * k /\ y = s + b /\ x > 0 /\ y > 0
    BY <1>3, <1>4
  <2>2. x * y > 0
    BY <2>1
  <2> QED
    BY <2>1, <2>2
<1>6. 100 * s * (b - a) > 0
  BY <1>2, <1>3, <1>4, <1>5
<1>7. CASE b <= a
  <2>1. PICK d \in Nat : d = a - b /\ b - a = -d
    BY <1>7
  <2>2. s * d \in Nat
    BY <1>3
  <2>3. 100 * s * (b - a) = -(100 * (s * d))
    BY <1>3, <2>1
  <2> QED
    BY <1>6, <2>2, <2>3
<1> QED
  BY <1>1, <1>7
(* A label comes from a fingerprint that is nearer than all the others.    *)
LEMMA LabelMeans ==
  ASSUME NEW q, Sound(q), NEW R \in SUBSET Genuine, IsFiniteSet(R),
         NEW r, r = Match(q, R), r.decision.label # Null
  PROVE  /\ ~Confounded(q.observation)
         /\ Enough(Cardinality({m \in Features : Whole(q.observation, m)}))
         /\ \E f \in R :
              /\ f.label = r.decision.label /\ f.status = "software_checked"
              /\ Alike(q.observation.degraded.context) = Alike(f.response.observation.degraded.context)
              /\ \A x, y \in r.comparisons : x.id = f.id /\ y.id # f.id => x.distance < y.distance
<1> DEFINE In == R \ {f \in R : Rejections(q, f) # {}}
           C == {Comparison(q, f) : f \in In}
           first == Ranked(C)[1]
<1>1. r.comparisons = C /\ \E refs, rej : r.decision = Decision(q, refs, rej, C)
  BY Zenon DEF Match
<1>2. PICK refs, rej : r.decision = Decision(q, refs, rej, C)
  BY <1>1
<1>3. \A f \in In : f \in Genuine /\ Rejections(q, f) = {}
  OBVIOUS
<1>4. IsFiniteSet(C)
  <2>1. IsFiniteSet(In)
    BY FS_Subset
  <2>2. PICK G : G = [f \in In |-> Comparison(q, f)]
    OBVIOUS
  <2>3. C = {G[f] : f \in In}
    BY <2>2
  <2>4. DOMAIN G = In /\ G = [f \in In |-> G[f]]
    BY <2>2
  <2> HIDE DEF In, C
  <2> QED
    BY <2>1, <2>3, <2>4, FiniteImage
<1>5. Distinct(C)
  <2>1. ASSUME NEW c \in C PROVE c.distance \in Nat /\ c.id \in Nat
    BY <1>3, ComparisonFields
  <2>2. ASSUME NEW c \in C, NEW d \in C, c.id = d.id PROVE c = d
    <3>1. PICK f \in In, g \in In : c = Comparison(q, f) /\ d = Comparison(q, g)
      OBVIOUS
    <3>2. f.id = c.id /\ g.id = d.id
      BY <1>3, <3>1, ComparisonFields
    <3>3. f = g
      BY <1>3, <2>2, <3>2, IdentityDetermines
    <3> QED
      BY <3>1, <3>3
  <2> QED
    BY <2>1, <2>2 DEF Distinct
<1> HIDE DEF C
<1> DEFINE reason == UnknownReason(q, refs, rej, Ranked(C))
<1>6. r.decision.label = IF reason = Null THEN first.label ELSE Null
  BY <1>2 DEF Decision
<1>7. reason = Null /\ r.decision.label = first.label
  BY <1>6
<1>8. /\ q.invalid = Null /\ DOMAIN Ranked(C) # {}
      /\ 2 \in DOMAIN Ranked(C) => ~Close(first, Ranked(C)[2])
  <2>1. q.invalid = Null
    BY <1>7, ReasonsAssumption DEF UnknownReason
  <2>2. DOMAIN Ranked(C) # {}
    BY <1>7, ReasonsAssumption DEF UnknownReason
  <2>3. 2 \in DOMAIN Ranked(C) => ~Close(first, Ranked(C)[2])
    BY <1>7, ReasonsAssumption DEF UnknownReason
  <2> QED
    BY <2>1, <2>2, <2>3
<1>9. C # {}
  <2> SUFFICES ASSUME C = {} PROVE DOMAIN Ranked(C) = {}
    BY <1>8
  <2>1. Cardinality(C) = 0
    BY FS_EmptySet
  <2> QED
    BY <2>1 DEF Ranked
<1>10. /\ first \in C
       /\ \A d \in C \ {first} : Nearer(first, d)
  BY <1>4, <1>5, <1>9, FirstRanked
<1>11. PICK f \in In : first = Comparison(q, f)
  BY <1>10 DEF C
<1>12. first.id = f.id /\ first.label = f.label
  BY <1>3, <1>11, ComparisonFields
<1>13. ASSUME NEW x \in C, NEW y \in C, x.id = f.id, y.id # f.id PROVE x.distance < y.distance
  <2>1. x = first /\ y # first
    BY <1>5, <1>10, <1>12, <1>13 DEF Distinct
  <2>2. /\ 2 \in DOMAIN Ranked(C) /\ Ranked(C)[2] \in C
        /\ Ranked(C)[2].distance <= y.distance
    BY <1>4, <1>5, <2>1, SecondRanked
  <2>3. PICK next : next = Ranked(C)[2]
    OBVIOUS
  <2>4. first.distance \in Nat /\ next.distance \in Nat /\ y.distance \in Nat
    BY <1>5, <1>10, <2>2, <2>3 DEF Distinct
  <2>5. first.distance < next.distance
    BY <1>8, <2>2, <2>3, <2>4, MarginHolds
  <2> QED
    BY <2>1, <2>2, <2>3, <2>4, <2>5
<1>14. ~Confounded(q.observation)
  <2>1. q.invalid = InvalidReason(q.observation)
    BY DEF Sound, ValidResponse, Response
  <2> QED
    BY <1>8, <2>1, ReasonsAssumption DEF InvalidReason
<1>15. f \in R /\ f \in Genuine /\ Rejections(q, f) = {}
  BY <1>3
<1>16. /\ f.status = "software_checked"
       /\ Alike(q.observation.degraded.context) = Alike(f.response.observation.degraded.context)
  BY <1>15, ComparedMeans
<1>17. Enough(Cardinality({m \in Features : Whole(q.observation, m)}))
  BY <1>15, SharedWhole
<1>18. f.label = r.decision.label
  BY <1>7, <1>12
<1>19. \A x, y \in r.comparisons : x.id = f.id /\ y.id # f.id => x.distance < y.distance
  BY <1>1, <1>13
<1> QED
  BY <1>14, <1>15, <1>16, <1>17, <1>18, <1>19

-----------------------------------------------------------------------------
(* A result is of the pair that was captured.                              *)

Of(q, c) == "observation" \in DOMAIN q /\ q.observation = Prepared(c.pair)

QueryKnown ==
  /\ capture = Null => query = Null /\ load = Null /\ made = Null
  /\ capture # Null => capture \in Captures /\ (query = Refusal \/ Of(query, capture))
  /\ load \notin {Null, Failure} => ValidResponse(query) /\ Of(query, capture)
MadeKnown ==
  made # Null =>
    /\ made.result = Match(made.result.query, made.of.read)
    /\ ValidResponse(made.result.query) /\ Of(made.result.query, capture)
    /\ made.of.read \subseteq Genuine /\ IsFiniteSet(made.of.read)

LEMMA QueryStep ==
  ASSUME Inv, QueryKnown, MadeKnown, [Next]_vars PROVE QueryKnown' /\ MadeKnown'
<1>1. CASE Capture
  <2>1. PICK c \in Captures :
          /\ capture' = c
          /\ query' = IF ValidPair(Prepared(c.pair)) THEN Response(Prepared(c.pair)) ELSE Refusal
    BY <1>1, Zenon DEF Capture
  <2>2. capture = Null /\ UNCHANGED <<load, made>>
    BY <1>1 DEF Capture
  <2>3. \A p : "observation" \in DOMAIN Response(p) /\ Response(p).observation = p
    BY DEF Response
  <2>4. query' = Refusal \/ Of(query', capture')
    BY <2>1, <2>3 DEF Of
  <2>5. load = Null /\ made = Null
    BY <2>2 DEF QueryKnown
  <2>6. capture' \in Captures /\ capture' # Null
    BY <2>1, NullAssumption
  <2> QED
    BY <2>2, <2>4, <2>5, <2>6 DEF QueryKnown, MadeKnown
<1>2. CASE ForgeResponse
  <2>1. /\ load = Null /\ query \notin {Null, Refusal} /\ UNCHANGED <<capture, load, made>>
        /\ \/ query' = [query EXCEPT !.invalid = Null]
           \/ \E m \in Features : query' = [query EXCEPT !.features[m].value = @ + 5]
    BY <1>2, Zenon DEF ForgeResponse, Ready
  <2>2. "observation" \in DOMAIN query =>
          "observation" \in DOMAIN query' /\ query'.observation = query.observation
    <3>1. CASE query' = [query EXCEPT !.invalid = Null]
      BY <3>1
    <3>2. CASE \E m \in Features : query' = [query EXCEPT !.features[m].value = @ + 5]
      BY <3>2
    <3> QED
      BY <2>1, <3>1, <3>2
  <2>3. capture # Null /\ Of(query, capture)
    BY <2>1 DEF QueryKnown
  <2>4. Of(query', capture')
    BY <2>1, <2>2, <2>3 DEF Of
  <2> QED
    BY <2>1, <2>3, <2>4 DEF QueryKnown, MadeKnown
<1>3. CASE Begin
  <2>1. /\ query \notin {Null, Refusal} /\ UNCHANGED <<capture, query, made>>
        /\ load' # Failure => ValidResponse(query)
    BY <1>3 DEF Begin, Ready
  <2>2. capture # Null /\ Of(query, capture)
    BY <2>1 DEF QueryKnown
  <2> QED
    BY <2>1, <2>2 DEF QueryKnown, MadeKnown
<1>4. CASE ReadEntry
  <2>1. load \notin {Null, Failure} /\ UNCHANGED <<capture, query, made>>
    BY <1>4 DEF ReadEntry, Loading
  <2> QED
    BY <2>1 DEF QueryKnown, MadeKnown
<1>5. CASE Matched
  <2>1. PICK r : r = Match(query, load.read)
    OBVIOUS
  <2>2. /\ load \notin {Null, Failure} /\ made' = [of |-> load, result |-> r] /\ load' = Null
        /\ UNCHANGED <<capture, query>>
    BY <1>5, <2>1 DEF Matched, Loaded
  <2>3. /\ ValidResponse(query) /\ Of(query, capture) /\ capture # Null
    BY <2>2 DEF QueryKnown
  <2>4. load.read \subseteq Genuine /\ IsFiniteSet(load.read)
    BY <2>2 DEF Inv, LoadKnown
  <2>5. r.query = query
    BY <2>1 DEF Match
  <2>6. made'.of = load /\ made'.result = r
    BY <2>2
  <2> QED
    BY <2>1, <2>2, <2>3, <2>4, <2>5, <2>6 DEF QueryKnown, MadeKnown
<1>6. CASE Verified
  <2>1. load \notin {Null, Failure} /\ load' = Null /\ UNCHANGED <<capture, query, made>>
    BY <1>6 DEF Verified, Loaded
  <2> QED
    BY <2>1 DEF QueryKnown, MadeKnown
<1>7. CASE Edit \/ Tamper \/ EditResult \/ UNCHANGED vars
  <2>1. UNCHANGED <<capture, query, load, made>>
    BY <1>7, Zenon DEF Edit, Tamper, EditResult, vars
  <2> QED
    BY <2>1 DEF QueryKnown, MadeKnown
<1> QED
  BY <1>1, <1>2, <1>3, <1>4, <1>5, <1>6, <1>7 DEF Next

(* MatchEarned holds in every state, for every policy, captures and        *)
(* fingerprints: a label is given only to a pair without any of the        *)
(* faults, and only from a checked fingerprint of that label captured in a *)
(* like context that is nearer than every other compared.                  *)
THEOREM MatchesAreEarned == Spec => []MatchEarned
<1>1. Init => QueryKnown /\ MadeKnown
  BY DEF Init, QueryKnown, MadeKnown
<1>2. Inv /\ QueryKnown /\ MadeKnown /\ [Next]_vars => QueryKnown' /\ MadeKnown'
  BY QueryStep
<1>3. ASSUME Inv, QueryKnown, MadeKnown PROVE MatchEarned
  <2> SUFFICES ASSUME made # Null, made.result.decision.label # Null
               PROVE  Earned(capture, made.result.decision.label)
    BY DEF MatchEarned
  <2>1. PICK c, q, R, r : c = capture /\ r = made.result /\ q = r.query /\ R = made.of.read
    OBVIOUS
  <2>2. c \in Captures /\ Shaped(c.pair)
    BY <1>3, <2>1, CapturesAssumption DEF QueryKnown
  <2>3. r = Match(q, R) /\ ValidResponse(q) /\ q.observation = Prepared(c.pair)
    BY <1>3, <2>1 DEF MadeKnown, Of
  <2>4. R \in SUBSET Genuine /\ IsFiniteSet(R)
    BY <1>3, <2>1 DEF MadeKnown
  <2>5. Sound(q)
    BY <2>2, <2>3, MeasuresKept DEF Sound
  <2>6. /\ ~Confounded(q.observation)
        /\ Enough(Cardinality({m \in Features : Whole(q.observation, m)}))
        /\ \E f \in R :
             /\ f.label = r.decision.label /\ f.status = "software_checked"
             /\ Alike(q.observation.degraded.context) = Alike(f.response.observation.degraded.context)
             /\ \A x, y \in r.comparisons : x.id = f.id /\ y.id # f.id => x.distance < y.distance
    <3>1. r.decision.label # Null
      BY <2>1
    <3> QED
      BY <2>3, <2>4, <2>5, <3>1, LabelMeans, SMTT(30)
  <2>7. c.wrong \notin Faults
    <3>1. ValidPair(q.observation)
      BY <2>3 DEF ValidResponse
    <3> QED
      BY <2>2, <2>3, <2>6, <3>1, FaultShows, CapturesAssumption
  <2>8. q.observation.degraded.context = c.pair.degraded.context
    BY <2>2, <2>3, FieldsKept
  <2> QED
    BY <2>1, <2>4, <2>6, <2>7, <2>8 DEF Earned
<1>4. Inv /\ QueryKnown /\ MadeKnown => MatchEarned
  BY <1>3
<1> QED
  BY <1>1, <1>2, <1>4, Invariant, PTL DEF Spec
-----------------------------------------------------------------------------
(* Where nothing goes wrong.                                               *)

(* What a match retains reconstructs the match.                            *)
LEMMA MatchIsValid ==
  ASSUME NEW q, ValidResponse(q), NEW R \in SUBSET Genuine, NEW r, r = Match(q, R)
  PROVE  ValidResult(r)
<1> DEFINE out == {f \in R : Rejections(q, f) # {}}
           rej == [i \in {f.id : f \in out} |-> Rejections(q, CHOOSE f \in out : f.id = i)]
           C == {Comparison(q, f) : f \in R \ out}
           ids == {f.id : f \in R}
           compared == {c.id : c \in C}
<1>1. /\ r.query = q /\ r.references = ids /\ r.rejections = rej /\ r.comparisons = C
      /\ r.decision = Decision(q, ids, rej, C)
  BY DEF Match
<1>2. \A f : Comparison(q, f).id = f.id
  BY DEF Comparison
<1>3. DOMAIN rej = {f.id : f \in out}
  OBVIOUS
<1>4. \A i : i \in compared <=> \E f \in R \ out : i = f.id
  BY <1>2
<1>5. DOMAIN rej \cap compared = {}
  <2>1. ASSUME NEW f \in out, NEW g \in R \ out, f.id = g.id PROVE FALSE
    <3>1. f = g
      BY <2>1, IdentityDetermines
    <3> QED
      BY <3>1
  <2> HIDE DEF compared, rej, out
  <2>2. \A i \in DOMAIN rej : \E f \in out : i = f.id
    BY <1>3
  <2> QED
    BY <1>4, <2>1, <2>2
<1>6. DOMAIN rej \cup compared = ids
  <2> HIDE DEF compared, rej
  <2> QED
    BY <1>3, <1>4
<1>7. ASSUME NEW i \in DOMAIN rej PROVE Staged(r, rej[i])
  <2>1. PICK f \in out : rej[i] = Rejections(q, f)
    <3>1. \E f \in out : f.id = i
      BY <1>7
    <3>2. (CHOOSE f \in out : f.id = i) \in out
      BY <3>1
    <3>3. rej[i] = Rejections(q, CHOOSE f \in out : f.id = i)
      BY <1>7
    <3> HIDE DEF rej, out
    <3> QED
      BY <3>2, <3>3
  <2>2. PICK codes : codes = Rejections(q, f) /\ codes # {}
    OBVIOUS
  <2>3. q.invalid # Null => codes = {"query_invalid"}
    BY <2>2 DEF Rejections
  <2>4. q.invalid = Null => codes = Mismatches(q, f) \/ codes = TooFew(q, f.vector)
    BY <2>2 DEF Rejections
  <2>5. Mismatches(q, f) \subseteq {"validation_status", "registry_mismatch", "provenance_mismatch",
             "capture_method_mismatch", "clock_meaning_mismatch", "context_mismatch", "probe_mismatch",
             "settings_mismatch"}
    BY DEF Mismatches
  <2>6. TooFew(q, f.vector) \subseteq {"shared_feature_count", "feature_coverage"}
    BY DEF TooFew
  <2> HIDE DEF rej, C
  <2>7. Staged(r, codes)
    BY <1>1, <2>2, <2>3, <2>4, <2>5, <2>6 DEF Staged
  <2> QED
    BY <2>1, <2>2, <2>7
<1>8. q.invalid # Null => C = {}
  <2>1. q.invalid # Null => \A f : Rejections(q, f) = {"query_invalid"}
    BY DEF Rejections
  <2> QED
    BY <2>1
<1>9. ASSUME NEW c \in C PROVE c = Recompared(q, c)
  <2>1. PICK f \in R \ out : c = Comparison(q, f)
    OBVIOUS
  <2>2. PICK g : g = [id |-> c.id, label |-> c.label, vector |-> c.vector]
    OBVIOUS
  <2>3. g.id = f.id /\ g.label = f.label /\ g.vector = f.vector
    BY <2>1, <2>2 DEF Comparison
  <2>4. Comparison(q, g) = Comparison(q, f)
    BY <2>3, Zenon DEF Comparison
  <2> QED
    BY <2>1, <2>2, <2>4 DEF Recompared
<1> HIDE DEF rej, C, ids
<1> QED
  BY <1>1, <1>5, <1>6, <1>7, <1>8, <1>9 DEF ValidResult

(* Everything of a directory is listed, and nothing else.                  *)
LEMMA EntriesWhole ==
  ASSUME NEW names \in {Outer, Inner}
  PROVE  \A n : n \in Range(Entries(names)) <=>
                  n \in Range(names) /\ (IF n = "s" THEN HasInner ELSE n \in DOMAIN directory)
<1> DEFINE P == {i \in DOMAIN names :
                   IF names[i] = "s" THEN HasInner ELSE names[i] \in DOMAIN directory}
<1>1. names \in Seq(Files \cup {"s"})
  <2>1. CASE names = <<"a", "b", "s">>
    BY <2>1 DEF Files
  <2>2. CASE names = <<"s/c", "s/d">>
    BY <2>2 DEF Files
  <2> QED
    BY <2>1, <2>2 DEF Outer, Inner
<1>2. P \in SUBSET DOMAIN names /\ Entries(names) = Kept(names, P)
  BY DEF Entries
<1> HIDE DEF P
<1>3. /\ Kept(names, P) \in Seq(Files \cup {"s"})
      /\ Len(Kept(names, P)) = Cardinality(P) /\ Cardinality(P) \in Nat
      /\ \A i \in 1..Cardinality(P) : Place(P, i) \in P /\ Kept(names, P)[i] = names[Place(P, i)]
      /\ \A p \in P : \E i \in 1..Cardinality(P) : Place(P, i) = p
  BY <1>1, <1>2, KeptInOrder
<1>4. PICK n, k : /\ n \in Nat /\ n = Cardinality(P) /\ k = Kept(names, P) /\ DOMAIN k = 1..n
  BY <1>3
<1>5. \A x : x \in Range(k) <=> \E i \in 1..n : x = k[i]
  BY <1>4 DEF Range
<1>6. \A x : x \in Range(k) <=> \E p \in P : x = names[p]
  BY <1>3, <1>4, <1>5
<1>7. \A x : x \in Range(names) <=> \E p \in DOMAIN names : x = names[p]
  BY DEF Range
<1>8. \A p : p \in P <=> /\ p \in DOMAIN names
                         /\ IF names[p] = "s" THEN HasInner ELSE names[p] \in DOMAIN directory
  BY DEF P
<1> QED
  BY <1>2, <1>4, <1>6, <1>7, <1>8

(* What is not yet read of a directory, and what is.                       *)
Pending(l) == Range(l.todo) \cup IF "s" \in Range(l.todo) THEN Range(Inner) ELSE {}
Plain(l) ==
  /\ l.links = {} /\ Range(l.todo) \ {"s"} \subseteq DOMAIN directory
  /\ l.read = {directory[n] : n \in DOMAIN directory \ Pending(l)}
Everything == {directory[n] : n \in DOMAIN directory}

QuietKnown ==
  /\ capture = Null => trouble = Null /\ result = Null
  /\ Quiet =>
       /\ directory \in Directories
       /\ capture # Null => query # Refusal /\ ValidResponse(query)
       /\ load # Failure /\ (load # Null => Plain(load))
       /\ result # Null => result = Match(result.query, Everything) /\ ValidResponse(result.query)
       /\ verdict # Null => verdict.agrees
LEMMA NamesOf == Range(Outer) = {"a", "b", "s"} /\ Range(Inner) = {"s/c", "s/d"}
BY DEF Range, Outer, Inner

LEMMA NoLinks ==
  ASSUME directory \in Directories, NEW names
  PROVE  Links(names) = {}
<1>1. \A n \in DOMAIN directory : directory[n] \in Genuine
  BY DirectoriesAssumption
<1>2. ASSUME NEW f \in Genuine PROVE f # Link
  <2>1. "id" \in DOMAIN f
    BY GenuineFields
  <2>2. "id" \notin DOMAIN Link
    BY DEF Link
  <2> QED
    BY <2>1, <2>2
<1> QED
  BY <1>1, <1>2 DEF Links

LEMMA PlainBegin ==
  ASSUME directory \in Directories,
         NEW l, l = [todo |-> Entries(Outer), listed |-> {n \in Range(Entries(Outer)) : Json(n)},
                     links |-> Links(Outer), read |-> {}]
  PROVE  Plain(l)
<1>1. PICK t : t = Entries(Outer) /\ l.todo = t /\ l.links = Links(Outer) /\ l.read = {}
  OBVIOUS
<1>2. \A n : n \in Range(t) <=> n \in {"a", "b", "s"} /\ (IF n = "s" THEN HasInner ELSE n \in DOMAIN directory)
  BY <1>1, EntriesWhole, NamesOf
<1>3. DOMAIN directory \subseteq {"a", "b", "s/c", "s/d"}
  BY DirectoriesAssumption DEF Files
<1>4. DOMAIN directory \cap {"s/c", "s/d"} # {} => "s" \in Range(t)
  BY <1>2, NamesOf DEF HasInner
<1>5. DOMAIN directory \ Pending(l) = {}
  BY <1>1, <1>2, <1>3, <1>4, NamesOf DEF Pending
<1>6. Range(t) \ {"s"} \subseteq DOMAIN directory
  BY <1>2
<1> QED
  BY <1>1, <1>5, <1>6, NoLinks DEF Plain

LEMMA PlainInner ==
  ASSUME directory \in Directories, LoadKnown(load), Plain(load), load.todo # <<>>, Head(load.todo) = "s",
         NEW l, l = [load EXCEPT !.todo = Entries(Inner) \o Tail(load.todo),
                                 !.listed = @ \cup Range(Entries(Inner)),
                                 !.links = @ \cup Links(Inner)]
  PROVE  Plain(l)
<1>1. PICK todo, rest, e : todo = load.todo /\ rest = Tail(todo) /\ e = Entries(Inner)
  OBVIOUS
<1>2. /\ todo \in Seq(Files \cup {"s"}) /\ IsInjective(todo) /\ todo # <<>> /\ Head(todo) = "s"
      /\ Range(todo) \ {"s"} \subseteq load.listed
      /\ "s" \in Range(todo) => load.listed \cap Range(Inner) = {}
  BY <1>1 DEF LoadKnown
<1>3. /\ "s" \in Range(todo) /\ rest \in Seq(Files \cup {"s"}) /\ IsInjective(rest)
      /\ Range(rest) = Range(todo) \ {"s"}
  BY <1>1, <1>2, RestOf
<1>4. \A n : n \in Range(e) <=> n \in {"s/c", "s/d"} /\ n \in DOMAIN directory
  <2>1. \A n : n \in Range(e) <=> n \in {"s/c", "s/d"} /\ (IF n = "s" THEN HasInner ELSE n \in DOMAIN directory)
    BY <1>1, EntriesWhole, NamesOf
  <2> QED
    BY <2>1
<1>5. /\ e \in Seq(Files \cup {"s"}) /\ IsInjective(e)
  BY <1>1, EntriesListed
<1>6. Range(e) \cap Range(rest) = {}
  BY <1>2, <1>3, <1>4, NamesOf
<1>7. PICK after : after = e \o rest /\ Range(after) = Range(e) \cup Range(rest)
  <2>1. Range(e \o rest) = Range(e) \cup Range(rest)
    BY <1>3, <1>5, <1>6, Joined
  <2> QED
    BY <2>1, Zenon
<1>8. /\ l.todo = after /\ l.links = load.links \cup Links(Inner) /\ l.read = load.read
  <2>1. PICK x, y, z : /\ load = [todo |-> todo, listed |-> x, links |-> y, read |-> z]
                       /\ x = load.listed /\ y = load.links /\ z = load.read
    BY <1>1 DEF LoadKnown
  <2>2. l = [load EXCEPT !.todo = after, !.listed = x \cup Range(e), !.links = y \cup Links(Inner)]
    BY <1>1, <1>7, <2>1
  <2>3. l = [todo |-> after, listed |-> x \cup Range(e), links |-> y \cup Links(Inner), read |-> z]
    BY ONLY <2>1, <2>2
  <2> QED
    BY ONLY <2>1, <2>3
<1>9. load.links = {} /\ Range(todo) \ {"s"} \subseteq DOMAIN directory
      /\ load.read = {directory[n] : n \in DOMAIN directory \ Pending(load)}
  BY <1>1 DEF Plain
<1>10. "s" \notin DOMAIN directory /\ "s" \notin Range(after)
  <2>1. DOMAIN directory \subseteq {"a", "b", "s/c", "s/d"}
    BY DirectoriesAssumption DEF Files
  <2> QED
    BY <1>3, <1>4, <1>7, <2>1
<1>11. DOMAIN directory \ Pending(l) = DOMAIN directory \ Pending(load)
  <2>1. Pending(load) = Range(todo) \cup {"s/c", "s/d"}
    BY <1>1, <1>3, NamesOf DEF Pending
  <2>2. Pending(l) = Range(e) \cup Range(rest)
    BY <1>7, <1>8, <1>10 DEF Pending
  <2> QED
    BY <1>3, <1>4, <1>10, <2>1, <2>2
<1>12. Range(after) \ {"s"} \subseteq DOMAIN directory
  BY <1>3, <1>4, <1>7, <1>9
<1>13. l.links = {}
  BY <1>8, <1>9, NoLinks
<1>14. l.read = {directory[n] : n \in DOMAIN directory \ Pending(l)}
  BY <1>8, <1>9, <1>11
<1> QED
  BY <1>8, <1>12, <1>13, <1>14 DEF Plain

(* A file of a directory that nobody edits is never refused.               *)
LEMMA PlainFile ==
  ASSUME directory \in Directories, LoadKnown(load), Plain(load), load.todo # <<>>,
         NEW n, n = Head(load.todo), n # "s"
  PROVE  /\ n \notin load.links /\ n \in DOMAIN directory /\ ~Refused(n, directory[n], load.read)
         /\ \A l : l = [load EXCEPT !.todo = Tail(load.todo), !.read = @ \cup {directory[n]}] => Plain(l)
<1>1. PICK todo, rest, read : todo = load.todo /\ rest = Tail(todo) /\ read = load.read
  OBVIOUS
<1>2. /\ todo \in Seq(Files \cup {"s"}) /\ IsInjective(todo) /\ todo # <<>> /\ n = Head(todo)
      /\ Range(todo) \ {"s"} \subseteq load.listed
      /\ "s" \in Range(todo) => load.listed \cap Range(Inner) = {}
  BY <1>1 DEF LoadKnown
<1>3. /\ n \in Range(todo) /\ Range(rest) = Range(todo) \ {n}
  BY <1>1, <1>2, RestOf
<1>4. /\ load.links = {} /\ Range(todo) \ {"s"} \subseteq DOMAIN directory
      /\ read = {directory[m] : m \in DOMAIN directory \ Pending(load)}
  BY <1>1 DEF Plain
<1>5. n \in DOMAIN directory /\ n \in Pending(load)
  BY <1>1, <1>3, <1>4 DEF Pending
<1>6. /\ \A m \in DOMAIN directory : directory[m] \in Genuine
      /\ \A m, k \in DOMAIN directory : directory[m] = directory[k] => m = k
  BY DirectoriesAssumption
<1>7. ~Refused(n, directory[n], read)
  <2>1. directory[n] \in Genuine
    BY <1>5, <1>6
  <2>2. "id" \in DOMAIN directory[n] /\ "id" \notin DOMAIN Link
    BY <2>1, GenuineFields DEF Link
  <2>3. ValidFingerprint(directory[n])
    BY <2>1, GenuineFields
  <2>4. ASSUME NEW m \in DOMAIN directory \ Pending(load), directory[m].id = directory[n].id PROVE FALSE
    <3>1. directory[m] = directory[n]
      BY <1>6, <2>1, <2>4, IdentityDetermines
    <3> QED
      BY <1>5, <1>6, <3>1
  <2>5. directory[n].id \notin {f.id : f \in read}
    BY <1>4, <2>4
  <2>6. directory[n] # Link
    BY <2>2
  <2> QED
    BY <2>3, <2>5, <2>6 DEF Refused
<1>8. ASSUME NEW l, l = [load EXCEPT !.todo = Tail(load.todo), !.read = @ \cup {directory[n]}]
      PROVE  Plain(l)
  <2>1. /\ l.todo = rest /\ l.links = load.links /\ l.read = read \cup {directory[n]}
    <3>1. PICK x, y : /\ load = [todo |-> todo, listed |-> x, links |-> y, read |-> read]
                      /\ x = load.listed /\ y = load.links
      BY <1>1 DEF LoadKnown
    <3>2. PICK more : more = read \cup {directory[n]}
      OBVIOUS
    <3>3. l = [load EXCEPT !.todo = rest, !.read = more]
      BY <1>1, <1>8, <3>2
    <3>4. l = [todo |-> rest, listed |-> x, links |-> y, read |-> more]
      BY ONLY <3>1, <3>3
    <3>5. l.todo = rest /\ l.links = y /\ l.read = more
      BY ONLY <3>4
    <3> QED
      BY <3>1, <3>2, <3>5
  <2>2. "s" \in Range(rest) <=> "s" \in Range(todo)
    BY <1>3
  <2>3. "s" \in Range(todo) => n \notin Range(Inner)
    BY <1>2, <1>3
  <2>4. \A m : m \in Pending(l) <=> m \in Pending(load) /\ m # n
    BY <1>1, <1>3, <2>1, <2>2, <2>3 DEF Pending
  <2>5. \A m : m \in DOMAIN directory \ Pending(l) <=> m \in DOMAIN directory \ Pending(load) \/ m = n
    BY <1>5, <2>4
  <2>6. l.read = {directory[m] : m \in DOMAIN directory \ Pending(l)}
    BY <1>4, <2>1, <2>5
  <2> QED
    BY <1>3, <1>4, <2>1, <2>6 DEF Plain
<1> QED
  BY <1>1, <1>4, <1>5, <1>7, <1>8, Zenon

LEMMA PlainLoaded ==
  ASSUME NEW l, Plain(l), l.todo = <<>> PROVE l.read = Everything
<1>1. Pending(l) = {}
  BY EmptyRange DEF Pending
<1> QED
  BY <1>1 DEF Plain, Everything
LEMMA ReadQuietly ==
  ASSUME directory \in Directories, LoadKnown(load), Plain(load), Loading, ReadEntry
  PROVE  load' # Failure /\ Plain(load')
<1>1. PICK n : n = Head(load.todo)
  OBVIOUS
<1>2. load.todo # <<>>
  BY DEF Loading
<1>3. CASE n = "s"
  <2>1. load' = [load EXCEPT !.todo = Entries(Inner) \o Tail(load.todo),
                             !.listed = @ \cup Range(Entries(Inner)), !.links = @ \cup Links(Inner)]
    BY <1>1, <1>3 DEF ReadEntry
  <2>2. Plain(load')
    BY <1>1, <1>2, <1>3, <2>1, PlainInner
  <2>3. DOMAIN load' = DOMAIN load
    BY <2>1
  <2>4. "todo" \in DOMAIN load /\ "todo" \notin DOMAIN Failure
    BY DEF LoadKnown, Failure
  <2> QED
    BY <2>2, <2>3, <2>4
<1>4. CASE n # "s"
  <2>1. /\ n \notin load.links /\ n \in DOMAIN directory /\ ~Refused(n, directory[n], load.read)
        /\ \A l : l = [load EXCEPT !.todo = Tail(load.todo), !.read = @ \cup {directory[n]}] => Plain(l)
    BY <1>1, <1>2, <1>4, PlainFile, Zenon
  <2>2. load' = [load EXCEPT !.todo = Tail(load.todo), !.read = @ \cup {directory[n]}]
    BY <1>1, <1>4, <2>1 DEF ReadEntry
  <2>3. DOMAIN load' = DOMAIN load
    BY <2>2
  <2>4. "todo" \in DOMAIN load /\ "todo" \notin DOMAIN Failure
    BY DEF LoadKnown, Failure
  <2> QED
    BY <2>1, <2>2, <2>3, <2>4
<1> QED
  BY <1>3, <1>4

(* Plain is about the directory as it is: nothing of it changes. *)
LEMMA PlainKept ==
  ASSUME UNCHANGED directory, load' # Null => Plain(load')
  PROVE  (load # Null => Plain(load))'
BY DEF Plain, Pending

LEMMA EverythingKept ==
  ASSUME UNCHANGED directory PROVE Everything' = Everything
BY DEF Everything

(* A pair with none of the faults is valid once adopted.                   *)
LEMMA HonestPair ==
  ASSUME NEW c \in Captures, c.wrong = Null PROVE ValidPair(Prepared(c.pair))
<1>1. PICK pair, p : pair = c.pair /\ p = Prepared(pair)
  OBVIOUS
<1>2. /\ Shaped(pair) /\ Paired(p)
      /\ ~AtFault("undeclared", pair) /\ ~AtFault("confounded", pair)
      /\ ~AtFault("not_applied", pair) /\ ~AtFault("too_long", pair)
      /\ pair.probe.observed # Null =>
           \A s \in DOMAIN pair.probe.observed : SettingOf(pair.relief, s) = pair.probe.observed[s]
  BY <1>1, HonestAssumption, CapturesAssumption DEF Faults
<1>3. p.probe = pair.probe /\ Changed(p) = Changed(pair) /\ Confounded(p) = Confounded(pair)
  BY <1>1, <1>2, FieldsKept, ChangedKept, ConfoundedKept
<1>4. DeclaredChange(p)
  <2>1. Changed(pair) \subseteq DOMAIN pair.probe.requested \/ Confounded(pair)
    BY <1>2 DEF AtFault
  <2> QED
    BY <1>3, <2>1 DEF DeclaredChange
<1>5. Applied(p)
  <2>1. PICK probe, d, r : probe = pair.probe /\ d = pair.degraded /\ r = pair.relief
    OBVIOUS
  <2>2. \A s \in DOMAIN probe.requested :
          SettingOf(r, s) = probe.requested[s] /\ SettingOf(d, s) # probe.requested[s]
    BY <1>2, <2>1 DEF AtFault
  <2>3. \A s : SettingOf(p.relief, s) = SettingOf(r, s) /\ SettingOf(p.degraded, s) = SettingOf(d, s)
    BY <1>1, <1>2, <2>1, FieldsKept DEF SettingOf
  <2>4. p.probe = probe
    BY <1>3, <2>1
  <2> QED
    BY <1>2, <2>1, <2>2, <2>3, <2>4 DEF Applied
<1>6. Comparable(p.degraded, p.relief)
  <2>1. PICK d, r : d = Duration(pair.degraded) /\ r = Duration(pair.relief)
    OBVIOUS
  <2>2. Duration(p.degraded) = d /\ Duration(p.relief) = r
    BY <1>1, <1>2, <2>1, FieldsKept DEF Duration
  <2>3. d \in Int /\ r \in Int /\ d > 0 /\ r > 0
    <3>1. p.degraded.from < p.degraded.to /\ p.relief.from < p.relief.to
      BY <1>2 DEF Paired, ValidWindow
    <3> QED
      BY <1>1, <1>2, <2>1, <3>1, FieldsKept DEF Duration, Shaped
  <2>4. \A a, b \in {pair.degraded, pair.relief} : ~(10 * (Duration(a) - Duration(b)) > Duration(a))
    BY <1>2 DEF AtFault
  <2>5. ~(10 * (d - r) > d) /\ ~(10 * (r - d) > r)
    BY <2>1, <2>4
  <2>6. 10 * Abs(d - r) <= Larger(d, r)
    BY <2>3, <2>5 DEF Abs, Larger
  <2> QED
    BY <2>2, <2>6 DEF Comparable
<1> QED
  BY <1>1, <1>2, <1>4, <1>5, <1>6 DEF ValidPair

LEMMA QuietStep ==
  ASSUME Inv, QueryKnown, MadeKnown, QuietKnown, [Next]_vars PROVE QuietKnown'
<1>1. CASE Capture
  <2>1. PICK c \in Captures :
          /\ capture' = c /\ trouble' = c.wrong
          /\ query' = IF ValidPair(Prepared(c.pair)) THEN Response(Prepared(c.pair)) ELSE Refusal
    BY <1>1, Zenon DEF Capture
  <2>2. capture = Null /\ UNCHANGED <<directory, load, result, made, verdict, edits>>
    BY <1>1 DEF Capture
  <2>3. capture' # Null
    BY <2>1, NullAssumption
  <2>4. load = Null /\ made = Null /\ result = Null /\ trouble = Null
    BY <2>2 DEF QueryKnown, QuietKnown
  <2>5. SUFFICES ASSUME c.wrong = Null, edits = 0
                 PROVE  /\ directory \in Directories
                        /\ query' # Refusal /\ ValidResponse(query')
                        /\ load # Failure
                        /\ verdict # Null => verdict.agrees
    BY <2>1, <2>2, <2>3, <2>4 DEF QuietKnown, Quiet
  <2>6. ValidPair(Prepared(c.pair)) /\ Prepared(c.pair).degraded.registry = Policy.registry
    BY <2>5, HonestPair, HonestAssumption
  <2>7. PICK p : p = Prepared(c.pair)
    OBVIOUS
  <2>8. query' = Response(p)
    BY <2>1, <2>6, <2>7
  <2>9. Response(p).observation = p
    BY DEF Response
  <2>10. ValidResponse(Response(p))
    BY <2>6, <2>7, <2>9 DEF ValidResponse
  <2>11. Response(p) # Refusal
    <3>1. "observation" \in DOMAIN Response(p) /\ "observation" \notin DOMAIN Refusal
      BY DEF Response, Refusal
    <3> QED
      BY <3>1
  <2>12. Quiet
    BY <2>4, <2>5 DEF Quiet
  <2> QED
    BY <2>8, <2>10, <2>11, <2>12 DEF QuietKnown
<1>2. CASE ForgeResponse \/ Tamper \/ EditResult
  <2>1. /\ capture' = capture
        /\ trouble' \in {"forged_response", "relabelled", "approved", "reshaped", "linked", "copied",
                         "accepted", "recoded", "dropped", "renamed"}
    <3>1. CASE ForgeResponse
      BY <3>1 DEF ForgeResponse, Lone
    <3>2. CASE Tamper
      BY <3>2 DEF Tamper, Lone
    <3>3. CASE EditResult
      BY <3>3, Zenon DEF EditResult, Lone
    <3> QED
      BY <1>2, <3>1, <3>2, <3>3
  <2>2. trouble' # Null
    BY <2>1, NullAssumption
  <2>3. capture # Null
    <3>1. query # Null \/ result # Null
      BY <1>2, Zenon DEF ForgeResponse, Tamper, EditResult, Ready, Editable, Concluded
    <3> QED
      BY <3>1 DEF QueryKnown, QuietKnown
  <2> QED
    BY <2>1, <2>2, <2>3 DEF QuietKnown, Quiet
<1>3. CASE Edit
  <2>1. edits' = 1 /\ UNCHANGED <<capture, trouble, result>>
    BY <1>3 DEF Edit
  <2> QED
    BY <2>1 DEF QuietKnown, Quiet
<1>4. CASE Begin
  <2>1. /\ UNCHANGED <<capture, query, directory, result, made, verdict, trouble, edits>>
        /\ capture # Null
    BY <1>4 DEF Begin, Ready, QueryKnown
  <2>2. SUFFICES ASSUME Quiet
                 PROVE  load' # Failure /\ (load' # Null => Plain(load'))
    BY <2>1, PlainKept, EverythingKept DEF QuietKnown, Quiet
  <2>3. ValidResponse(query) /\ directory \in Directories
    BY <2>1, <2>2 DEF QuietKnown
  <2>4. load' = [todo |-> Entries(Outer), listed |-> {n \in Range(Entries(Outer)) : Json(n)},
                 links |-> Links(Outer), read |-> {}]
    BY <1>4, <2>3 DEF Begin
  <2>5. "todo" \in DOMAIN load' /\ "todo" \notin DOMAIN Failure
    BY <2>4 DEF Failure
  <2>6. Plain(load')
    BY <2>3, <2>4, PlainBegin
  <2> QED
    BY <2>5, <2>6
<1>5. CASE ReadEntry
  <2>1. UNCHANGED <<capture, query, directory, result, made, verdict, trouble, edits>> /\ Loading
    BY <1>5 DEF ReadEntry
  <2>2. SUFFICES ASSUME Quiet
                 PROVE  load' # Failure /\ (load' # Null => Plain(load'))
    BY <2>1, PlainKept, EverythingKept DEF QuietKnown, Quiet
  <2>3. directory \in Directories /\ LoadKnown(load) /\ Plain(load)
    BY <2>1, <2>2 DEF QuietKnown, Loading, Inv
  <2> QED
    BY <1>5, <2>1, <2>3, ReadQuietly
<1>6. CASE Matched
  <2>1. PICK r : r = Match(query, load.read)
    OBVIOUS
  <2>2. /\ Loaded /\ result' = r /\ made' = [of |-> load, result |-> r] /\ load' = Null
        /\ UNCHANGED <<capture, query, directory, verdict, trouble, edits>>
    BY <1>6, <2>1 DEF Matched
  <2>4. capture # Null
    BY <2>2 DEF Loaded, QueryKnown
  <2>5. SUFFICES ASSUME Quiet PROVE r = Match(r.query, Everything) /\ ValidResponse(r.query)
    BY NullAssumption, <2>2, <2>4, EverythingKept DEF QuietKnown, Quiet
  <2>6. load.read = Everything
    BY <2>2, <2>5, PlainLoaded DEF QuietKnown, Loaded
  <2>7. r.query = query
    BY <2>1 DEF Match
  <2>8. ValidResponse(query)
    BY <2>2 DEF Loaded, QueryKnown
  <2> QED
    BY <2>1, <2>6, <2>7, <2>8
<1>7. CASE Verified
  <2>1. /\ Loaded /\ result # Null /\ load' = Null
        /\ UNCHANGED <<capture, query, directory, result, made, trouble, edits>>
        /\ verdict' = [of |-> load, agrees |-> ValidResult(result) /\ Reproduced(result, load.read)]
    BY <1>7 DEF Verified
  <2>2. verdict'.agrees = (ValidResult(result) /\ Reproduced(result, load.read))
    BY <2>1
  <2>3. SUFFICES ASSUME Quiet PROVE ValidResult(result) /\ Reproduced(result, load.read)
    BY NullAssumption, <2>1, <2>2, EverythingKept DEF QuietKnown, Quiet
  <2>4. /\ result = Match(result.query, Everything) /\ ValidResponse(result.query)
        /\ load.read = Everything
    BY <2>1, <2>3, PlainLoaded DEF QuietKnown, Loaded
  <2>5. /\ result = Match(result.query, load.read) /\ ValidResponse(result.query)
        /\ load.read \in SUBSET Genuine
    BY <2>1, <2>4 DEF Loaded, Inv, LoadKnown
  <2>6. ValidResult(result)
    BY <2>5, MatchIsValid
  <2> QED
    BY <2>5, <2>6 DEF Reproduced
<1>8. CASE UNCHANGED vars
  BY <1>8, PlainKept, EverythingKept DEF vars, QuietKnown, Quiet
<1> QED
  BY <1>1, <1>2, <1>3, <1>4, <1>5, <1>6, <1>7, <1>8 DEF Next

(* HonestServed holds in every state: where nothing went wrong a pair has  *)
(* its response, its fingerprints are loaded, and the result of the match  *)
(* is accepted by its own validation and verified.                         *)
THEOREM HonestWorkServed == Spec => []HonestServed
<1>1. Init => Inv /\ QueryKnown /\ MadeKnown /\ QuietKnown
  BY DirectoriesAssumption, NullAssumption DEF Init, Inv, DirectoryKnown, QueryKnown, MadeKnown, QuietKnown, Quiet
<1>2. Inv /\ QueryKnown /\ MadeKnown /\ QuietKnown /\ [Next]_vars
        => Inv' /\ QueryKnown' /\ MadeKnown' /\ QuietKnown'
  BY InvStep, QueryStep, QuietStep
<1>3. ASSUME Inv, QueryKnown, MadeKnown, QuietKnown PROVE HonestServed
  <2> SUFFICES ASSUME Quiet, capture # Null PROVE Served
    BY DEF HonestServed
  <2>1. /\ query # Refusal /\ load # Failure
        /\ verdict # Null => verdict.agrees
        /\ directory \in Directories
        /\ result # Null => result = Match(result.query, Everything) /\ ValidResponse(result.query)
    BY <1>3 DEF QuietKnown
  <2>2. ASSUME result # Null PROVE ValidResult(result)
    <3>1. Everything \in SUBSET Genuine
      BY <2>1, DirectoriesAssumption DEF Everything
    <3> QED
      BY <2>1, <2>2, <3>1, MatchIsValid
  <2> QED
    BY <2>1, <2>2 DEF Served
<1>4. Inv /\ QueryKnown /\ MadeKnown /\ QuietKnown => HonestServed
  BY <1>3
<1> QED
  BY <1>1, <1>2, <1>4, PTL DEF Spec
=============================================================================
