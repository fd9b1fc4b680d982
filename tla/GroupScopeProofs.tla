-------------------------- MODULE GroupScopeProofs --------------------------
(***************************************************************************)
(* Proofs about GroupScope, for any number of threads, of document         *)
(* requests, of versions and of troubles.                                  *)
(*                                                                         *)
(* An answer is from the server's present or past; what the proofs need is *)
(* that a request of the current generation was answered after the last    *)
(* event that arrived, for every event ends the generation, and that a     *)
(* group that was shut answers nothing of the generation since.            *)
(***************************************************************************)
EXTENDS GroupScope, TLAPS

-----------------------------------------------------------------------------
(* The inductive invariant: the type invariant by variables, ...            *)

Frames == [kind : Kinds, key : Keys, ver : Versions]
Documents == [Keys -> [ver : Versions, there : BOOLEAN]]
Marks == [Keys -> Versions]

DocTyped == doc \in Documents /\ member \in BOOLEAN
WireTyped == wire \in Seq(Frames)
InboundTyped ==
    inbound \in {Off} \union [pc : {"roster", "turn"}, key : Keys] /\ used \in 0..MaxTroubles
FetchesTyped == fetches \in [Fetches -> {Off} \union Requests]
RostersTyped == members \in [Callers -> {Off} \union RosterRequests]
PrefetchTyped == prefetch \in [Origins -> {Off} \union Prefetches]
MarksTyped ==
    /\ basis \in Marks /\ heard \in Marks /\ gone \in Marks
    /\ \A k \in Keys : basis[k] <= doc[k].ver /\ gone[k] <= heard[k] /\ heard[k] <= doc[k].ver
FlawsTyped == shut \in BOOLEAN /\ excused \subseteq Keys \union {"people"}

-----------------------------------------------------------------------------
(* ... what is on the wire, in an answer and in a request, and what is      *)
(* wanted of the caches.                                                    *)

Events == {"updated", "deleted"}

\* Events are under way in the order of their versions, none has arrived (h), and
\* a deletion stands until the document (d) is written again.
WireHolds(w, h, d) ==
    /\ \A i \in 1..Len(w) : w[i].kind \in Events =>
          /\ h[w[i].key] < w[i].ver /\ w[i].ver <= d[w[i].key].ver
          /\ w[i].kind = "deleted" /\ w[i].ver = d[w[i].key].ver => ~d[w[i].key].there
    /\ \A i, j \in 1..Len(w) :
          i < j /\ w[i].key = w[j].key /\ w[i].kind \in Events /\ w[j].kind \in Events
          => w[i].ver < w[j].ver

WireInv == WireHolds(wire, heard, doc)

\* A document that is there is none of its deleted versions.
GoneInv == \A k \in Keys : /\ doc[k].ver # 0
                           /\ gone[k] = doc[k].ver => ~doc[k].there

\* What the answer s says: it is not newer than the server, and a document it
\* brings is none of the deleted versions (g, and those under way in w).
AnswerHolds(s, d, g, w) ==
    /\ s.ver <= d[s.key].ver
    /\ s.what = "edit" => s.there
    /\ s.there => /\ s.ver # g[s.key]
                  /\ \A i \in 1..Len(w) :
                        w[i].kind = "deleted" /\ w[i].key = s.key => w[i].ver # s.ver

\* The request s is of the generation n or earlier, unless it was made for
\* another identity; an answer of n is not older than what was heard, and the
\* group was not shut in n.
GenerationHolds(s, n, h, x) ==
    ~s.old => /\ s.gen <= n
              /\ s.pc = "answered" /\ s.gen = n => s.ver >= h[s.key] /\ ~x

FetchInv ==
    \A f \in Fetches : fetches[f] # Off =>
        /\ GenerationHolds(fetches[f], gen, heard, shut)
        /\ fetches[f].pc = "answered" => AnswerHolds(fetches[f], doc, gone, wire)

\* A roster of the current generation is not of a group that was shut since.
RosterInv ==
    /\ \A c \in Callers : members[c] # Off /\ ~members[c].old =>
          /\ members[c].gen <= gen
          /\ members[c].pc = "listed" /\ members[c].gen = gen => ~shut
    /\ members["inbound"] # Off => inbound # Off /\ inbound.pc = "roster"

\* A prefetch that saw the group evicted is of an earlier generation.
PrefetchInv ==
    \A p \in Origins : prefetch[p] # Off /\ ~prefetch[p].old =>
        prefetch[p].gen <= gen /\ (prefetch[p].evicted => prefetch[p].gen < gen)

\* The group is shut to one who is not a member.
ShutInv == (shut => ~member) /\ EvictedFailsClosed

IInv ==
    /\ DocTyped /\ WireTyped /\ CachesTyped /\ InboundTyped /\ FetchesTyped /\ RostersTyped
    /\ PrefetchTyped /\ MarksTyped /\ FlawsTyped
    /\ WireInv /\ GoneInv /\ FetchInv /\ RosterInv /\ PrefetchInv /\ ShutInv
    /\ CheckedIsFresh /\ DeletedStaysDeleted

-----------------------------------------------------------------------------
(* Frames and documents.                                                   *)

\* The frames behind the first.
LEMMA TailDoes ==
    ASSUME NEW w \in Seq(Frames), w # <<>>
    PROVE  /\ Tail(w) \in Seq(Frames) /\ w[1] \in Frames
           /\ Len(w) \in Nat \ {0} /\ Len(Tail(w)) = Len(w) - 1
           /\ \A i \in 1..Len(Tail(w)) : i + 1 \in 1..Len(w) /\ Tail(w)[i] = w[i + 1]
<1>1. Len(w) \in Nat \ {0}
  OBVIOUS
<1>2. Tail(w) \in Seq(Frames) /\ Len(Tail(w)) = Len(w) - 1
  BY <1>1
<1>3. \A i \in 1..(Len(w) - 1) : Tail(w)[i] = w[i + 1]
  BY <1>1
<1>4. w[1] \in Frames
  BY <1>1
<1> QED
  BY <1>1, <1>2, <1>3, <1>4

\* The first frame arrives: what it says is heard, and the others stay in order.
LEMMA ArrivalKeepsWire ==
    ASSUME NEW w \in Seq(Frames), w # <<>>, NEW h \in Marks, NEW d \in Documents,
           NEW e \in Marks, WireHolds(w, h, d),
           e = IF w[1].kind \in Events THEN [h EXCEPT ![w[1].key] = w[1].ver] ELSE h
    PROVE  WireHolds(Tail(w), e, d)
<1> DEFINE v == Tail(w)
<1>1. /\ w[1] \in Frames /\ Len(w) \in Nat \ {0} /\ Len(v) = Len(w) - 1
      /\ \A i \in 1..Len(v) : i + 1 \in 1..Len(w) /\ v[i] = w[i + 1] /\ w[i + 1] \in Frames
  BY TailDoes
<1> HIDE DEF v
<1>2. ASSUME NEW i \in 1..Len(v), v[i].kind \in Events
      PROVE  /\ e[v[i].key] < v[i].ver /\ v[i].ver <= d[v[i].key].ver
             /\ v[i].kind = "deleted" /\ v[i].ver = d[v[i].key].ver => ~d[v[i].key].there
  <2>1. v[i] = w[i + 1] /\ i + 1 \in 1..Len(w) /\ 1 \in 1..Len(w) /\ 1 < i + 1
        /\ v[i] \in Frames
    BY <1>1
  <2>2. /\ h[v[i].key] < v[i].ver /\ v[i].ver <= d[v[i].key].ver
        /\ v[i].kind = "deleted" /\ v[i].ver = d[v[i].key].ver => ~d[v[i].key].there
    BY <1>2, <2>1 DEF WireHolds
  <2>3. w[1].kind \in Events /\ w[1].key = v[i].key => w[1].ver < v[i].ver
    BY <1>2, <2>1 DEF WireHolds
  <2>4. e[v[i].key] < v[i].ver
    BY <1>1, <2>1, <2>2, <2>3 DEF Frames, Marks
  <2> QED
    BY <2>2, <2>4
<1>3. ASSUME NEW i \in 1..Len(v), NEW j \in 1..Len(v), i < j, v[i].key = v[j].key,
             v[i].kind \in Events, v[j].kind \in Events
      PROVE  v[i].ver < v[j].ver
  BY <1>1, <1>3 DEF WireHolds
<1> QED
  BY <1>2, <1>3 DEF WireHolds, v

Written(d, k, r) == [d EXCEPT ![k] = r]
Notice(k, r) == Frame(IF r.there THEN "updated" ELSE "deleted", k, r.ver)

\* A document is written: the event goes behind the others, if it is sent.
LEMMA WriteKeepsWire ==
    ASSUME NEW w \in Seq(Frames), NEW h \in Marks, NEW d \in Documents, WireHolds(w, h, d),
           NEW k \in Keys, NEW r \in [ver : Versions, there : BOOLEAN],
           d[k].ver < r.ver, h[k] <= d[k].ver,
           NEW v \in {w, Append(w, Notice(k, r))}
    PROVE  /\ WireHolds(v, h, Written(d, k, r)) /\ v \in Seq(Frames)
           /\ Written(d, k, r) \in Documents
<1> DEFINE last == Notice(k, r)
           c == Written(d, k, r)
<1>0. c = [d EXCEPT ![k] = r]
  BY DEF Written
<1> HIDE DEF c
<1>1. d[k].ver \in Nat /\ r.ver \in Nat /\ c \in Documents
  BY <1>0 DEF Documents, Versions
<1>2. last \in Frames
  BY <1>1 DEF Frames, Frame, Kinds, Notice
<1>3. c[k].ver = r.ver /\ c[k].there = r.there /\ \A x \in Keys \ {k} : c[x] = d[x]
  BY <1>0 DEF Documents
<1>4. \A i \in 1..Len(w) : w[i] \in Frames
  OBVIOUS
<1>5. WireHolds(w, h, c)
  <2>1. ASSUME NEW i \in 1..Len(w), w[i].kind \in Events
        PROVE  /\ h[w[i].key] < w[i].ver /\ w[i].ver <= c[w[i].key].ver
               /\ w[i].kind = "deleted" /\ w[i].ver = c[w[i].key].ver => ~c[w[i].key].there
    <3>1. /\ h[w[i].key] < w[i].ver /\ w[i].ver <= d[w[i].key].ver
          /\ w[i].kind = "deleted" /\ w[i].ver = d[w[i].key].ver => ~d[w[i].key].there
      BY <2>1 DEF WireHolds
    <3> QED
      BY <1>1, <1>3, <1>4, <3>1 DEF Frames, Versions
  <2> QED
    BY <2>1 DEF WireHolds
<1>6. CASE v = w
  BY <1>1, <1>5, <1>6 DEF c
<1>7. CASE v = Append(w, last)
  <2> HIDE DEF last
  <2>1. /\ v \in Seq(Frames) /\ Len(w) \in Nat /\ Len(v) = Len(w) + 1 /\ v[Len(v)] = last
        /\ \A i \in 1..Len(w) : v[i] = w[i]
    BY <1>2, <1>7
  <2>2. last.key = k /\ last.ver = r.ver /\ (last.kind = "deleted" => ~r.there)
    BY DEF last, Notice, Frame
  <2>3. ASSUME NEW i \in 1..Len(v), v[i].kind \in Events
        PROVE  /\ h[v[i].key] < v[i].ver /\ v[i].ver <= c[v[i].key].ver
               /\ v[i].kind = "deleted" /\ v[i].ver = c[v[i].key].ver => ~c[v[i].key].there
    <3>1. CASE i \in 1..Len(w)
      BY <1>5, <2>1, <2>3, <3>1 DEF WireHolds
    <3>2. CASE i = Len(v)
      BY <1>1, <1>3, <2>1, <2>2, <3>2 DEF Marks, Versions
    <3> QED
      BY <2>1, <3>1, <3>2
  <2>4. ASSUME NEW i \in 1..Len(v), NEW j \in 1..Len(v), i < j, v[i].key = v[j].key,
               v[i].kind \in Events, v[j].kind \in Events
        PROVE  v[i].ver < v[j].ver
    <3>1. CASE j \in 1..Len(w)
      BY <1>5, <2>1, <2>4, <3>1 DEF WireHolds
    <3>2. CASE j = Len(v)
      <4>1. i \in 1..Len(w) /\ w[i].key = k /\ w[i].kind \in Events
        BY <2>1, <2>2, <2>4, <3>2
      <4>2. w[i].ver <= d[k].ver
        BY <4>1 DEF WireHolds
      <4> QED
        BY <1>1, <1>4, <2>1, <2>2, <3>2, <4>1, <4>2 DEF Frames, Versions
    <3> QED
      BY <2>1, <3>1, <3>2
  <2>5. WireHolds(v, h, c)
    BY <2>3, <2>4 DEF WireHolds
  <2> QED
    BY <1>1, <2>1, <2>5 DEF c
<1> QED
  BY <1>6, <1>7 DEF last

\* ... and the answers that are on their way stay true.
LEMMA WriteKeepsAnswers ==
    ASSUME NEW w \in Seq(Frames), NEW g, NEW d \in Documents,
           NEW k \in Keys, NEW r \in [ver : Versions, there : BOOLEAN], d[k].ver < r.ver,
           NEW v \in {w, Append(w, Notice(k, r))},
           NEW s \in Requests, AnswerHolds(s, d, g, w)
    PROVE  AnswerHolds(s, Written(d, k, r), g, v)
<1> DEFINE last == Notice(k, r)
           c == Written(d, k, r)
<1>1. d[k].ver \in Nat /\ r.ver \in Nat /\ d[s.key].ver \in Nat /\ s.ver \in Nat /\ s.key \in Keys
  BY DEF Documents, Versions, Requests
<1>2. s.ver <= c[s.key].ver
  BY <1>1 DEF AnswerHolds, Documents, Written
<1> HIDE DEF c
<1>3. ASSUME s.there, NEW i \in 1..Len(v), v[i].kind = "deleted", v[i].key = s.key
      PROVE  v[i].ver # s.ver
  <2>1. CASE v = w
    BY <1>3, <2>1 DEF AnswerHolds
  <2>2. CASE v = Append(w, last)
    <3> HIDE DEF last
    <3>1. /\ Len(w) \in Nat /\ Len(v) = Len(w) + 1 /\ v[Len(v)] = last
          /\ \A x \in 1..Len(w) : v[x] = w[x]
      BY <2>2
    <3>2. last.key = k /\ last.ver = r.ver
      BY DEF last, Notice, Frame
    <3>3. CASE i \in 1..Len(w)
      BY <1>3, <3>1, <3>3 DEF AnswerHolds
    <3>4. CASE i = Len(v)
      BY <1>1, <1>3, <3>1, <3>2, <3>4 DEF AnswerHolds
    <3> QED
      BY <3>1, <3>3, <3>4
  <2> QED
    BY <2>1, <2>2
<1> QED
  BY <1>2, <1>3 DEF AnswerHolds, c

\* An event arrives: the answers on their way stay true.
LEMMA ArrivalKeepsAnswers ==
    ASSUME NEW w \in Seq(Frames), w # <<>>, NEW g \in Marks, NEW d, NEW b,
           b = IF w[1].kind = "deleted" THEN [g EXCEPT ![w[1].key] = w[1].ver] ELSE g,
           NEW s \in Requests, AnswerHolds(s, d, g, w)
    PROVE  AnswerHolds(s, d, b, Tail(w))
<1> DEFINE v == Tail(w)
<1>1. /\ w[1] \in Frames /\ Len(w) \in Nat \ {0} /\ 1 \in 1..Len(w)
      /\ \A i \in 1..Len(v) : i + 1 \in 1..Len(w) /\ v[i] = w[i + 1]
  BY TailDoes
<1> HIDE DEF v
<1>2. s.there => s.ver # b[s.key]
  BY <1>1 DEF AnswerHolds, Marks, Requests, Frames
<1>3. ASSUME s.there, NEW i \in 1..Len(v), v[i].kind = "deleted", v[i].key = s.key
      PROVE  v[i].ver # s.ver
  BY <1>1, <1>3 DEF AnswerHolds
<1> QED
  BY <1>2, <1>3 DEF AnswerHolds, v

\* A message goes on the wire, or all of it is lost.
LEMMA MessageKeeps ==
    ASSUME NEW w \in Seq(Frames), NEW k \in Keys, 0 \in Versions, NEW h, NEW d, NEW g
    PROVE  /\ Append(w, Frame("message", k, 0)) \in Seq(Frames)
           /\ WireHolds(w, h, d) => WireHolds(Append(w, Frame("message", k, 0)), h, d)
           /\ \A s : AnswerHolds(s, d, g, w)
                     => AnswerHolds(s, d, g, Append(w, Frame("message", k, 0)))
<1> DEFINE last == Frame("message", k, 0)
           v == Append(w, last)
<1>1. last \in Frames /\ last.kind = "message"
  BY DEF Frame, Frames, Kinds
<1> HIDE DEF last
<1>2. /\ v \in Seq(Frames) /\ Len(w) \in Nat /\ Len(v) = Len(w) + 1 /\ v[Len(v)] = last
      /\ \A i \in 1..Len(w) : v[i] = w[i]
  BY <1>1
<1> HIDE DEF v
<1>3. \A i \in 1..Len(v) : v[i].kind # "message" => i \in 1..Len(w) /\ v[i] = w[i]
  BY <1>1, <1>2
<1>4. WireHolds(w, h, d) => WireHolds(v, h, d)
  BY <1>3 DEF WireHolds, Events
<1>5. \A s : AnswerHolds(s, d, g, w) => AnswerHolds(s, d, g, v)
  BY <1>3 DEF AnswerHolds
<1> QED
  BY <1>2, <1>4, <1>5 DEF v, last

LEMMA LossKeeps ==
    ASSUME NEW h, NEW d, NEW g, NEW w
    PROVE  /\ <<>> \in Seq(Frames) /\ WireHolds(<<>>, h, d)
           /\ \A s : AnswerHolds(s, d, g, w) => AnswerHolds(s, d, g, <<>>)
  BY DEF WireHolds, AnswerHolds

-----------------------------------------------------------------------------
(* Writing the caches.                                                     *)

\* What Docs makes of the history.
LEMMA DocsDoes ==
    ASSUME NEW C \in SUBSET Keys, NEW K \in SUBSET Keys, NEW b \in Marks,
           NEW X, Docs(C, K, b, X), 0 \in Versions
    PROVE  /\ cached' = C /\ checked' = K /\ basis' \in Marks /\ excused' \subseteq X
           /\ \A k \in Keys : basis'[k] = IF k \in C \union K THEN b[k] ELSE 0
           /\ \A k \in C \union K \union {"people"} : k \in excused' <=> k \in X
  BY DEF Docs, Marks

-----------------------------------------------------------------------------
(* Requests.                                                               *)

LEMMA ZeroIsVersion == 0 \in Versions /\ Versions \subseteq Nat
  BY ScopeAssumption DEF Versions

LEMMA FetchTyped ==
    ASSUME NEW what \in {"ensure", "refresh", "edit"}, NEW k \in Keys, NEW g \in Nat
    PROVE  /\ Fetch(what, k, g) \in Requests
           /\ [Fetch(what, k, g) EXCEPT !.pc = "asked"] \in Requests
  BY ZeroIsVersion DEF Fetch, Requests

LEMMA RequestMoves ==
    ASSUME NEW s \in Requests, NEW g \in Nat, NEW v \in Versions, NEW t \in BOOLEAN
    PROVE  /\ [s EXCEPT !.pc = "asked", !.gen = g] \in Requests
           /\ [s EXCEPT !.pc = "answered", !.ver = v, !.there = t] \in Requests
           /\ Older(s) \in Requests
  BY DEF Requests, Older

\* A task that has a place is a request.
LEMMA RequestIs ==
    ASSUME FetchesTyped, NEW f \in Fetches, fetches[f].pc # "off"
    PROVE  fetches[f] \in Requests
  BY DEF FetchesTyped, Off

\* One task moves.
LEMMA TaskMoves ==
    ASSUME FetchesTyped, NEW f \in Fetches, NEW s \in {Off} \union Requests, Becomes(f, s)
    PROVE  /\ FetchesTyped' /\ fetches'[f] = s
           /\ \A x \in Fetches \ {f} : fetches'[x] = fetches[x]
  BY DEF FetchesTyped, Becomes

\* What a return makes of the caches: nothing; a document marked checked that
\* stays cached by a known flaw; or the entry of the answer, which is flawed
\* unless the answer is of the current generation, or an edit not behind the events.
ReturnMade(s) ==
    /\ cached' \subseteq cached \union {s.key} /\ checked' \subseteq checked \union {s.key}
    /\ basis' \in Marks /\ excused' \subseteq excused \union {s.key}
    /\ \A x \in Keys \ {s.key} :
          /\ basis'[x] = basis[x] \/ basis'[x] = 0
          /\ x \in cached' \union checked' =>
                basis'[x] = basis[x] /\ (x \in excused => x \in excused')
    /\ "people" \in excused => "people" \in excused'
    /\ \/ UNCHANGED docs
       \/ s.key \in excused' /\ (basis'[s.key] = basis[s.key])
       \/ /\ basis'[s.key] = s.ver \/ basis'[s.key] = 0
          /\ s.key \in cached' \union checked' => basis'[s.key] = s.ver
          /\ s.key \in cached' => s.there
          /\ s.key \in cached' \union checked' /\ s.key \notin excused' =>
                ~s.old /\ (s.gen = gen \/ (~shut /\ s.ver >= heard[s.key]))

\* The entry that an answer makes.
LEMMA EntryMade ==
    ASSUME CachesTyped, MarksTyped, NEW s \in Requests,
           NEW C \in SUBSET (cached \union {s.key}), NEW K \in SUBSET (checked \union {s.key}),
           NEW X, Docs(C, K, From(s), X),
           X \subseteq excused \union {s.key}, excused \ {s.key} \subseteq X,
           s.key \in C => s.there,
           s.key \notin X => ~s.old /\ (s.gen = gen \/ (~shut /\ s.ver >= heard[s.key]))
    PROVE  ReturnMade(s)
<1>1. s.key \in Keys /\ s.key # "people" /\ s.ver \in Versions
  BY ScopeAssumption DEF Requests, Keys
<1>2. /\ From(s) \in Marks /\ From(s)[s.key] = s.ver
      /\ \A x \in Keys \ {s.key} : From(s)[x] = basis[x]
  BY <1>1 DEF From, Marks, MarksTyped
<1>3. C \in SUBSET Keys /\ K \in SUBSET Keys
  BY <1>1 DEF CachesTyped
<1>4. /\ cached' = C /\ checked' = K /\ basis' \in Marks /\ excused' \subseteq X
      /\ \A k \in Keys : basis'[k] = IF k \in C \union K THEN From(s)[k] ELSE 0
      /\ \A k \in C \union K \union {"people"} : k \in excused' <=> k \in X
  BY <1>2, <1>3, ZeroIsVersion, DocsDoes
<1>5. ASSUME NEW x \in Keys \ {s.key}
      PROVE  /\ basis'[x] = basis[x] \/ basis'[x] = 0
             /\ x \in cached' \union checked' =>
                   basis'[x] = basis[x] /\ (x \in excused => x \in excused')
  <2>1. basis'[x] = IF x \in C \union K THEN basis[x] ELSE 0
    BY <1>2, <1>4
  <2> QED
    BY <1>4, <2>1
<1>6. "people" \in excused => "people" \in excused'
  BY <1>1, <1>4
<1>7. /\ basis'[s.key] = s.ver \/ basis'[s.key] = 0
      /\ s.key \in cached' \union checked' => basis'[s.key] = s.ver
  BY <1>1, <1>2, <1>4
<1>8. s.key \in cached' => s.there
  BY <1>4
<1>9. s.key \in cached' \union checked' /\ s.key \notin excused' =>
         ~s.old /\ (s.gen = gen \/ (~shut /\ s.ver >= heard[s.key]))
  BY <1>4
<1>10. /\ cached' \subseteq cached \union {s.key} /\ checked' \subseteq checked \union {s.key}
       /\ excused' \subseteq excused \union {s.key}
  BY <1>4
<1> QED
  BY <1>4, <1>5, <1>6, <1>7, <1>8, <1>9, <1>10 DEF ReturnMade

LEMMA AnswerMakes ==
    ASSUME CachesTyped, MarksTyped, NEW s, s \in Requests,
           \/ UNCHANGED docs
           \/ EditReturns(s) /\ s.there
           \/ EnsureReturns(s) /\ s.gen = gen
           \/ RefreshReturns(s) /\ s.gen = gen
    PROVE  ReturnMade(s)
<1>2. /\ s.ver \in Versions /\ s.key \in Keys
      /\ s.key # "people" /\ s.there \in BOOLEAN /\ s.old \in BOOLEAN
  BY ScopeAssumption DEF Requests, Keys
<1>4. cached \subseteq Keys /\ checked \subseteq Keys /\ basis \in Marks
  BY DEF CachesTyped, MarksTyped
<1>5. /\ Taken(s) \subseteq excused \union {s.key} /\ excused \ {s.key} \subseteq Taken(s)
      /\ s.key \notin Taken(s) => ~s.old
  BY <1>2 DEF Taken
<1>6. CASE UNCHANGED docs
  BY <1>2, <1>4, <1>6 DEF ReturnMade, docs
<1>7. CASE EditReturns(s) /\ s.there
  <2>1. heard[s.key] \in Nat /\ s.ver \in Nat
    BY <1>2, ZeroIsVersion DEF MarksTyped, Marks
  <2>2. PICK X : /\ Docs(cached \union {s.key}, checked \union {s.key}, From(s), X)
                 /\ X \subseteq excused \union {s.key} /\ excused \ {s.key} \subseteq X
                 /\ s.key \notin X => ~s.old /\ ~shut /\ ~(s.ver < heard[s.key])
    BY <1>7 DEF EditReturns
  <2>3. s.key \notin X => ~s.old /\ (s.gen = gen \/ (~shut /\ s.ver >= heard[s.key]))
    BY <2>1, <2>2
  <2> QED
    BY <1>7, <2>2, <2>3, EntryMade
<1>8. CASE EnsureReturns(s) /\ s.gen = gen
  <2>1. CASE s.there
    <3>1. Docs(cached \union {s.key}, checked \union {s.key}, From(s), Taken(s))
      BY <1>8, <2>1 DEF EnsureReturns
    <3> QED
      BY <1>5, <1>8, <2>1, <3>1, EntryMade
  <2>2. CASE ~s.there /\ s.key \in cached
    <3>1. Docs(cached, checked \union {s.key}, basis, excused \union {s.key})
      BY <1>8, <2>2 DEF EnsureReturns
    <3>2. /\ cached' = cached /\ checked' = checked \union {s.key}
          /\ basis' \in Marks /\ excused' \subseteq excused \union {s.key}
          /\ \A k \in Keys : basis'[k] = IF k \in cached' \union checked' THEN basis[k] ELSE 0
          /\ \A k \in cached' \union checked' \union {"people"} :
                k \in excused' <=> k \in excused \union {s.key}
      BY <1>2, <1>4, <3>1, ZeroIsVersion DEF Docs, Marks
    <3>3. s.key \in excused' /\ basis'[s.key] = basis[s.key]
      BY <1>2, <2>2, <3>2
    <3>4. ASSUME NEW x \in Keys \ {s.key}
          PROVE  /\ basis'[x] = basis[x] \/ basis'[x] = 0
                 /\ x \in cached' \union checked' =>
                       basis'[x] = basis[x] /\ (x \in excused => x \in excused')
      BY <3>2
    <3>5. "people" \in excused => "people" \in excused'
      BY <3>2
    <3> QED
      BY <3>2, <3>3, <3>4, <3>5 DEF ReturnMade
  <2>3. CASE ~s.there /\ s.key \notin cached
    <3>1. Docs(cached, checked \union {s.key}, From(s), Taken(s))
      BY <1>8, <2>3 DEF EnsureReturns
    <3> QED
      BY <1>5, <1>8, <2>3, <3>1, EntryMade
  <2> QED
    BY <2>1, <2>2, <2>3
<1>9. CASE RefreshReturns(s) /\ s.gen = gen
  <2>1. PICK C \in SUBSET (cached \union {s.key}) :
           Docs(C, checked, From(s), Taken(s)) /\ (s.key \in C => s.there)
    BY <1>2, <1>9 DEF RefreshReturns
  <2> QED
    BY <1>5, <1>9, <2>1, EntryMade
<1> QED
  BY <1>6, <1>7, <1>8, <1>9

LEMMA ReturnDoes ==
    ASSUME CachesTyped, FetchesTyped, MarksTyped,
           NEW f \in Fetches, Returns(f), fetches[f].what = "edit" => fetches[f].there
    PROVE  ReturnMade(fetches[f])
<1>1. fetches[f] \in Requests
  BY RequestIs DEF Returns
<1>2. \/ UNCHANGED docs
      \/ EditReturns(fetches[f]) /\ fetches[f].there
      \/ EnsureReturns(fetches[f]) /\ fetches[f].gen = gen
      \/ RefreshReturns(fetches[f]) /\ fetches[f].gen = gen
  <2>1. fetches[f].what \in {"ensure", "refresh", "edit"}
    BY <1>1 DEF Requests
  <2> QED
    BY <2>1 DEF Returns, InTime
<1> QED
  BY <1>1, <1>2, AnswerMakes

-----------------------------------------------------------------------------
(* The steps.                                                              *)

LEMMA InitInvariant == Init => IInv
<1> USE DEF Init
<1>1. ASSUME Init PROVE DocTyped /\ WireTyped
  <2>1. 1 \in Versions /\ 0 \in Versions
    BY ScopeAssumption DEF Versions
  <2> QED
    BY <1>1, <2>1 DEF DocTyped, WireTyped, Documents
<1>2. ASSUME Init PROVE CachesTyped
  <2>1. /\ gen \in Nat /\ cached \subseteq Keys /\ checked \subseteq Keys /\ active \subseteq Keys
        /\ robots => roster
    BY <1>2
  <2>2. {known, roster, robots, stamped} \subseteq BOOLEAN
    BY <1>2
  <2> QED
    BY <2>1, <2>2 DEF CachesTyped
<1>t. Init => InboundTyped /\ FetchesTyped /\ RostersTyped /\ PrefetchTyped
  BY ScopeAssumption DEF InboundTyped, FetchesTyped, RostersTyped, PrefetchTyped
<1>h. ASSUME Init PROVE MarksTyped /\ FlawsTyped
  <2>1. 0 \in Versions /\ 0 <= 1 /\ 0 <= 0
    BY ScopeAssumption DEF Versions
  <2>2. basis \in Marks /\ heard \in Marks /\ gone \in Marks
    BY <1>h, <2>1 DEF Marks
  <2>3. \A k \in Keys : basis[k] <= doc[k].ver /\ gone[k] <= heard[k] /\ heard[k] <= doc[k].ver
    BY <1>h, <2>1
  <2>4. shut \in BOOLEAN /\ excused \subseteq Keys \union {"people"}
    BY <1>h
  <2> QED
    BY <2>2, <2>3, <2>4 DEF MarksTyped, FlawsTyped
<1>3. Init => WireInv /\ GoneInv
  BY DEF WireInv, WireHolds, GoneInv
<1>4. Init => FetchInv /\ RosterInv /\ PrefetchInv
  BY DEF FetchInv, RosterInv, PrefetchInv, Callers
<1>5. Init => ShutInv /\ CheckedIsFresh /\ DeletedStaysDeleted
  BY DEF ShutInv, EvictedFailsClosed, CheckedIsFresh, DeletedStaysDeleted
<1> QED
  BY <1>1, <1>2, <1>t, <1>h, <1>3, <1>4, <1>5 DEF IInv

\* The server writes a document: nothing that was true of the wire or of an
\* answer becomes false.
LEMMA WritingKeeps ==
    ASSUME IInv, NEW k \in Keys, NEW there \in BOOLEAN, ServerWrites(k, there)
    PROVE  /\ doc' \in Documents /\ wire' \in Seq(Frames)
           /\ WireHolds(wire', heard, doc')
           /\ \A x \in Keys : /\ doc'[x].ver # 0 /\ doc[x].ver <= doc'[x].ver
                              /\ gone[x] = doc'[x].ver => ~doc'[x].there
           /\ \A s \in Requests :
                 AnswerHolds(s, doc, gone, wire) => AnswerHolds(s, doc', gone, wire')
           /\ doc'[k].there = there
<1>1. /\ doc \in Documents /\ wire \in Seq(Frames) /\ heard \in Marks /\ gone \in Marks
      /\ heard[k] <= doc[k].ver /\ gone[k] <= heard[k] /\ WireHolds(wire, heard, doc)
  BY DEF IInv, DocTyped, WireTyped, MarksTyped, WireInv
<1>2. PICK r \in [ver : Versions, there : BOOLEAN] :
         /\ doc[k].ver < r.ver /\ r.there = there
         /\ doc' = Written(doc, k, r) /\ wire' \in {wire, Append(wire, Notice(k, r))}
  <2> DEFINE r == [ver |-> doc[k].ver + 1, there |-> there]
  <2>1. /\ r \in [ver : Versions, there : BOOLEAN] /\ doc[k].ver < r.ver /\ r.there = there
        /\ doc' = Written(doc, k, r) /\ wire' \in {wire, Append(wire, Notice(k, r))}
    BY <1>1, ScopeAssumption DEF ServerWrites, Documents, Versions, Written, Notice
  <2> HIDE DEF r
  <2> QED
    BY <2>1
<1>3. WireHolds(wire', heard, doc') /\ wire' \in Seq(Frames) /\ doc' \in Documents
  <2>1. WireHolds(wire', heard, doc')
    BY <1>1, <1>2, WriteKeepsWire
  <2>2. wire' \in Seq(Frames)
    BY <1>1, <1>2, WriteKeepsWire
  <2>3. doc' \in Documents
    BY <1>1, <1>2, WriteKeepsWire
  <2> QED
    BY <2>1, <2>2, <2>3
<1>4. ASSUME NEW s \in Requests, AnswerHolds(s, doc, gone, wire)
      PROVE  AnswerHolds(s, doc', gone, wire')
  BY <1>1, <1>2, <1>4, WriteKeepsAnswers
<1>5. ASSUME NEW x \in Keys
      PROVE  /\ doc'[x].ver # 0 /\ doc[x].ver <= doc'[x].ver
             /\ gone[x] = doc'[x].ver => ~doc'[x].there
  BY <1>1, <1>2 DEF IInv, GoneInv, Documents, Marks, Versions, Written
<1>6. doc'[k].there = there
  BY <1>1, <1>2 DEF Documents, Written
<1> QED
  BY <1>3, <1>4, <1>5, <1>6

\* A frame arrives.
LEMMA ArrivalKeeps ==
    ASSUME IInv, NEW kind \in Kinds, Arrived(kind)
    PROVE  /\ wire[1] \in Frames /\ wire[1].kind = kind /\ wire' \in Seq(Frames)
           /\ kind = "message" => /\ WireHolds(wire', heard, doc)
                                  /\ \A s \in Requests : AnswerHolds(s, doc, gone, wire)
                                        => AnswerHolds(s, doc, gone, wire')
           /\ kind \in Events =>
                 /\ WireHolds(wire', [heard EXCEPT ![wire[1].key] = wire[1].ver], doc)
                 /\ heard[wire[1].key] < wire[1].ver
                 /\ wire[1].ver <= doc[wire[1].key].ver
           /\ kind = "updated" =>
                 \A s \in Requests : AnswerHolds(s, doc, gone, wire)
                                        => AnswerHolds(s, doc, gone, wire')
           /\ kind = "deleted" =>
                 /\ wire[1].ver = doc[wire[1].key].ver => ~doc[wire[1].key].there
                 /\ \A s \in Requests :
                       AnswerHolds(s, doc, gone, wire)
                       => AnswerHolds(s, doc, [gone EXCEPT ![wire[1].key] = wire[1].ver], wire')
<1>1. /\ wire \in Seq(Frames) /\ wire # <<>> /\ wire[1].kind = kind /\ wire' = Tail(wire)
      /\ heard \in Marks /\ gone \in Marks /\ doc \in Documents /\ WireHolds(wire, heard, doc)
  BY DEF IInv, DocTyped, WireTyped, MarksTyped, WireInv, Arrived
<1>2. wire[1] \in Frames /\ wire' \in Seq(Frames) /\ 1 \in 1..Len(wire)
  BY <1>1, TailDoes
<1> DEFINE e == IF wire[1].kind \in Events THEN [heard EXCEPT ![wire[1].key] = wire[1].ver]
                ELSE heard
           b == IF wire[1].kind = "deleted" THEN [gone EXCEPT ![wire[1].key] = wire[1].ver]
                ELSE gone
<1>3. WireHolds(Tail(wire), e, doc)
  <2>1. e \in Marks
    BY <1>1, <1>2 DEF Marks, Frames
  <2> QED
    BY <1>1, <2>1, ArrivalKeepsWire
<1>4. \A s \in Requests : AnswerHolds(s, doc, gone, wire) => AnswerHolds(s, doc, b, Tail(wire))
  BY <1>1, ArrivalKeepsAnswers
<1>5. kind \in Events => /\ heard[wire[1].key] < wire[1].ver
                         /\ wire[1].ver <= doc[wire[1].key].ver
                         /\ kind = "deleted" /\ wire[1].ver = doc[wire[1].key].ver =>
                               ~doc[wire[1].key].there
  BY <1>1, <1>2 DEF WireHolds
<1> QED
  BY <1>1, <1>2, <1>3, <1>4, <1>5 DEF Kinds, Events

\* Every step keeps all parts of the invariant.
LEMMA StepInvariant == IInv /\ [Next]_vars => IInv'
<1> SUFFICES ASSUME IInv, [Next]_vars
             PROVE  IInv'
  OBVIOUS
<1> USE ScopeAssumption DEF server, docs, people, tasks, history, Off
<1>1. ASSUME NEW k \in Keys, ServerChanges(k)
      PROVE  IInv'
  <2>0. PICK there \in BOOLEAN : ServerWrites(k, there)
    BY <1>1 DEF ServerChanges
  <2>w. /\ doc' \in Documents /\ wire' \in Seq(Frames) /\ WireHolds(wire', heard, doc')
        /\ \A x \in Keys : /\ doc'[x].ver # 0 /\ doc[x].ver <= doc'[x].ver
                           /\ gone[x] = doc'[x].ver => ~doc'[x].there
        /\ \A s \in Requests :
              AnswerHolds(s, doc, gone, wire) => AnswerHolds(s, doc', gone, wire')
    BY <2>0, WritingKeeps
  <2>1. /\ CachesTyped' /\ FetchesTyped' /\ RostersTyped' /\ PrefetchTyped' /\ FlawsTyped'
        /\ RosterInv' /\ PrefetchInv' /\ ShutInv' /\ CheckedIsFresh' /\ DeletedStaysDeleted'
    BY <1>1 DEF IInv, CachesTyped, FetchesTyped, Requests, RostersTyped, RosterRequests,
       PrefetchTyped, Prefetches, FlawsTyped, RosterInv, PrefetchInv, ShutInv,
       EvictedFailsClosed, CheckedIsFresh, DeletedStaysDeleted, ServerChanges, Trouble
  <2>2. DocTyped'
    BY <1>1, <2>w DEF IInv, DocTyped, ServerChanges, Trouble
  <2>3. WireTyped'
    BY <1>1, <2>w DEF IInv, WireTyped, ServerChanges, Trouble
  <2>4. InboundTyped'
    BY <1>1, <2>w DEF IInv, InboundTyped, ServerChanges, Trouble
  <2>5. MarksTyped'
    <3>1. basis' = basis /\ heard' = heard /\ gone' = gone
      BY <1>1 DEF ServerChanges
    <3>2. \A x \in Keys : /\ doc[x].ver \in Nat /\ doc'[x].ver \in Nat
                          /\ basis[x] \in Nat /\ heard[x] \in Nat
      BY <2>w DEF IInv, DocTyped, MarksTyped, Documents, Marks, Versions
    <3> QED
      BY <2>w, <3>1, <3>2 DEF IInv, MarksTyped
  <2>6. WireInv'
    BY <1>1, <2>w DEF IInv, WireInv, ServerChanges, Trouble
  <2>7. GoneInv'
    BY <1>1, <2>w DEF IInv, GoneInv, ServerChanges, Trouble
  <2>8. FetchInv'
    BY <1>1, <2>w DEF IInv, FetchInv, GenerationHolds, DocTyped, CachesTyped, FetchesTyped,
       Requests, MarksTyped, ServerChanges, Trouble
  <2> QED
    BY <2>1, <2>2, <2>3, <2>4, <2>5, <2>6, <2>7, <2>8 DEF IInv
<1>2. ASSUME NEW k \in Keys, SomeoneWrites(k)
      PROVE  IInv'
  <2>w. /\ wire' \in Seq(Frames) /\ WireHolds(wire', heard, doc)
        /\ \A s \in Requests : AnswerHolds(s, doc, gone, wire) => AnswerHolds(s, doc, gone, wire')
    <3>1. 0 \in Versions
      BY DEF Versions
    <3> QED
      BY <1>2, <3>1, MessageKeeps DEF IInv, WireTyped, WireInv, SomeoneWrites
  <2>1. /\ DocTyped' /\ CachesTyped' /\ FetchesTyped' /\ RostersTyped' /\ PrefetchTyped'
        /\ MarksTyped' /\ FlawsTyped' /\ GoneInv' /\ RosterInv' /\ PrefetchInv' /\ ShutInv'
        /\ CheckedIsFresh' /\ DeletedStaysDeleted'
    BY <1>2 DEF IInv, DocTyped, CachesTyped, FetchesTyped, Requests, RostersTyped,
       RosterRequests, PrefetchTyped, Prefetches, MarksTyped, FlawsTyped, GoneInv, RosterInv,
       PrefetchInv, ShutInv, EvictedFailsClosed, CheckedIsFresh, DeletedStaysDeleted,
       SomeoneWrites, Trouble
  <2>2. WireTyped'
    BY <1>2, <2>w DEF IInv, WireTyped, SomeoneWrites, Trouble
  <2>3. InboundTyped'
    BY <1>2, <2>w DEF IInv, InboundTyped, SomeoneWrites, Trouble
  <2>4. WireInv'
    BY <1>2, <2>w DEF IInv, WireInv, SomeoneWrites, Trouble
  <2>5. FetchInv'
    BY <1>2, <2>w DEF IInv, FetchInv, GenerationHolds, DocTyped, CachesTyped, FetchesTyped,
       Requests, MarksTyped, SomeoneWrites, Trouble
  <2> QED
    BY <2>1, <2>2, <2>3, <2>4, <2>5 DEF IInv
<1>3. ASSUME NEW k \in Keys, Cleanup(k)
      PROVE  IInv'
  <2>d. /\ basis' \in Marks /\ excused' \subseteq excused /\ cached' \subseteq cached
        /\ checked' \subseteq checked
        /\ \A x \in Keys : basis'[x] = 0 \/ basis'[x] = basis[x]
        /\ \A x \in cached' \union checked' :
              basis'[x] = basis[x] /\ (x \in excused => x \in excused')
    <3>1. 0 \in Versions
      BY DEF Versions
    <3> QED
      BY <1>3, <3>1 DEF IInv, CachesTyped, MarksTyped, Docs, Marks, Cleanup
  <2>1. /\ DocTyped' /\ WireTyped' /\ FetchesTyped' /\ RostersTyped' /\ PrefetchTyped'
        /\ WireInv' /\ GoneInv' /\ FetchInv' /\ PrefetchInv'
    BY <1>3 DEF IInv, DocTyped, WireTyped, FetchesTyped, Requests, RostersTyped, RosterRequests,
       PrefetchTyped, Prefetches, WireInv, GoneInv, FetchInv, GenerationHolds, PrefetchInv,
       Cleanup, Trouble, Docs, EvictMembers
  <2>2. CachesTyped'
    BY <1>3 DEF IInv, CachesTyped, Cleanup, Trouble, Docs, EvictMembers
  <2>3. InboundTyped'
    BY <1>3 DEF IInv, InboundTyped, Cleanup, Trouble, Docs, EvictMembers
  <2>4. MarksTyped'
    BY <1>3, <2>d DEF IInv, MarksTyped, Cleanup, DocTyped, Documents, Versions
  <2>5. FlawsTyped'
    BY <1>3 DEF IInv, FlawsTyped, Cleanup, Trouble, Docs, EvictMembers
  <2>6. RosterInv'
    BY <1>3 DEF IInv, RosterInv, Cleanup, Trouble, Docs, EvictMembers
  <2>7. ShutInv'
    BY <1>3 DEF IInv, ShutInv, EvictedFailsClosed, Cleanup, Trouble, Docs, EvictMembers
  <2>8. CheckedIsFresh'
    BY <1>3 DEF IInv, CheckedIsFresh, CachesTyped, FetchesTyped, Requests, MarksTyped, FetchInv,
       GenerationHolds, Cleanup, Trouble, Docs, EvictMembers
  <2>9. DeletedStaysDeleted'
    BY <1>3 DEF IInv, DeletedStaysDeleted, CachesTyped, FetchesTyped, Requests, MarksTyped,
       FetchInv, GenerationHolds, Cleanup, Trouble, Docs, EvictMembers
  <2> QED
    BY <2>1, <2>2, <2>3, <2>4, <2>5, <2>6, <2>7, <2>8, <2>9 DEF IInv
<1>4. CASE MemberMoves
  <2>1. /\ WireTyped' /\ CachesTyped' /\ FetchesTyped' /\ RostersTyped' /\ PrefetchTyped'
        /\ MarksTyped' /\ WireInv' /\ GoneInv' /\ PrefetchInv' /\ CheckedIsFresh'
        /\ DeletedStaysDeleted'
    BY <1>4 DEF IInv, WireTyped, CachesTyped, FetchesTyped, Requests, RostersTyped,
       RosterRequests, PrefetchTyped, Prefetches, MarksTyped, WireInv, GoneInv, PrefetchInv,
       CheckedIsFresh, DeletedStaysDeleted, MemberMoves, Trouble
  <2>2. DocTyped'
    BY <1>4 DEF IInv, DocTyped, MemberMoves, Trouble
  <2>3. InboundTyped'
    BY <1>4 DEF IInv, InboundTyped, MemberMoves, Trouble
  <2>4. FlawsTyped'
    BY <1>4 DEF IInv, FlawsTyped, MemberMoves, Trouble
  <2>5. FetchInv'
    BY <1>4 DEF IInv, FetchInv, GenerationHolds, MemberMoves, Trouble
  <2>6. RosterInv'
    BY <1>4 DEF IInv, RosterInv, MemberMoves, Trouble
  <2>7. ShutInv'
    BY <1>4 DEF IInv, ShutInv, EvictedFailsClosed, MemberMoves, Trouble
  <2> QED
    BY <2>1, <2>2, <2>3, <2>4, <2>5, <2>6, <2>7 DEF IInv
<1>5. CASE Loses
  <2>w. /\ wire' \in Seq(Frames) /\ WireHolds(wire', heard, doc)
        /\ \A s \in Requests : AnswerHolds(s, doc, gone, wire) => AnswerHolds(s, doc, gone, wire')
    <3>1. 0 \in Versions
      BY DEF Versions
    <3> QED
      BY <1>5, <3>1, LossKeeps DEF IInv, WireTyped, WireInv, Loses
  <2>1. /\ DocTyped' /\ CachesTyped' /\ FetchesTyped' /\ RostersTyped' /\ PrefetchTyped'
        /\ MarksTyped' /\ FlawsTyped' /\ GoneInv' /\ RosterInv' /\ PrefetchInv' /\ ShutInv'
        /\ CheckedIsFresh' /\ DeletedStaysDeleted'
    BY <1>5 DEF IInv, DocTyped, CachesTyped, FetchesTyped, Requests, RostersTyped,
       RosterRequests, PrefetchTyped, Prefetches, MarksTyped, FlawsTyped, GoneInv, RosterInv,
       PrefetchInv, ShutInv, EvictedFailsClosed, CheckedIsFresh, DeletedStaysDeleted, Loses,
       Trouble
  <2>2. WireTyped'
    BY <1>5, <2>w DEF IInv, WireTyped, Loses, Trouble
  <2>3. InboundTyped'
    BY <1>5, <2>w DEF IInv, InboundTyped, Loses, Trouble
  <2>4. WireInv'
    BY <1>5, <2>w DEF IInv, WireInv, Loses, Trouble
  <2>5. FetchInv'
    BY <1>5, <2>w DEF IInv, FetchInv, GenerationHolds, DocTyped, CachesTyped, FetchesTyped,
       Requests, MarksTyped, Loses, Trouble
  <2> QED
    BY <2>1, <2>2, <2>3, <2>4, <2>5 DEF IInv
<1>6. CASE ResetIdentity
  <2>w. /\ wire' \in Seq(Frames) /\ WireHolds(wire', heard, doc)
        /\ \A s \in Requests : AnswerHolds(s, doc, gone, wire) => AnswerHolds(s, doc, gone, wire')
    <3>1. 0 \in Versions
      BY DEF Versions
    <3> QED
      BY <1>6, <3>1, LossKeeps DEF IInv, WireTyped, WireInv, ResetIdentity
  <2>d. /\ basis' \in Marks /\ excused' \subseteq excused /\ cached' \subseteq cached
        /\ checked' \subseteq checked
        /\ \A x \in Keys : basis'[x] = 0 \/ basis'[x] = basis[x]
        /\ \A x \in cached' \union checked' :
              basis'[x] = basis[x] /\ (x \in excused => x \in excused')
    <3>1. 0 \in Versions
      BY DEF Versions
    <3> QED
      BY <1>6, <3>1 DEF IInv, CachesTyped, MarksTyped, Docs, Marks, ResetIdentity
  <2>1. DocTyped' /\ GoneInv'
    BY <1>6 DEF IInv, DocTyped, GoneInv, ResetIdentity, Trouble, Docs, EvictMembers, Older
  <2>2. WireTyped'
    BY <1>6, <2>w DEF IInv, WireTyped, ResetIdentity, Trouble, Docs, EvictMembers, Older
  <2>3. CachesTyped'
    BY <1>6, <2>w DEF IInv, CachesTyped, ResetIdentity, Trouble, Docs, EvictMembers, Older
  <2>4. InboundTyped'
    BY <1>6, <2>w DEF IInv, InboundTyped, ResetIdentity, Trouble, Docs, EvictMembers, Older
  <2>5. FetchesTyped'
    BY <1>6, <2>w, ZenonT(60) DEF IInv, FetchesTyped, Requests, ResetIdentity, Trouble, Docs,
       EvictMembers, Older
  <2>6. RostersTyped'
    BY <1>6, <2>w DEF IInv, RostersTyped, RosterRequests, ResetIdentity, Trouble, Docs,
       EvictMembers, Older
  <2>7. PrefetchTyped'
    BY <1>6, <2>w, ZenonT(60) DEF IInv, PrefetchTyped, Prefetches, ResetIdentity, Trouble, Docs,
       EvictMembers, Older
  <2>8. MarksTyped'
    BY <1>6, <2>d DEF IInv, MarksTyped, ResetIdentity, DocTyped, Documents, Versions
  <2>9. FlawsTyped'
    BY <1>6, <2>w DEF IInv, FlawsTyped, ResetIdentity, Trouble, Docs, EvictMembers, Older
  <2>10. WireInv'
    BY <1>6, <2>w DEF IInv, WireInv, ResetIdentity, Trouble, Docs, EvictMembers, Older
  <2>11. FetchInv'
    <3> SUFFICES ASSUME NEW f \in Fetches, fetches'[f] # Off
                 PROVE  /\ GenerationHolds(fetches'[f], gen', heard', shut')
                        /\ fetches'[f].pc = "answered" => AnswerHolds(fetches'[f], doc', gone', wire')
      BY DEF FetchInv
    <3>1. /\ fetches[f] # Off /\ fetches'[f] = [fetches[f] EXCEPT !.old = TRUE]
          /\ doc' = doc /\ gone' = gone
      BY <1>6 DEF ResetIdentity, Older
    <3>2. fetches[f] \in Requests
      BY <3>1 DEF IInv, FetchesTyped
    <3>3. /\ fetches'[f].old /\ fetches'[f].pc = fetches[f].pc /\ fetches'[f].what = fetches[f].what
          /\ fetches'[f].key = fetches[f].key /\ fetches'[f].ver = fetches[f].ver
          /\ fetches'[f].there = fetches[f].there
      BY <3>1, <3>2 DEF Requests
    <3>4. fetches[f].pc = "answered" => AnswerHolds(fetches[f], doc, gone, wire')
      BY <2>w, <3>1, <3>2 DEF IInv, FetchInv
    <3> QED
      BY <3>1, <3>3, <3>4 DEF GenerationHolds, AnswerHolds
  <2>12. RosterInv'
    <3>1. \A c \in Callers : members'[c] # Off => members'[c].old
      BY <1>6 DEF ResetIdentity, Older, IInv, RostersTyped, RosterRequests
    <3>2. members'["inbound"] = Off
      BY <1>6 DEF ResetIdentity, Older, IInv, RosterInv, Callers
    <3> QED
      BY <3>1, <3>2 DEF RosterInv
  <2>13. PrefetchInv'
    BY <1>6, <2>w DEF IInv, PrefetchInv, ResetIdentity, Trouble, Docs, EvictMembers, Older
  <2>14. ShutInv'
    BY <1>6, <2>w DEF IInv, ShutInv, EvictedFailsClosed, ResetIdentity, Trouble, Docs,
       EvictMembers, Older
  <2>15. CheckedIsFresh'
    BY <1>6, <2>w DEF IInv, CheckedIsFresh, ResetIdentity, Trouble, Docs, EvictMembers, Older
  <2>16. DeletedStaysDeleted'
    BY <1>6, <2>w DEF IInv, DeletedStaysDeleted, ResetIdentity, Trouble, Docs, EvictMembers,
       Older
  <2> QED
    BY <2>1, <2>2, <2>3, <2>4, <2>5, <2>6, <2>7, <2>8, <2>9, <2>10, <2>11, <2>12, <2>13, <2>14,
       <2>15, <2>16 DEF IInv
<1>7. CASE StampExpires
  <2>1. /\ DocTyped' /\ WireTyped' /\ FetchesTyped' /\ RostersTyped' /\ PrefetchTyped'
        /\ MarksTyped' /\ WireInv' /\ GoneInv' /\ FetchInv' /\ RosterInv' /\ PrefetchInv'
        /\ CheckedIsFresh' /\ DeletedStaysDeleted'
    BY <1>7 DEF IInv, DocTyped, WireTyped, FetchesTyped, Requests, RostersTyped, RosterRequests,
       PrefetchTyped, Prefetches, MarksTyped, WireInv, GoneInv, FetchInv, GenerationHolds,
       RosterInv, PrefetchInv, CheckedIsFresh, DeletedStaysDeleted, StampExpires, Trouble
  <2>2. CachesTyped'
    BY <1>7 DEF IInv, CachesTyped, StampExpires, Trouble
  <2>3. InboundTyped'
    BY <1>7 DEF IInv, InboundTyped, StampExpires, Trouble
  <2>4. FlawsTyped'
    BY <1>7 DEF IInv, FlawsTyped, StampExpires, Trouble
  <2>5. ShutInv'
    BY <1>7 DEF IInv, ShutInv, EvictedFailsClosed, StampExpires, Trouble
  <2> QED
    BY <2>1, <2>2, <2>3, <2>4, <2>5 DEF IInv
<1>8. CASE UpdateArrives
  <2>w. /\ wire[1] \in Frames /\ wire[1].kind = "updated" /\ wire' \in Seq(Frames)
        /\ WireHolds(wire', [heard EXCEPT ![wire[1].key] = wire[1].ver], doc)
        /\ heard[wire[1].key] < wire[1].ver /\ wire[1].ver <= doc[wire[1].key].ver
        /\ \A s \in Requests : AnswerHolds(s, doc, gone, wire) => AnswerHolds(s, doc, gone, wire')
    BY <1>8, ArrivalKeeps DEF UpdateArrives, Kinds, Events
  <2>d. /\ basis' \in Marks /\ excused' \subseteq excused /\ cached' \subseteq cached
        /\ checked' \subseteq checked
        /\ \A x \in Keys : basis'[x] = 0 \/ basis'[x] = basis[x]
        /\ \A x \in cached' \union checked' :
              basis'[x] = basis[x] /\ (x \in excused => x \in excused')
    <3>1. 0 \in Versions
      BY DEF Versions
    <3> QED
      BY <1>8, <3>1 DEF IInv, CachesTyped, MarksTyped, Docs, Marks, UpdateArrives, Updated
  <2>1. DocTyped' /\ InboundTyped' /\ GoneInv'
    BY <1>8 DEF IInv, DocTyped, InboundTyped, GoneInv, UpdateArrives, Updated, Docs, Fetch, Free
  <2>2. WireTyped'
    BY <1>8, <2>w DEF IInv, WireTyped, UpdateArrives, Updated, Docs, Fetch, Free
  <2>3. CachesTyped'
    BY <1>8, <2>w DEF IInv, CachesTyped, UpdateArrives, Updated, Docs, Fetch, Free
  <2>4. FetchesTyped'
    <3>1. wire[1].key \in Keys /\ gen + 1 \in Nat
      BY <2>w DEF IInv, CachesTyped, Frames
    <3>2. PICK f \in Fetches : Becomes(f, Fetch("refresh", wire[1].key, gen + 1))
      BY <1>8 DEF UpdateArrives, Free, Becomes
    <3>3. Fetch("refresh", wire[1].key, gen + 1) \in Requests
      BY <3>1, FetchTyped
    <3> QED
      BY <3>2, <3>3, TaskMoves DEF IInv
  <2>5. RostersTyped'
    BY <1>8, <2>w DEF IInv, RostersTyped, RosterRequests, UpdateArrives, Updated, Docs, Fetch,
       Free
  <2>6. PrefetchTyped'
    BY <1>8, <2>w DEF IInv, PrefetchTyped, Prefetches, UpdateArrives, Updated, Docs, Fetch, Free
  <2>7. MarksTyped'
    <3> DEFINE x == wire[1].key
    <3>1. x \in Keys /\ wire[1].ver \in Versions
      BY <2>w DEF Frames
    <3>2. heard' = [heard EXCEPT ![x] = wire[1].ver] /\ doc' = doc
          /\ gone' = gone
      BY <1>8 DEF UpdateArrives
    <3> HIDE DEF x
    <3>3. heard' \in Marks /\ gone' \in Marks
      BY <3>1, <3>2 DEF IInv, MarksTyped, Marks
    <3>4. ASSUME NEW y \in Keys
          PROVE  basis'[y] <= doc[y].ver /\ gone'[y] <= heard'[y] /\ heard'[y] <= doc[y].ver
      <4>1. /\ doc[y].ver \in Nat /\ basis[y] \in Nat /\ heard[y] \in Nat /\ gone[y] \in Nat
            /\ basis[y] <= doc[y].ver /\ gone[y] <= heard[y] /\ heard[y] <= doc[y].ver
            /\ wire[1].ver \in Nat
        BY <3>1, ZeroIsVersion DEF IInv, DocTyped, Documents, MarksTyped, Marks
      <4>2. basis'[y] <= doc[y].ver
        BY <2>d, <4>1
      <4>3. y # x => heard'[y] = heard[y] /\ gone'[y] = gone[y]
        BY <3>1, <3>2 DEF IInv, MarksTyped, Marks
      <4>4. y = x => /\ heard'[y] = wire[1].ver /\ heard[y] < wire[1].ver
                     /\ wire[1].ver <= doc[y].ver /\ gone'[y] = gone[y]
        BY <2>w, <3>1, <3>2 DEF IInv, MarksTyped, Marks, x
      <4> QED
        BY <4>1, <4>2, <4>3, <4>4
    <3> QED
      BY <2>d, <3>2, <3>3, <3>4 DEF MarksTyped
  <2>8. FlawsTyped'
    BY <1>8, <2>w DEF IInv, FlawsTyped, UpdateArrives, Updated, Docs, Fetch, Free
  <2>9. WireInv'
    BY <1>8, <2>w DEF IInv, WireInv, UpdateArrives, Updated, Docs, Fetch, Free
  <2>10. FetchInv'
    BY <1>8, <2>w DEF IInv, FetchInv, GenerationHolds, DocTyped, CachesTyped, FetchesTyped,
       Requests, MarksTyped, UpdateArrives, Updated, Docs, Fetch, Free
  <2>11. RosterInv'
    BY <1>8, <2>w DEF IInv, RosterInv, CachesTyped, RostersTyped, RosterRequests, ShutInv,
       EvictedFailsClosed, InboundTyped, UpdateArrives, Updated, Docs, Fetch, Free
  <2>12. PrefetchInv'
    BY <1>8, <2>w DEF IInv, PrefetchInv, CachesTyped, PrefetchTyped, Prefetches, UpdateArrives,
       Updated, Docs, Fetch, Free
  <2>13. ShutInv'
    BY <1>8, <2>w DEF IInv, ShutInv, EvictedFailsClosed, UpdateArrives, Updated, Docs, Fetch,
       Free
  <2>14. CheckedIsFresh'
    BY <1>8, <2>w DEF IInv, CheckedIsFresh, CachesTyped, FetchesTyped, Requests, MarksTyped,
       FetchInv, GenerationHolds, UpdateArrives, Updated, Docs, Fetch, Free
  <2>15. DeletedStaysDeleted'
    BY <1>8, <2>w DEF IInv, DeletedStaysDeleted, CachesTyped, FetchesTyped, Requests,
       MarksTyped, FetchInv, GenerationHolds, UpdateArrives, Updated, Docs, Fetch, Free
  <2> QED
    BY <2>1, <2>2, <2>3, <2>4, <2>5, <2>6, <2>7, <2>8, <2>9, <2>10, <2>11, <2>12, <2>13, <2>14,
       <2>15 DEF IInv
<1>9. CASE DeletionArrives
  <2>w. /\ wire[1] \in Frames /\ wire[1].kind = "deleted" /\ wire' \in Seq(Frames)
        /\ WireHolds(wire', [heard EXCEPT ![wire[1].key] = wire[1].ver], doc)
        /\ heard[wire[1].key] < wire[1].ver /\ wire[1].ver <= doc[wire[1].key].ver
        /\ wire[1].ver = doc[wire[1].key].ver => ~doc[wire[1].key].there
        /\ \A s \in Requests :
              AnswerHolds(s, doc, gone, wire)
              => AnswerHolds(s, doc, [gone EXCEPT ![wire[1].key] = wire[1].ver], wire')
    BY <1>9, ArrivalKeeps DEF DeletionArrives, Kinds, Events
  <2>d. /\ basis' \in Marks /\ excused' \subseteq excused /\ cached' \subseteq cached
        /\ checked' \subseteq checked
        /\ \A x \in Keys : basis'[x] = 0 \/ basis'[x] = basis[x]
        /\ \A x \in cached' \union checked' :
              basis'[x] = basis[x] /\ (x \in excused => x \in excused')
    <3>1. 0 \in Versions
      BY DEF Versions
    <3> QED
      BY <1>9, <3>1 DEF IInv, CachesTyped, MarksTyped, Docs, Marks, DeletionArrives, Deleted
  <2>1. DocTyped' /\ InboundTyped'
    BY <1>9 DEF IInv, DocTyped, InboundTyped, DeletionArrives, Deleted, Docs
  <2>2. WireTyped'
    BY <1>9, <2>w DEF IInv, WireTyped, DeletionArrives, Deleted, Docs
  <2>3. CachesTyped'
    BY <1>9, <2>w DEF IInv, CachesTyped, DeletionArrives, Deleted, Docs
  <2>4. FetchesTyped'
    BY <1>9, <2>w DEF IInv, FetchesTyped, Requests, DeletionArrives, Deleted, Docs
  <2>5. RostersTyped'
    BY <1>9, <2>w DEF IInv, RostersTyped, RosterRequests, DeletionArrives, Deleted, Docs
  <2>6. PrefetchTyped'
    BY <1>9, <2>w DEF IInv, PrefetchTyped, Prefetches, DeletionArrives, Deleted, Docs
  <2>7. MarksTyped'
    <3> DEFINE x == wire[1].key
    <3>1. x \in Keys /\ wire[1].ver \in Versions
      BY <2>w DEF Frames
    <3>2. heard' = [heard EXCEPT ![x] = wire[1].ver] /\ doc' = doc
          /\ gone' = [gone EXCEPT ![x] = wire[1].ver]
      BY <1>9 DEF DeletionArrives
    <3> HIDE DEF x
    <3>3. heard' \in Marks /\ gone' \in Marks
      BY <3>1, <3>2 DEF IInv, MarksTyped, Marks
    <3>4. ASSUME NEW y \in Keys
          PROVE  basis'[y] <= doc[y].ver /\ gone'[y] <= heard'[y] /\ heard'[y] <= doc[y].ver
      <4>1. /\ doc[y].ver \in Nat /\ basis[y] \in Nat /\ heard[y] \in Nat /\ gone[y] \in Nat
            /\ basis[y] <= doc[y].ver /\ gone[y] <= heard[y] /\ heard[y] <= doc[y].ver
            /\ wire[1].ver \in Nat
        BY <3>1, ZeroIsVersion DEF IInv, DocTyped, Documents, MarksTyped, Marks
      <4>2. basis'[y] <= doc[y].ver
        BY <2>d, <4>1
      <4>3. y # x => heard'[y] = heard[y] /\ gone'[y] = gone[y]
        BY <3>1, <3>2 DEF IInv, MarksTyped, Marks
      <4>4. y = x => /\ heard'[y] = wire[1].ver /\ heard[y] < wire[1].ver
                     /\ wire[1].ver <= doc[y].ver /\ gone'[y] = wire[1].ver
        BY <2>w, <3>1, <3>2 DEF IInv, MarksTyped, Marks, x
      <4> QED
        BY <4>1, <4>2, <4>3, <4>4
    <3> QED
      BY <2>d, <3>2, <3>3, <3>4 DEF MarksTyped
  <2>8. FlawsTyped'
    BY <1>9, <2>w DEF IInv, FlawsTyped, DeletionArrives, Deleted, Docs
  <2>9. WireInv'
    BY <1>9, <2>w DEF IInv, WireInv, DeletionArrives, Deleted, Docs
  <2>10. GoneInv'
    BY <1>9, <2>w DEF IInv, GoneInv, DeletionArrives, Deleted, Docs
  <2>11. FetchInv'
    <3> SUFFICES ASSUME NEW f \in Fetches, fetches[f] # Off
                 PROVE  /\ GenerationHolds(fetches[f], gen', heard', shut')
                        /\ fetches[f].pc = "answered" => AnswerHolds(fetches[f], doc', gone', wire')
      BY <1>9 DEF FetchInv, DeletionArrives
    <3>1. /\ gen' = gen + 1 /\ doc' = doc /\ gone' = [gone EXCEPT ![wire[1].key] = wire[1].ver]
      BY <1>9 DEF DeletionArrives, Deleted
    <3>2. fetches[f] \in Requests /\ gen \in Nat
      BY DEF IInv, FetchesTyped, CachesTyped
    <3>3. fetches[f].gen \in Nat /\ (~fetches[f].old => fetches[f].gen <= gen)
      BY <3>2 DEF IInv, FetchInv, GenerationHolds, Requests
    <3>4. fetches[f].pc = "answered" => AnswerHolds(fetches[f], doc', gone', wire')
      BY <2>w, <3>1, <3>2 DEF IInv, FetchInv
    <3> QED
      BY <3>1, <3>2, <3>3, <3>4 DEF GenerationHolds
  <2>12. RosterInv'
    BY <1>9, <2>w DEF IInv, RosterInv, CachesTyped, RostersTyped, RosterRequests, ShutInv,
       EvictedFailsClosed, InboundTyped, DeletionArrives, Deleted, Docs
  <2>13. PrefetchInv'
    BY <1>9, <2>w DEF IInv, PrefetchInv, CachesTyped, PrefetchTyped, Prefetches,
       DeletionArrives, Deleted, Docs
  <2>14. ShutInv'
    BY <1>9, <2>w DEF IInv, ShutInv, EvictedFailsClosed, DeletionArrives, Deleted, Docs
  <2>15. CheckedIsFresh'
    BY <1>9, <2>w DEF IInv, CheckedIsFresh, CachesTyped, FetchesTyped, Requests, MarksTyped,
       FetchInv, GenerationHolds, DeletionArrives, Deleted, Docs
  <2>16. DeletedStaysDeleted'
    BY <1>9, <2>w DEF IInv, DeletedStaysDeleted, CachesTyped, FetchesTyped, Requests,
       MarksTyped, FetchInv, GenerationHolds, DeletionArrives, Deleted, Docs
  <2> QED
    BY <2>1, <2>2, <2>3, <2>4, <2>5, <2>6, <2>7, <2>8, <2>9, <2>10, <2>11, <2>12, <2>13, <2>14,
       <2>15, <2>16 DEF IInv
<1>10. CASE MessageArrives
  <2>w. /\ wire[1] \in Frames /\ wire[1].kind = "message" /\ wire' \in Seq(Frames)
        /\ WireHolds(wire', heard, doc)
        /\ \A s \in Requests : AnswerHolds(s, doc, gone, wire) => AnswerHolds(s, doc, gone, wire')
    BY <1>10, ArrivalKeeps DEF MessageArrives, Kinds
  <2>1. /\ DocTyped' /\ FetchesTyped' /\ PrefetchTyped' /\ MarksTyped' /\ FlawsTyped'
        /\ GoneInv' /\ PrefetchInv' /\ ShutInv' /\ CheckedIsFresh' /\ DeletedStaysDeleted'
    BY <1>10 DEF IInv, DocTyped, FetchesTyped, Requests, PrefetchTyped, Prefetches, MarksTyped,
       FlawsTyped, GoneInv, PrefetchInv, ShutInv, EvictedFailsClosed, CheckedIsFresh,
       DeletedStaysDeleted, MessageArrives
  <2>2. WireTyped'
    BY <1>10, <2>w DEF IInv, WireTyped, MessageArrives
  <2>3. CachesTyped'
    BY <1>10, <2>w DEF IInv, CachesTyped, MessageArrives, Frames, Keys
  <2>4. InboundTyped'
    BY <1>10, <2>w DEF IInv, InboundTyped, MessageArrives, Frames
  <2>5. RostersTyped'
    BY <1>10, <2>w DEF IInv, RostersTyped, RosterRequests, MessageArrives
  <2>6. WireInv'
    BY <1>10, <2>w DEF IInv, WireInv, MessageArrives
  <2>7. FetchInv'
    BY <1>10, <2>w DEF IInv, FetchInv, GenerationHolds, DocTyped, CachesTyped, FetchesTyped,
       Requests, MarksTyped, MessageArrives
  <2>8. RosterInv'
    BY <1>10, <2>w DEF IInv, RosterInv, MessageArrives
  <2> QED
    BY <2>1, <2>2, <2>3, <2>4, <2>5, <2>6, <2>7, <2>8 DEF IInv
<1>11. CASE TurnStarts
  <2>1. /\ DocTyped' /\ WireTyped' /\ CachesTyped' /\ PrefetchTyped' /\ MarksTyped'
        /\ FlawsTyped' /\ WireInv' /\ GoneInv' /\ PrefetchInv' /\ ShutInv' /\ CheckedIsFresh'
        /\ DeletedStaysDeleted'
    BY <1>11 DEF IInv, DocTyped, WireTyped, CachesTyped, PrefetchTyped, Prefetches, MarksTyped,
       FlawsTyped, WireInv, GoneInv, PrefetchInv, ShutInv, EvictedFailsClosed, CheckedIsFresh,
       DeletedStaysDeleted, TurnStarts, Fetch, Free
  <2>2. InboundTyped'
    BY <1>11 DEF IInv, InboundTyped, TurnStarts, Fetch, Free
  <2>3. FetchesTyped'
    <3>1. inbound.key \in Keys /\ Group \in Keys
      BY <1>11 DEF TurnStarts, IInv, InboundTyped, Keys
    <3>2. Fetch("ensure", Group, 0) \in Requests /\ Fetch("ensure", inbound.key, 0) \in Requests
      BY <3>1, FetchTyped
    <3>3. CASE UNCHANGED fetches
      BY <3>3 DEF IInv, FetchesTyped
    <3>4. CASE fetches' # fetches
      <4>1. PICK f, t \in Fetches : fetches' = [fetches EXCEPT ![f] = Fetch("ensure", Group, 0),
                                                   ![t] = Fetch("ensure", inbound.key, 0)]
        BY <1>11, <3>4 DEF TurnStarts, Free
      <4> QED
        BY <3>2, <4>1 DEF IInv, FetchesTyped
    <3> QED
      BY <3>3, <3>4
  <2>4. RostersTyped'
    BY <1>11 DEF IInv, RostersTyped, RosterRequests, TurnStarts, Fetch, Free
  <2>5. FetchInv'
    BY <1>11 DEF IInv, FetchInv, GenerationHolds, DocTyped, CachesTyped, FetchesTyped, Requests,
       MarksTyped, TurnStarts, Fetch, Free
  <2>6. RosterInv'
    BY <1>11 DEF IInv, RosterInv, TurnStarts, Fetch, Free
  <2> QED
    BY <2>1, <2>2, <2>3, <2>4, <2>5, <2>6 DEF IInv
<1>12. ASSUME NEW c \in Callers, AsksMembers(c)
      PROVE  IInv'
  <2>1. /\ DocTyped' /\ WireTyped' /\ CachesTyped' /\ FetchesTyped' /\ PrefetchTyped'
        /\ MarksTyped' /\ FlawsTyped' /\ WireInv' /\ GoneInv' /\ FetchInv' /\ PrefetchInv'
        /\ ShutInv' /\ CheckedIsFresh' /\ DeletedStaysDeleted'
    BY <1>12 DEF IInv, DocTyped, WireTyped, CachesTyped, FetchesTyped, Requests, PrefetchTyped,
       Prefetches, MarksTyped, FlawsTyped, WireInv, GoneInv, FetchInv, GenerationHolds,
       PrefetchInv, ShutInv, EvictedFailsClosed, CheckedIsFresh, DeletedStaysDeleted,
       AsksMembers, Trouble, Continues
  <2>2. InboundTyped'
    BY <1>12 DEF IInv, InboundTyped, AsksMembers, Trouble, Continues
  <2>3. RostersTyped'
    <3>1. [pc |-> "asked", gen |-> gen, old |-> FALSE] \in RosterRequests
      BY DEF IInv, CachesTyped, RosterRequests
    <3> QED
      BY <1>12, <3>1 DEF AsksMembers, IInv, RostersTyped
  <2>4. RosterInv'
    <3>1. CASE UNCHANGED members
      <4>1. members[c] = Off /\ c = "inbound"
        BY <1>12, <3>1 DEF AsksMembers, IInv, RostersTyped
      <4> QED
        BY <1>12, <3>1, <4>1 DEF AsksMembers, IInv, RosterInv
    <3>2. CASE members' # members
      <4>1. /\ members' = [members EXCEPT ![c] = [pc |-> "asked", gen |-> gen, old |-> FALSE]]
            /\ inbound' = inbound /\ (c = "inbound" => inbound.pc = "roster")
        BY <1>12, <3>2 DEF AsksMembers
      <4>2. inbound.pc = "roster" => inbound # Off
        OBVIOUS
      <4> QED
        BY <1>12, <4>1, <4>2 DEF AsksMembers, IInv, RosterInv, RostersTyped, CachesTyped
    <3> QED
      BY <3>1, <3>2
  <2> QED
    BY <2>1, <2>2, <2>3, <2>4 DEF IInv
<1>13. ASSUME NEW c \in Callers, ServerListsMembers(c)
      PROVE  IInv'
  <2>1. /\ DocTyped' /\ WireTyped' /\ CachesTyped' /\ InboundTyped' /\ FetchesTyped'
        /\ PrefetchTyped' /\ MarksTyped' /\ FlawsTyped' /\ WireInv' /\ GoneInv' /\ FetchInv'
        /\ PrefetchInv' /\ ShutInv' /\ CheckedIsFresh' /\ DeletedStaysDeleted'
    BY <1>13 DEF IInv, DocTyped, WireTyped, CachesTyped, InboundTyped, FetchesTyped, Requests,
       PrefetchTyped, Prefetches, MarksTyped, FlawsTyped, WireInv, GoneInv, FetchInv,
       GenerationHolds, PrefetchInv, ShutInv, EvictedFailsClosed, CheckedIsFresh,
       DeletedStaysDeleted, ServerListsMembers
  <2>2. RostersTyped'
    BY <1>13 DEF IInv, RostersTyped, RosterRequests, ServerListsMembers
  <2>3. RosterInv'
    BY <1>13 DEF IInv, RosterInv, CachesTyped, RostersTyped, RosterRequests, ShutInv,
       EvictedFailsClosed, InboundTyped, ServerListsMembers
  <2> QED
    BY <2>1, <2>2, <2>3 DEF IInv
<1>14. ASSUME NEW c \in Callers, MembersReturn(c)
      PROVE  IInv'
  <2>1. /\ DocTyped' /\ WireTyped' /\ FetchesTyped' /\ PrefetchTyped' /\ MarksTyped'
        /\ WireInv' /\ GoneInv' /\ FetchInv' /\ PrefetchInv'
    BY <1>14 DEF IInv, DocTyped, WireTyped, FetchesTyped, Requests, PrefetchTyped, Prefetches,
       MarksTyped, WireInv, GoneInv, FetchInv, GenerationHolds, PrefetchInv, MembersReturn,
       Trouble, Continues
  <2>2. CachesTyped'
    BY <1>14 DEF IInv, CachesTyped, MembersReturn, Trouble, Continues
  <2>3. InboundTyped'
    BY <1>14 DEF IInv, InboundTyped, WireTyped, RosterInv, RostersTyped, RosterRequests,
       MembersReturn, Trouble, Continues
  <2>4. RostersTyped'
    BY <1>14 DEF IInv, RostersTyped, RosterRequests, MembersReturn, Trouble, Continues
  <2>5. FlawsTyped'
    BY <1>14 DEF IInv, FlawsTyped, MembersReturn, Trouble, Continues
  <2>6. RosterInv'
    BY <1>14 DEF IInv, RosterInv, CachesTyped, RostersTyped, RosterRequests, ShutInv,
       EvictedFailsClosed, InboundTyped, MembersReturn, Trouble, Continues
  <2>7. ShutInv'
    BY <1>14 DEF IInv, ShutInv, EvictedFailsClosed, CachesTyped, FetchesTyped, Requests,
       RostersTyped, RosterRequests, RosterInv, FetchInv, GenerationHolds, FlawsTyped,
       MembersReturn, Trouble, Continues
  <2>8. CheckedIsFresh'
    <3>1. \A k \in Keys : k \in excused' <=> k \in excused
      BY <1>14 DEF MembersReturn, Keys
    <3>2. cached \subseteq Keys /\ checked \subseteq Keys
      BY DEF IInv, CachesTyped
    <3> QED
      BY <1>14, <3>1, <3>2 DEF MembersReturn, IInv, CheckedIsFresh
  <2>9. DeletedStaysDeleted'
    <3>1. \A k \in Keys : k \in excused' <=> k \in excused
      BY <1>14 DEF MembersReturn, Keys
    <3>2. cached \subseteq Keys /\ checked \subseteq Keys
      BY DEF IInv, CachesTyped
    <3> QED
      BY <1>14, <3>1, <3>2 DEF MembersReturn, IInv, DeletedStaysDeleted
  <2> QED
    BY <2>1, <2>2, <2>3, <2>4, <2>5, <2>6, <2>7, <2>8, <2>9 DEF IInv
<1>15. ASSUME NEW f \in Fetches, Starts(f)
      PROVE  IInv'
  <2>1. /\ DocTyped' /\ WireTyped' /\ CachesTyped' /\ InboundTyped' /\ RostersTyped'
        /\ PrefetchTyped' /\ MarksTyped' /\ FlawsTyped' /\ WireInv' /\ GoneInv' /\ RosterInv'
        /\ PrefetchInv' /\ ShutInv' /\ CheckedIsFresh' /\ DeletedStaysDeleted'
    BY <1>15 DEF IInv, DocTyped, WireTyped, CachesTyped, InboundTyped, RostersTyped,
       RosterRequests, PrefetchTyped, Prefetches, MarksTyped, FlawsTyped, WireInv, GoneInv,
       RosterInv, PrefetchInv, ShutInv, EvictedFailsClosed, CheckedIsFresh, DeletedStaysDeleted,
       Starts, Becomes
  <2>2. FetchesTyped'
    <3>1. fetches[f] \in Requests /\ gen \in Nat
      BY <1>15, RequestIs DEF Starts, IInv, CachesTyped
    <3>2. [fetches[f] EXCEPT !.pc = "asked", !.gen = gen] \in Requests
      BY <3>1 DEF Requests
    <3> QED
      BY <1>15, <3>2, TaskMoves DEF Starts, IInv
  <2>3. FetchInv'
    BY <1>15 DEF IInv, FetchInv, GenerationHolds, DocTyped, CachesTyped, FetchesTyped, Requests,
       MarksTyped, Starts, Becomes
  <2> QED
    BY <2>1, <2>2, <2>3 DEF IInv
<1>16. ASSUME NEW f \in Fetches, ServerAnswers(f)
      PROVE  IInv'
  <2>w. /\ doc' \in Documents /\ wire' \in Seq(Frames) /\ WireHolds(wire', heard, doc')
        /\ \A x \in Keys : /\ doc'[x].ver # 0 /\ doc[x].ver <= doc'[x].ver
                           /\ gone[x] = doc'[x].ver => ~doc'[x].there
        /\ \A s \in Requests :
              AnswerHolds(s, doc, gone, wire) => AnswerHolds(s, doc', gone, wire')
        /\ fetches[f].what = "edit" => doc'[fetches[f].key].there
        /\ fetches[f] \in Requests
    <3>1. fetches[f] \in Requests /\ fetches[f].key \in Keys
      BY <1>16 DEF IInv, FetchesTyped, Requests, ServerAnswers
    <3>2. CASE fetches[f].what = "edit"
      <4>1. ServerWrites(fetches[f].key, TRUE)
        BY <1>16, <3>2 DEF ServerAnswers
      <4> QED
        BY <3>1, <4>1, WritingKeeps
    <3>3. CASE fetches[f].what # "edit"
      <4>1. doc' = doc /\ wire' = wire
        BY <1>16, <3>3 DEF ServerAnswers
      <4>2. doc \in Documents /\ wire \in Seq(Frames) /\ WireHolds(wire, heard, doc) /\ GoneInv
        BY DEF IInv, DocTyped, WireTyped, WireInv
      <4>3. \A x \in Keys : doc[x].ver <= doc[x].ver
        BY <4>2 DEF Documents, Versions
      <4> QED
        BY <3>1, <3>3, <4>1, <4>2, <4>3 DEF GoneInv
    <3> QED
      BY <3>2, <3>3
  <2>1. /\ CachesTyped' /\ InboundTyped' /\ RostersTyped' /\ PrefetchTyped' /\ FlawsTyped'
        /\ RosterInv' /\ PrefetchInv' /\ ShutInv' /\ CheckedIsFresh' /\ DeletedStaysDeleted'
    BY <1>16 DEF IInv, CachesTyped, InboundTyped, RostersTyped, RosterRequests, PrefetchTyped,
       Prefetches, FlawsTyped, RosterInv, PrefetchInv, ShutInv, EvictedFailsClosed,
       CheckedIsFresh, DeletedStaysDeleted, ServerAnswers, Becomes
  <2>2. DocTyped'
    BY <1>16, <2>w DEF IInv, DocTyped, ServerAnswers, Becomes
  <2>3. WireTyped'
    BY <1>16, <2>w DEF IInv, WireTyped, ServerAnswers, Becomes
  <2>4. FetchesTyped'
    <3> DEFINE k == fetches[f].key
               s == [fetches[f] EXCEPT !.pc = "answered", !.ver = doc'[k].ver, !.there = doc'[k].there]
    <3>1. k \in Keys /\ doc'[k].ver \in Versions /\ doc'[k].there \in BOOLEAN
      BY <2>w DEF Requests, Documents
    <3>2. s \in Requests
      BY <2>w, <3>1 DEF Requests
    <3>3. Becomes(f, s)
      BY <1>16 DEF ServerAnswers
    <3> HIDE DEF s
    <3> QED
      BY <3>2, <3>3, TaskMoves DEF IInv
  <2>5. MarksTyped'
    <3>1. basis' = basis /\ heard' = heard /\ gone' = gone
      BY <1>16 DEF ServerAnswers
    <3>2. \A x \in Keys : /\ doc[x].ver \in Nat /\ doc'[x].ver \in Nat
                          /\ basis[x] \in Nat /\ heard[x] \in Nat
      BY <2>w DEF IInv, DocTyped, MarksTyped, Documents, Marks, Versions
    <3> QED
      BY <2>w, <3>1, <3>2 DEF IInv, MarksTyped
  <2>6. WireInv'
    BY <1>16, <2>w DEF IInv, WireInv, ServerAnswers, Becomes
  <2>7. GoneInv'
    BY <1>16, <2>w DEF IInv, GoneInv, ServerAnswers, Becomes
  <2>8. FetchInv'
    <3> DEFINE k == fetches[f].key
               s == [fetches[f] EXCEPT !.pc = "answered", !.ver = doc'[k].ver, !.there = doc'[k].there]
    <3>1. k \in Keys /\ doc'[k].ver \in Nat /\ doc[k].ver \in Nat /\ heard[k] \in Nat
          /\ heard[k] <= doc[k].ver
      BY <2>w, ZeroIsVersion DEF Requests, Documents, IInv, DocTyped, MarksTyped, Marks
    <3>2. /\ s.what = fetches[f].what /\ s.key = k /\ s.gen = fetches[f].gen /\ s.old = fetches[f].old
          /\ s.pc = "answered" /\ s.ver = doc'[k].ver /\ s.there = doc'[k].there
      BY <2>w DEF Requests
    <3>3. Becomes(f, s) /\ gen' = gen /\ heard' = heard /\ shut' = shut /\ gone' = gone /\ member
      BY <1>16 DEF ServerAnswers
    <3>4. fetches[f] # Off /\ (~fetches[f].old => fetches[f].gen <= gen)
      BY <1>16 DEF ServerAnswers, IInv, FetchInv, GenerationHolds
    <3> HIDE DEF s, k
    <3>5. fetches'[f] = s /\ \A x \in Fetches \ {f} : fetches'[x] = fetches[x]
      BY <3>3 DEF IInv, FetchesTyped, Becomes
    <3>6. GenerationHolds(s, gen, heard, shut)
      <4>1. s.ver >= heard[s.key]
        BY <2>w, <3>1, <3>2
      <4>2. ~shut
        BY <3>3 DEF IInv, ShutInv
      <4> QED
        BY <3>2, <3>4, <4>1, <4>2 DEF GenerationHolds
    <3>7. AnswerHolds(s, doc', gone, wire')
      <4>1. s.ver <= doc'[s.key].ver
        BY <3>1, <3>2
      <4>2. s.what = "edit" => s.there
        BY <2>w, <3>2 DEF k
      <4>3. s.there => s.ver # gone[s.key]
        BY <2>w, <3>1, <3>2
      <4>4. ASSUME s.there, NEW i \in 1..Len(wire'), wire'[i].kind = "deleted", wire'[i].key = s.key
            PROVE  wire'[i].ver # s.ver
        BY <2>w, <3>2, <4>4 DEF WireHolds, Events
      <4> QED
        BY <4>1, <4>2, <4>3, <4>4 DEF AnswerHolds
    <3>8. ASSUME NEW x \in Fetches \ {f}, fetches[x] # Off
          PROVE  /\ GenerationHolds(fetches[x], gen, heard, shut)
                 /\ fetches[x].pc = "answered" => AnswerHolds(fetches[x], doc', gone, wire')
      <4>1. fetches[x] \in Requests
        BY <3>8 DEF IInv, FetchesTyped
      <4> QED
        BY <2>w, <3>8, <4>1 DEF IInv, FetchInv
    <3> QED
      BY <3>3, <3>5, <3>6, <3>7, <3>8 DEF FetchInv
  <2> QED
    BY <2>1, <2>2, <2>3, <2>4, <2>5, <2>6, <2>7, <2>8 DEF IInv
<1>17. ASSUME NEW f \in Fetches, Fails(f)
      PROVE  IInv'
  <2>1. /\ DocTyped' /\ WireTyped' /\ CachesTyped' /\ RostersTyped' /\ PrefetchTyped'
        /\ MarksTyped' /\ FlawsTyped' /\ WireInv' /\ GoneInv' /\ RosterInv' /\ PrefetchInv'
        /\ ShutInv' /\ CheckedIsFresh' /\ DeletedStaysDeleted'
    BY <1>17 DEF IInv, DocTyped, WireTyped, CachesTyped, RostersTyped, RosterRequests,
       PrefetchTyped, Prefetches, MarksTyped, FlawsTyped, WireInv, GoneInv, RosterInv,
       PrefetchInv, ShutInv, EvictedFailsClosed, CheckedIsFresh, DeletedStaysDeleted, Fails,
       Becomes, Trouble
  <2>2. InboundTyped'
    BY <1>17 DEF IInv, InboundTyped, Fails, Becomes, Trouble
  <2>3. FetchesTyped'
    BY <1>17 DEF IInv, FetchesTyped, Requests, Fails, Becomes, Trouble
  <2>4. FetchInv'
    BY <1>17 DEF IInv, FetchInv, GenerationHolds, Fails, Becomes, Trouble
  <2> QED
    BY <2>1, <2>2, <2>3, <2>4 DEF IInv
<1>18. ASSUME NEW f \in Fetches, Returns(f)
      PROVE  IInv'
  <2>s. PICK s : s = fetches[f]
    OBVIOUS
  <2>r. /\ s \in Requests /\ s.pc = "answered" /\ GenerationHolds(s, gen, heard, shut)
        /\ AnswerHolds(s, doc, gone, wire) /\ ReturnMade(s)
    <3>1. fetches[f] \in Requests
      BY <1>18, RequestIs DEF Returns, IInv
    <3>2. /\ fetches[f].pc = "answered" /\ GenerationHolds(fetches[f], gen, heard, shut)
          /\ AnswerHolds(fetches[f], doc, gone, wire)
      BY <1>18 DEF Returns, IInv, FetchInv
    <3>3. ReturnMade(fetches[f])
      BY <1>18, <3>2, ReturnDoes DEF IInv, AnswerHolds
    <3> QED
      BY <2>s, <3>1, <3>2, <3>3
  <2>t. /\ s.key \in Keys /\ s.key # "people" /\ s.ver \in Nat /\ s.ver <= doc[s.key].ver
        /\ doc' = doc /\ heard' = heard /\ gone' = gone /\ shut' = shut
    BY <1>18, <2>r, ZeroIsVersion DEF Requests, AnswerHolds, Keys, Returns
  <2>1. /\ DocTyped' /\ WireTyped' /\ InboundTyped' /\ RostersTyped' /\ PrefetchTyped'
        /\ WireInv' /\ GoneInv' /\ RosterInv' /\ PrefetchInv'
    BY <1>18 DEF IInv, DocTyped, WireTyped, InboundTyped, RostersTyped, RosterRequests,
       PrefetchTyped, Prefetches, WireInv, GoneInv, RosterInv, PrefetchInv, Returns, Becomes,
       EditReturns, EnsureReturns, RefreshReturns, Docs, InTime, From, Taken
  <2>2. CachesTyped'
    <3>1. cached' \subseteq Keys /\ checked' \subseteq Keys
      BY <2>r, <2>t DEF IInv, CachesTyped, ReturnMade
    <3> QED
      BY <1>18, <3>1 DEF Returns, IInv, CachesTyped
  <2>3. FetchesTyped'
    BY <1>18 DEF IInv, FetchesTyped, Requests, Returns, Becomes, EditReturns, EnsureReturns,
       RefreshReturns, Docs, InTime, From, Taken
  <2>4. MarksTyped'
    <3>1. ASSUME NEW x \in Keys PROVE basis'[x] <= doc[x].ver
      <4>1. basis[x] \in Nat /\ doc[x].ver \in Nat /\ basis[x] <= doc[x].ver
        BY ZeroIsVersion DEF IInv, MarksTyped, Marks, DocTyped, Documents
      <4>2. basis'[x] = basis[x] \/ basis'[x] = 0 \/ (x = s.key /\ basis'[x] = s.ver)
        BY <2>r, <2>t DEF ReturnMade
      <4> QED
        BY <2>t, <4>1, <4>2
    <3>2. basis' \in Marks
      BY <2>r DEF ReturnMade
    <3> QED
      BY <2>t, <3>1, <3>2 DEF IInv, MarksTyped
  <2>5. FlawsTyped'
    BY <2>r, <2>t DEF IInv, FlawsTyped, ReturnMade
  <2>6. FetchInv'
    BY <1>18 DEF IInv, FetchInv, GenerationHolds, Returns, Becomes, EditReturns, EnsureReturns,
       RefreshReturns, Docs, InTime, From, Taken
  <2>7. ShutInv'
    <3> SUFFICES ASSUME shut PROVE EvictedFailsClosed' /\ ~member'
      BY <2>t DEF ShutInv, EvictedFailsClosed
    <3>1. /\ ~member /\ cached \subseteq excused /\ checked \subseteq excused
          /\ roster \/ robots => "people" \in excused
      BY DEF IInv, ShutInv, EvictedFailsClosed
    <3>2. s.key \in cached' \union checked' => s.key \in excused'
      BY <2>r, <3>1 DEF ReturnMade, GenerationHolds
    <3>3. \A x \in cached' \union checked' : x # s.key => x \in excused'
      BY <2>r, <2>t, <3>1 DEF ReturnMade, IInv, CachesTyped
    <3>4. cached' \subseteq excused' /\ checked' \subseteq excused'
      BY <3>2, <3>3
    <3>5. roster' \/ robots' => "people" \in excused'
      BY <1>18, <2>r, <3>1 DEF ReturnMade, Returns
    <3> QED
      BY <1>18, <3>1, <3>4, <3>5 DEF EvictedFailsClosed, Returns
  <2>8. CheckedIsFresh'
    <3>1. heard[s.key] \in Nat
      BY <2>t, ZeroIsVersion DEF IInv, MarksTyped, Marks
    <3>2. \A x \in checked' \ excused' : x # s.key => basis'[x] >= heard[x]
      BY <2>r, <2>t DEF ReturnMade, IInv, CachesTyped, CheckedIsFresh
    <3>3. s.key \in checked' \ excused' => basis'[s.key] >= heard[s.key]
      BY <2>r, <2>t, <3>1 DEF ReturnMade, GenerationHolds, IInv, CheckedIsFresh
    <3> QED
      BY <2>t, <3>2, <3>3 DEF CheckedIsFresh
  <2>9. DeletedStaysDeleted'
    <3>1. heard[s.key] \in Nat /\ gone[s.key] \in Nat /\ gone[s.key] <= heard[s.key]
      BY <2>t, ZeroIsVersion DEF IInv, MarksTyped, Marks
    <3>2. \A x \in cached' \ excused' : x # s.key => basis'[x] > gone[x]
      BY <2>r, <2>t DEF ReturnMade, IInv, CachesTyped, DeletedStaysDeleted
    <3>3. s.key \in cached' \ excused' => basis'[s.key] > gone[s.key]
      BY <2>r, <2>t, <3>1 DEF ReturnMade, GenerationHolds, AnswerHolds, IInv, DeletedStaysDeleted
    <3> QED
      BY <2>t, <3>2, <3>3 DEF DeletedStaysDeleted
  <2> QED
    BY <2>1, <2>2, <2>3, <2>4, <2>5, <2>6, <2>7, <2>8, <2>9 DEF IInv
<1>19. ASSUME NEW f \in Fetches, NEW k \in Keys, EditStarts(f, k)
      PROVE  IInv'
  <2>1. /\ DocTyped' /\ WireTyped' /\ CachesTyped' /\ RostersTyped' /\ PrefetchTyped'
        /\ MarksTyped' /\ FlawsTyped' /\ WireInv' /\ GoneInv' /\ RosterInv' /\ PrefetchInv'
        /\ ShutInv' /\ CheckedIsFresh' /\ DeletedStaysDeleted'
    BY <1>19 DEF IInv, DocTyped, WireTyped, CachesTyped, RostersTyped, RosterRequests,
       PrefetchTyped, Prefetches, MarksTyped, FlawsTyped, WireInv, GoneInv, RosterInv,
       PrefetchInv, ShutInv, EvictedFailsClosed, CheckedIsFresh, DeletedStaysDeleted,
       EditStarts, Becomes, Fetch, Trouble, Free
  <2>2. InboundTyped'
    BY <1>19 DEF IInv, InboundTyped, EditStarts, Becomes, Fetch, Trouble, Free
  <2>3. FetchesTyped'
    <3>1. [Fetch("edit", k, gen) EXCEPT !.pc = "asked"] \in Requests
      BY FetchTyped DEF IInv, CachesTyped
    <3> QED
      BY <1>19, <3>1, TaskMoves DEF EditStarts, IInv
  <2>4. FetchInv'
    BY <1>19 DEF IInv, FetchInv, GenerationHolds, DocTyped, CachesTyped, FetchesTyped, Requests,
       MarksTyped, EditStarts, Becomes, Fetch, Trouble, Free
  <2> QED
    BY <2>1, <2>2, <2>3, <2>4 DEF IInv
<1>20. ASSUME NEW p \in Origins, PrefetchStarts(p)
      PROVE  IInv'
  <2>d. /\ basis' \in Marks /\ excused' \subseteq excused /\ cached' \subseteq cached
        /\ checked' \subseteq checked
        /\ \A x \in Keys : basis'[x] = 0 \/ basis'[x] = basis[x]
        /\ \A x \in cached' \union checked' :
              basis'[x] = basis[x] /\ (x \in excused => x \in excused')
    <3>1. 0 \in Versions
      BY DEF Versions
    <3> QED
      BY <1>20, <3>1 DEF IInv, CachesTyped, MarksTyped, Docs, Marks, PrefetchStarts
  <2>1. /\ DocTyped' /\ WireTyped' /\ FetchesTyped' /\ RostersTyped' /\ WireInv' /\ GoneInv'
        /\ FetchInv' /\ RosterInv'
    BY <1>20 DEF IInv, DocTyped, WireTyped, FetchesTyped, Requests, RostersTyped,
       RosterRequests, WireInv, GoneInv, FetchInv, GenerationHolds, RosterInv, PrefetchStarts,
       Trouble, Docs
  <2>2. CachesTyped'
    BY <1>20 DEF IInv, CachesTyped, PrefetchStarts, Trouble, Docs
  <2>3. InboundTyped'
    BY <1>20 DEF IInv, InboundTyped, PrefetchStarts, Trouble, Docs
  <2>4. PrefetchTyped'
    BY <1>20 DEF IInv, PrefetchTyped, Prefetches, CachesTyped, DocTyped, PrefetchStarts,
       Trouble, Docs
  <2>5. MarksTyped'
    BY <1>20, <2>d DEF IInv, MarksTyped, PrefetchStarts, DocTyped, Documents, Versions
  <2>6. FlawsTyped'
    BY <1>20 DEF IInv, FlawsTyped, PrefetchStarts, Trouble, Docs
  <2>7. PrefetchInv'
    BY <1>20 DEF IInv, PrefetchInv, CachesTyped, PrefetchTyped, Prefetches, PrefetchStarts,
       Trouble, Docs
  <2>8. ShutInv'
    BY <1>20 DEF IInv, ShutInv, EvictedFailsClosed, PrefetchStarts, Trouble, Docs
  <2>9. CheckedIsFresh'
    BY <1>20 DEF IInv, CheckedIsFresh, PrefetchStarts, Trouble, Docs
  <2>10. DeletedStaysDeleted'
    BY <1>20 DEF IInv, DeletedStaysDeleted, CachesTyped, FetchesTyped, Requests, MarksTyped,
       FetchInv, GenerationHolds, PrefetchStarts, Trouble, Docs
  <2> QED
    BY <2>1, <2>2, <2>3, <2>4, <2>5, <2>6, <2>7, <2>8, <2>9, <2>10 DEF IInv
<1>21. ASSUME NEW p \in Origins, ServerListsGroups(p)
      PROVE  IInv'
  <2>1. /\ DocTyped' /\ WireTyped' /\ CachesTyped' /\ InboundTyped' /\ FetchesTyped'
        /\ RostersTyped' /\ MarksTyped' /\ FlawsTyped' /\ WireInv' /\ GoneInv' /\ FetchInv'
        /\ RosterInv' /\ ShutInv' /\ CheckedIsFresh' /\ DeletedStaysDeleted'
    BY <1>21 DEF IInv, DocTyped, WireTyped, CachesTyped, InboundTyped, FetchesTyped, Requests,
       RostersTyped, RosterRequests, MarksTyped, FlawsTyped, WireInv, GoneInv, FetchInv,
       GenerationHolds, RosterInv, ShutInv, EvictedFailsClosed, CheckedIsFresh,
       DeletedStaysDeleted, ServerListsGroups
  <2>2. PrefetchTyped'
    <3>1. prefetch[p] \in Prefetches /\ member \in BOOLEAN
      BY <1>21 DEF ServerListsGroups, IInv, PrefetchTyped, DocTyped
    <3>2. [prefetch[p] EXCEPT !.pc = "listed", !.lists = member] \in Prefetches
      BY <3>1 DEF Prefetches
    <3>3. prefetch' = [prefetch EXCEPT ![p] = [prefetch[p] EXCEPT !.pc = "listed", !.lists = member]]
      BY <1>21, <3>1 DEF ServerListsGroups, IInv, PrefetchTyped
    <3> QED
      BY <3>2, <3>3 DEF IInv, PrefetchTyped
  <2>3. PrefetchInv'
    BY <1>21 DEF IInv, PrefetchInv, CachesTyped, PrefetchTyped, Prefetches, ServerListsGroups
  <2> QED
    BY <2>1, <2>2, <2>3 DEF IInv
<1>22. ASSUME NEW p \in Origins, PrefetchFails(p)
      PROVE  IInv'
  <2>1. /\ DocTyped' /\ WireTyped' /\ CachesTyped' /\ FetchesTyped' /\ RostersTyped'
        /\ MarksTyped' /\ FlawsTyped' /\ WireInv' /\ GoneInv' /\ FetchInv' /\ RosterInv'
        /\ ShutInv' /\ CheckedIsFresh' /\ DeletedStaysDeleted'
    BY <1>22 DEF IInv, DocTyped, WireTyped, CachesTyped, FetchesTyped, Requests, RostersTyped,
       RosterRequests, MarksTyped, FlawsTyped, WireInv, GoneInv, FetchInv, GenerationHolds,
       RosterInv, ShutInv, EvictedFailsClosed, CheckedIsFresh, DeletedStaysDeleted,
       PrefetchFails, Trouble
  <2>2. InboundTyped'
    BY <1>22 DEF IInv, InboundTyped, PrefetchFails, Trouble
  <2>3. PrefetchTyped'
    BY <1>22 DEF IInv, PrefetchTyped, Prefetches, PrefetchFails, Trouble
  <2>4. PrefetchInv'
    BY <1>22 DEF IInv, PrefetchInv, PrefetchFails, Trouble
  <2> QED
    BY <2>1, <2>2, <2>3, <2>4 DEF IInv
<1>23. ASSUME NEW p \in Origins, PrefetchReturns(p)
      PROVE  IInv'
  <2>d. /\ basis' \in Marks /\ excused' \subseteq excused /\ cached' \subseteq cached
        /\ checked' \subseteq checked
        /\ \A x \in Keys : basis'[x] = 0 \/ basis'[x] = basis[x]
        /\ \A x \in cached' \union checked' :
              basis'[x] = basis[x] /\ (x \in excused => x \in excused')
    <3>1. 0 \in Versions
      BY DEF Versions
    <3> QED
      BY <1>23, <3>1 DEF IInv, CachesTyped, MarksTyped, Docs, Marks, PrefetchReturns, EvictScope
  <2>1. DocTyped' /\ WireTyped' /\ WireInv' /\ GoneInv'
    BY <1>23 DEF IInv, DocTyped, WireTyped, WireInv, GoneInv, PrefetchReturns, EvictScope,
       EvictMembers, Docs, Indexes
  <2>2. CachesTyped'
    <3>1. CASE EvictScope
      <4>1. /\ gen' \in Nat /\ cached' \subseteq Keys /\ checked' \subseteq Keys
            /\ active' \subseteq Keys
        BY <3>1 DEF EvictScope, Docs, IInv, CachesTyped
      <4>2. {known', roster', robots', stamped'} \subseteq BOOLEAN /\ (robots' => roster')
        BY <3>1 DEF EvictScope, EvictMembers
      <4> QED
        BY <4>1, <4>2 DEF CachesTyped
    <3>2. CASE ~EvictScope
      <4>1. /\ known' = (known \/ Indexes(p)) /\ active' \subseteq active \union {Group}
            /\ UNCHANGED <<gen, docs, people>>
        BY <1>23, <3>2 DEF PrefetchReturns
      <4>2. known' \in BOOLEAN /\ active' \subseteq Keys
        BY <4>1 DEF IInv, CachesTyped, Keys
      <4> QED
        BY <4>1, <4>2 DEF IInv, CachesTyped
    <3> QED
      BY <3>1, <3>2
  <2>3. InboundTyped'
    BY <1>23 DEF IInv, InboundTyped, PrefetchReturns, EvictScope, EvictMembers, Docs, Indexes
  <2>4. FetchesTyped'
    BY <1>23 DEF IInv, FetchesTyped, Requests, PrefetchReturns, EvictScope, EvictMembers, Docs,
       Indexes
  <2>5. RostersTyped'
    BY <1>23 DEF IInv, RostersTyped, RosterRequests, PrefetchReturns, EvictScope, EvictMembers,
       Docs, Indexes
  <2>6. PrefetchTyped'
    <3>1. \A q \in Origins : prefetch[q] # Off => [prefetch[q] EXCEPT !.evicted = TRUE] \in Prefetches
      BY DEF IInv, PrefetchTyped, Prefetches
    <3> QED
      BY <1>23, <3>1 DEF PrefetchReturns, IInv, PrefetchTyped
  <2>7. MarksTyped'
    BY <1>23, <2>d DEF IInv, MarksTyped, PrefetchReturns, DocTyped, Documents, Versions
  <2>8. FlawsTyped'
    BY <1>23 DEF IInv, FlawsTyped, PrefetchReturns, EvictScope, EvictMembers, Docs, Indexes
  <2>9. FetchInv'
    BY <1>23 DEF IInv, FetchInv, GenerationHolds, DocTyped, CachesTyped, FetchesTyped, Requests,
       MarksTyped, PrefetchReturns, EvictScope, EvictMembers, Docs, Indexes
  <2>10. RosterInv'
    BY <1>23 DEF IInv, RosterInv, CachesTyped, RostersTyped, RosterRequests, ShutInv,
       EvictedFailsClosed, InboundTyped, PrefetchReturns, EvictScope, EvictMembers, Docs,
       Indexes
  <2>11. PrefetchInv'
    BY <1>23 DEF IInv, PrefetchInv, CachesTyped, PrefetchTyped, Prefetches, PrefetchReturns,
       EvictScope, EvictMembers, Docs, Indexes
  <2>12. ShutInv'
    BY <1>23 DEF IInv, ShutInv, EvictedFailsClosed, CachesTyped, FetchesTyped, Requests,
       RostersTyped, RosterRequests, RosterInv, FetchInv, GenerationHolds, FlawsTyped,
       PrefetchReturns, EvictScope, EvictMembers, Docs, Indexes
  <2>13. CheckedIsFresh'
    BY <1>23 DEF IInv, CheckedIsFresh, PrefetchReturns, EvictScope, EvictMembers, Docs, Indexes
  <2>14. DeletedStaysDeleted'
    BY <1>23 DEF IInv, DeletedStaysDeleted, PrefetchReturns, EvictScope, EvictMembers, Docs,
       Indexes
  <2> QED
    BY <2>1, <2>2, <2>3, <2>4, <2>5, <2>6, <2>7, <2>8, <2>9, <2>10, <2>11, <2>12, <2>13,
       <2>14 DEF IInv
<1>24. CASE UNCHANGED vars
  BY <1>24 DEF IInv, DocTyped, WireTyped, CachesTyped, InboundTyped, FetchesTyped, Requests,
     RostersTyped, RosterRequests, PrefetchTyped, Prefetches, MarksTyped, FlawsTyped, WireInv,
     GoneInv, FetchInv, GenerationHolds, RosterInv, PrefetchInv, ShutInv, EvictedFailsClosed,
     CheckedIsFresh, DeletedStaysDeleted, vars
<1> QED
  BY <1>1, <1>2, <1>3, <1>4, <1>5, <1>6, <1>7, <1>8, <1>9, <1>10, <1>11, <1>12, <1>13, <1>14,
     <1>15, <1>16, <1>17, <1>18, <1>19, <1>20, <1>21, <1>22, <1>23, <1>24 DEF Next

-----------------------------------------------------------------------------
(* The theorems.                                                           *)

\* All parts of the invariant hold of every state.
THEOREM InvariantHolds == Spec => []IInv
  BY InitInvariant, StepInvariant, PTL DEF Spec

\* What the server keeps, what the bot caches and the tasks under way are what
\* the code makes them: a request never carries a version that the server has
\* not yet written, nothing cached is newer than the server's document, and no
\* event that arrived was of a version to come.
THEOREM TypeCorrect == Spec => []TypeOK
<1>1. IInv => ServerTyped
  BY DEF IInv, DocTyped, WireTyped, ServerTyped, Documents, Frames
<1>2. IInv => CachesTyped /\ TasksTyped
  BY DEF IInv, InboundTyped, FetchesTyped, RostersTyped, PrefetchTyped, TasksTyped
<1>3. IInv => HistoryTyped
  BY DEF IInv, MarksTyped, FlawsTyped, HistoryTyped, Marks
<1> QED
  BY <1>1, <1>2, <1>3, InvariantHolds, PTL DEF TypeOK

\* A document that counts as checked is at least as new as the last event of it
\* that arrived, and one whose deletion arrived does not come back with an answer
\* from before it (_handle_group_md_event, _ensure_group_md, _ensure_thread_md,
\* _refresh_group_md_at_generation), but for the entries of a known flaw.
THEOREM CacheCurrent == Spec => []CacheIsCurrent
<1>1. IInv => CacheIsCurrent
  BY DEF IInv, CacheIsCurrent
<1> QED
  BY <1>1, InvariantHolds, PTL

\* After a prefetch found the bot out of the group nothing of it is cached until
\* the bot is a member again (_evict_group_scope): no answer of a request from
\* before the eviction refills a cache.
THEOREM EvictionFailsClosed == Spec => []EvictedFailsClosed
<1>1. IInv => EvictedFailsClosed
  BY DEF IInv, ShutInv
<1> QED
  BY <1>1, InvariantHolds, PTL

\* A prefetch under way while another one evicted the group does not make it
\* known again (_prefetch_groups_and_members compares the generations).
THEOREM NeverResurrected == Spec => NotResurrected
<1> DEFINE Step == \A p \in Origins :
                      /\ prefetch[p].pc = "listed" /\ prefetch'[p] = Off
                      /\ prefetch[p].evicted /\ ~prefetch[p].old
                      => (known' => known)
<1>1. ASSUME IInv, [Next]_vars PROVE Step
  <2> SUFFICES ASSUME NEW p \in Origins, prefetch[p].pc = "listed", prefetch'[p] = Off,
                      prefetch[p].evicted, ~prefetch[p].old, ~known, known'
               PROVE  FALSE
    BY DEF IInv, CachesTyped
  <2>1. prefetch[p] # Off /\ prefetch[p].gen # gen
    <3>1. prefetch[p] # Off
      BY DEF Off
    <3>2. prefetch[p].gen \in Nat /\ gen \in Nat
      BY <1>1, <3>1 DEF IInv, PrefetchTyped, Prefetches, CachesTyped
    <3> QED
      BY <1>1, <3>1, <3>2 DEF IInv, PrefetchInv
  <2>2. PICK q \in Origins : PrefetchReturns(q)
    <3>1. ~MessageArrives
      BY <2>1 DEF MessageArrives
    <3>2. \A k \in Keys : ~ServerChanges(k) /\ ~SomeoneWrites(k) /\ ~Cleanup(k)
      BY DEF ServerChanges, SomeoneWrites, Cleanup, EvictMembers
    <3>3. ~MemberMoves /\ ~Loses /\ ~ResetIdentity /\ ~StampExpires
      BY DEF MemberMoves, Loses, ResetIdentity, StampExpires, EvictMembers
    <3>4. ~UpdateArrives /\ ~DeletionArrives /\ ~TurnStarts
      BY DEF UpdateArrives, DeletionArrives, TurnStarts
    <3>5. \A c \in Callers : ~AsksMembers(c) /\ ~ServerListsMembers(c) /\ ~MembersReturn(c)
      BY DEF AsksMembers, ServerListsMembers, MembersReturn
    <3>6. \A f \in Fetches : ~Starts(f) /\ ~ServerAnswers(f) /\ ~Fails(f) /\ ~Returns(f)
      BY DEF Starts, ServerAnswers, Fails, Returns
    <3>7. \A f \in Fetches, k \in Keys : ~EditStarts(f, k)
      BY DEF EditStarts
    <3>8. \A o \in Origins : ~PrefetchStarts(o) /\ ~ServerListsGroups(o) /\ ~PrefetchFails(o)
      BY DEF PrefetchStarts, ServerListsGroups, PrefetchFails
    <3>9. ~UNCHANGED vars
      BY DEF vars
    <3> QED
      BY <1>1, <3>1, <3>2, <3>3, <3>4, <3>5, <3>6, <3>7, <3>8, <3>9 DEF Next
  <2>3. Indexes(q) /\ prefetch' = [prefetch EXCEPT ![q] = Off]
    BY <2>2 DEF PrefetchReturns, EvictScope, EvictMembers
  <2>4. q = p
    BY <2>1, <2>3 DEF IInv, PrefetchTyped
  <2> QED
    BY <2>1, <2>3, <2>4 DEF Indexes
<1> QED
  BY <1>1, InvariantHolds, PTL DEF Spec, NotResurrected
=============================================================================
