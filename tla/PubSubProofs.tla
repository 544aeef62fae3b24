----------------------------- MODULE PubSubProofs -----------------------------
(***************************************************************************)
(* Proofs about PubSub: for any actors, any initial targets and any number *)
(* of requests and messages, an actor is served through the box of its     *)
(* latest request, its answers add up, and both actors are a Topic.        *)
(***************************************************************************)
EXTENDS PubSub, SequenceTheorems, FiniteSetTheorems, TLAPS

(***************************************************************************)
(* The invariant says how far the inbox was handled: messages one by one,  *)
(* requests up to one k, and the table and the answers are what the        *)
(* requests before k make them.                                            *)
(***************************************************************************)

\* The items of one type in q are those numbered from m to k, in order.
Numbered(q, type, m, k) ==
    /\ \A i \in 1 .. Len(q) : q[i].type = type => q[i].n \in m .. k
    /\ \A i, j \in 1 .. Len(q) :
        i < j /\ q[i].type = type /\ q[j].type = type => q[i].n < q[j].n
    /\ \A f \in m .. k : \E i \in 1 .. Len(q) : q[i] = [type |-> type, n |-> f]

\* The requests of the actor before the k-th.
HandledTo(k, a) == {d \in 1 .. k - 1 : calls[d].who = a}

ServedTo(k) ==
    \A a \in Actor, c \in Box :
        a \in DOMAIN table /\ table[a] = c
            <=> IsLast(c, HandledTo(k, a)) /\ calls[c].op = "Join"

OkTo(k, a, op) == {c \in HandledTo(k, a) : calls[c].op = op /\ calls[c].answer = "Ok"}

AddUpTo(k) ==
    kind = "FileWatcher" =>
        \A a \in Actor :
            Cardinality(OkTo(k, a, "Join"))
                = Cardinality(OkTo(k, a, "Leave")) + (IF a \in DOMAIN table THEN 1 ELSE 0)

\* The requests before the k-th were handled, and the others are in the inbox.
UpTo(k) == Numbered(inbox, "Call", k, Len(calls)) /\ ServedTo(k) /\ AddUpTo(k)

Working ==
    /\ Numbered(inbox, "Message", handled + 1, published)
    /\ \E k \in 1 .. Len(calls) + 1 : UpTo(k)

PubSubInv ==
    /\ TypeOK
    /\ status # "Running" => inbox = <<>> /\ table = <<>>
    /\ status = "Running" => Working

-----------------------------------------------------------------------------
(* The items of an inbox.                                                  *)

LEMMA NumberedAppended ==
    ASSUME NEW q \in Seq(Item), NEW type, NEW m \in Nat, NEW k \in Nat, m <= k + 1,
           Numbered(q, type, m, k), [type |-> type, n |-> k + 1] \in Item
    PROVE  Numbered(Append(q, [type |-> type, n |-> k + 1]), type, m, k + 1)
<1> DEFINE msg == [type |-> type, n |-> k + 1]
           p == Append(q, msg)
<1>1. /\ Len(p) = Len(q) + 1 /\ Len(q) \in Nat /\ p[Len(q) + 1] = msg
      /\ \A i \in 1 .. Len(q) : p[i] = q[i]
  BY AppendProperties, LenProperties
<1> HIDE DEF p
<1>2. \A i \in 1 .. Len(p) : p[i].type = type => p[i].n \in m .. k + 1
  BY <1>1 DEF Numbered
<1>3. ASSUME NEW i \in 1 .. Len(p), NEW j \in 1 .. Len(p),
             i < j, p[i].type = type, p[j].type = type
      PROVE  p[i].n < p[j].n
  <2>1. i \in 1 .. Len(q) /\ p[i] = q[i] /\ p[i].n \in m .. k
    BY <1>1, <1>3 DEF Numbered
  <2>2. CASE j = Len(q) + 1
    BY <1>1, <2>1, <2>2
  <2>3. CASE j \in 1 .. Len(q)
    BY <1>1, <1>3, <2>1, <2>3 DEF Numbered
  <2>. QED BY <1>1, <2>2, <2>3
<1>4. ASSUME NEW f \in m .. k + 1
      PROVE  \E i \in 1 .. Len(p) : p[i] = [type |-> type, n |-> f]
  <2>1. CASE f = k + 1
    BY <1>1, <2>1
  <2>2. CASE f \in m .. k
    BY <1>1, <2>2 DEF Numbered
  <2>. QED BY <2>1, <2>2
<1>5. Numbered(p, type, m, k + 1)
  BY <1>2, <1>3, <1>4 DEF Numbered
<1>. QED BY <1>5 DEF p

LEMMA NumberedPassed ==
    ASSUME NEW q \in Seq(Item), NEW type, NEW m, NEW k,
           NEW msg \in Item, msg.type # type, Numbered(q, type, m, k)
    PROVE  Numbered(Append(q, msg), type, m, k)
<1> DEFINE p == Append(q, msg)
<1>1. /\ Len(p) = Len(q) + 1 /\ Len(q) \in Nat /\ p[Len(q) + 1] = msg
      /\ \A i \in 1 .. Len(q) : p[i] = q[i]
  BY AppendProperties, LenProperties
<1> HIDE DEF p
<1>2. Numbered(p, type, m, k)
  BY <1>1 DEF Numbered
<1>. QED BY <1>2 DEF p

LEMMA NumberedTaken ==
    ASSUME NEW q \in Seq(Item), q # <<>>, NEW type, NEW m \in Nat, NEW k \in Nat, m <= k + 1,
           Numbered(q, type, m, k), Head(q).type = type
    PROVE  Head(q).n = m /\ m <= k /\ Numbered(Tail(q), type, m + 1, k)
<1>1. /\ Len(q) \in Nat \ {0} /\ Head(q) = q[1] /\ Len(Tail(q)) = Len(q) - 1
      /\ \A i \in 1 .. Len(Tail(q)) : Tail(q)[i] = q[i + 1]
  BY HeadTailProperties, EmptySeq
<1>2. q[1].n \in m .. k
  BY <1>1 DEF Numbered
<1>3. PICK i \in 1 .. Len(q) : q[i] = [type |-> type, n |-> m]
  BY <1>2 DEF Numbered
<1>4. i = 1
  BY <1>1, <1>2, <1>3 DEF Numbered
<1>5. \A h, j \in 1 .. Len(Tail(q)) :
        /\ q[h + 1].type = type => q[h + 1].n \in m + 1 .. k
        /\ h < j /\ q[h + 1].type = type /\ q[j + 1].type = type
                => q[h + 1].n < q[j + 1].n
  <2> SUFFICES ASSUME NEW h \in 1 .. Len(Tail(q)), NEW j \in 1 .. Len(Tail(q))
               PROVE  /\ q[h + 1].type = type => q[h + 1].n \in m + 1 .. k
                      /\ h < j /\ q[h + 1].type = type /\ q[j + 1].type = type
                            => q[h + 1].n < q[j + 1].n
    OBVIOUS
  <2>1. h + 1 \in 1 .. Len(q) /\ j + 1 \in 1 .. Len(q) /\ 1 < h + 1 /\ 1 \in 1 .. Len(q)
    BY <1>1
  <2>2. q[h + 1].type = type => q[1].n < q[h + 1].n /\ q[h + 1].n \in m .. k
    BY <1>1, <2>1 DEF Numbered
  <2>3. h < j /\ q[h + 1].type = type /\ q[j + 1].type = type => q[h + 1].n < q[j + 1].n
    BY <2>1 DEF Numbered
  <2>. QED BY <1>3, <1>4, <2>2, <2>3
<1>6. ASSUME NEW f \in m + 1 .. k
      PROVE  \E j \in 1 .. Len(Tail(q)) : Tail(q)[j] = [type |-> type, n |-> f]
  <2>1. PICK j \in 1 .. Len(q) : q[j] = [type |-> type, n |-> f]
    BY DEF Numbered
  <2>2. j # 1
    BY <1>3, <1>4, <2>1
  <2>3. j - 1 \in 1 .. Len(Tail(q)) /\ Tail(q)[j - 1] = q[j]
    BY <1>1, <2>2
  <2>. QED BY <2>1, <2>3
<1>. QED BY <1>1, <1>3, <1>4, <1>5, <1>6 DEF Numbered

LEMMA NumberedSkipped ==
    ASSUME NEW q \in Seq(Item), q # <<>>, NEW type, NEW m, NEW k,
           Numbered(q, type, m, k), Head(q).type # type
    PROVE  Numbered(Tail(q), type, m, k)
<1>1. /\ Len(q) \in Nat \ {0} /\ Head(q) = q[1] /\ Len(Tail(q)) = Len(q) - 1
      /\ \A i \in 1 .. Len(Tail(q)) : Tail(q)[i] = q[i + 1]
  BY HeadTailProperties, EmptySeq
<1>2. \A i \in 1 .. Len(Tail(q)) : i + 1 \in 1 .. Len(q) /\ Tail(q)[i] = q[i + 1]
  BY <1>1
<1>3. ASSUME NEW f \in m .. k
      PROVE  \E j \in 1 .. Len(Tail(q)) : Tail(q)[j] = [type |-> type, n |-> f]
  <2>1. PICK j \in 1 .. Len(q) : q[j] = [type |-> type, n |-> f]
    BY DEF Numbered
  <2>2. j # 1
    BY <1>1, <2>1
  <2>3. j - 1 \in 1 .. Len(Tail(q)) /\ Tail(q)[j - 1] = q[j]
    BY <1>1, <2>2
  <2>. QED BY <2>1, <2>3
<1>. QED BY <1>2, <1>3 DEF Numbered

-----------------------------------------------------------------------------
(* Types.                                                                  *)

LEMMA ItemTypes ==
    /\ \A m \in Nat : [type |-> "Message", n |-> m] \in Item
    /\ \A m \in Nat : [type |-> "Call", n |-> m] \in Item
    /\ [type |-> "FwError", n |-> 0] \in Item
    /\ \A i \in Item : i.n \in Nat
BY DEF Item

\* Of an actor's places in a sequence there is a last one.
LEMMA LastPlace ==
    ASSUME NEW S, NEW s \in Seq(S), NEW a \in Range(s)
    PROVE  \E i \in DOMAIN s : s[i] = a /\ \A j \in i + 1 .. Len(s) : s[j] # a
<1> DEFINE N == Len(s)
           T == {m \in 0 .. N : N - m \in 1 .. N /\ s[N - m] = a}
<1>1. N \in Nat /\ DOMAIN s = 1 .. N
  BY LenProperties
<1> HIDE DEF N
<1>2. T \subseteq Nat /\ T # {}
  <2>1. PICK i \in 1 .. N : s[i] = a
    BY <1>1 DEF Range
  <2>2. N - i \in 0 .. N /\ N - (N - i) = i
    BY <1>1, <2>1
  <2>3. N - i \in T
    BY <1>1, <2>1, <2>2
  <2>4. T \subseteq Nat
    BY <1>1
  <2>. QED BY <2>3, <2>4, Zenon
<1>3. PICK m \in T : \A y \in T : ~ <<y, m>> \in OpToRel(<, Nat)
  BY <1>2, NatLessThanWellFounded, WFMin, Zenon
<1>4. \A y \in T : ~ (y < m)
  BY <1>2, <1>3 DEF OpToRel
<1>5. N - m \in 1 .. N /\ s[N - m] = a
  OBVIOUS
<1>6. ASSUME NEW j \in N - m + 1 .. N, s[j] = a PROVE FALSE
  <2>1. N - j \in 0 .. N /\ N - (N - j) = j /\ N - j < m /\ j \in 1 .. N
    BY <1>1, <1>5, <1>6
  <2>2. N - j \in T
    BY <1>6, <2>1
  <2>. QED BY <1>4, <2>1, <2>2
<1>. QED BY <1>1, <1>5, <1>6 DEF N

LEMMA StateTypes ==
    ASSUME PubSubAssumption, TypeOK
    PROVE  /\ inbox \in Seq(Item) /\ calls \in Seq(Call)
           /\ DOMAIN calls = 1 .. Len(calls) /\ Len(calls) \in Nat /\ Len(calls) <= Calls
           /\ Calls \in Nat /\ Messages \in Nat /\ published \in Nat /\ handled \in Nat
           /\ handled <= published /\ published <= Messages
           /\ \A d \in 1 .. Len(calls) : calls[d] \in Call /\ d \in Box
           /\ \A a \in DOMAIN table :
                a \in Actor /\ table[a] \in 1 .. Len(calls) /\ table[a] \in Box
<1>1. /\ inbox \in Seq(Item) /\ calls \in Seq(Call) /\ Len(calls) <= Calls
      /\ Calls \in Nat /\ Messages \in Nat /\ published \in 0 .. Messages
      /\ handled \in 0 .. published /\ DOMAIN table \subseteq Actor
      /\ \A a \in DOMAIN table : table[a] \in DOMAIN calls
  BY DEF PubSubAssumption, TypeOK, Range
<1>2. /\ DOMAIN calls = 1 .. Len(calls) /\ Len(calls) \in Nat
      /\ \A d \in 1 .. Len(calls) : calls[d] \in Call
  BY <1>1, LenProperties, ElementOfSeq
<1>. QED BY <1>1, <1>2 DEF Box

\* What is handled depends on the requests before it only.
LEMMA UpToKept ==
    ASSUME NEW k \in Nat, UNCHANGED <<kind, table>>,
           \A d \in 1 .. k - 1 : calls'[d] = calls[d],
           ServedTo(k), AddUpTo(k)
    PROVE  ServedTo(k)' /\ AddUpTo(k)'
<1>1. \A a : HandledTo(k, a)' = HandledTo(k, a)
  BY DEF HandledTo
<1>2. \A a, op : OkTo(k, a, op)' = OkTo(k, a, op)
  BY <1>1 DEF OkTo, HandledTo
<1>3. ServedTo(k)'
  <2> SUFFICES ASSUME NEW a \in Actor, NEW c \in Box
               PROVE  a \in DOMAIN table' /\ table'[a] = c
                        <=> IsLast(c, HandledTo(k, a)') /\ calls'[c].op = "Join"
    BY DEF ServedTo
  <2>1. IsLast(c, HandledTo(k, a)) => calls'[c] = calls[c]
    BY DEF IsLast, HandledTo
  <2>. QED BY <1>1, <2>1 DEF ServedTo
<1>4. AddUpTo(k)'
  BY <1>2 DEF AddUpTo
<1>. QED BY <1>3, <1>4

LEMMA MessageTaken ==
    ASSUME PubSubAssumption, PubSubInv, Receive("Message")
    PROVE  /\ Head(inbox).n = handled + 1 /\ handled + 1 <= published
           /\ Tail(inbox) \in Seq(Item)
           /\ Numbered(Tail(inbox), "Message", handled + 2, published)
           /\ \A k : Numbered(inbox, "Call", k, Len(calls))
                        => Numbered(Tail(inbox), "Call", k, Len(calls))
<1>1. /\ inbox \in Seq(Item) /\ inbox # <<>> /\ Head(inbox).type = "Message"
      /\ handled \in Nat /\ published \in Nat /\ handled <= published
      /\ Numbered(inbox, "Message", handled + 1, published)
  BY StateTypes DEF Receive, PubSubInv, Working
<1>2. Tail(inbox) \in Seq(Item)
  BY <1>1, HeadTailProperties
<1>3. /\ Head(inbox).n = handled + 1 /\ handled + 1 <= published
      /\ Numbered(Tail(inbox), "Message", (handled + 1) + 1, published)
  <2>1. handled + 1 \in Nat /\ handled + 1 <= published + 1
    BY <1>1
  <2>. QED BY <1>1, <2>1, NumberedTaken
<1>4. (handled + 1) + 1 = handled + 2
  BY <1>1
<1>5. ASSUME NEW k, Numbered(inbox, "Call", k, Len(calls))
      PROVE  Numbered(Tail(inbox), "Call", k, Len(calls))
  BY <1>1, <1>5, NumberedSkipped
<1>. QED BY <1>2, <1>3, <1>4, <1>5

LEMMA CallTaken ==
    ASSUME PubSubAssumption, PubSubInv, Receive("Call")
    PROVE  \E k \in 1 .. Len(calls) :
                /\ k = Head(inbox).n /\ ServedTo(k) /\ AddUpTo(k)
                /\ Numbered(inbox, "Call", k, Len(calls))
                /\ Tail(inbox) \in Seq(Item)
                /\ Numbered(Tail(inbox), "Call", k + 1, Len(calls))
                /\ Numbered(Tail(inbox), "Message", handled + 1, published)
<1>1. /\ inbox \in Seq(Item) /\ inbox # <<>> /\ Head(inbox).type = "Call"
      /\ Len(calls) \in Nat
      /\ Numbered(inbox, "Message", handled + 1, published)
  BY StateTypes DEF Receive, PubSubInv, Working
<1>2. PICK k \in 1 .. Len(calls) + 1 : UpTo(k)
  BY DEF Receive, PubSubInv, Working
<1>3. Tail(inbox) \in Seq(Item)
  BY <1>1, HeadTailProperties
<1>4. /\ Head(inbox).n = k /\ k <= Len(calls)
      /\ Numbered(Tail(inbox), "Call", k + 1, Len(calls))
  BY <1>1, <1>2, NumberedTaken DEF UpTo
<1>5. Numbered(Tail(inbox), "Message", handled + 1, published)
  BY <1>1, NumberedSkipped
<1>6. k \in 1 .. Len(calls)
  BY <1>1, <1>4
<1>. QED BY <1>2, <1>3, <1>4, <1>5, <1>6 DEF UpTo

-----------------------------------------------------------------------------
(* The invariant.                                                          *)

LEMMA InitInv == ASSUME PubSubAssumption, Init PROVE PubSubInv
<1> DEFINE who == [i \in DOMAIN calls |-> calls[i].who]
<1>1. calls \in Seq(Call) /\ Len(calls) <= Calls /\ Len(calls) \in Nat
  <2>1. CASE calls = <<>>
    BY <2>1, EmptySeq DEF PubSubAssumption
  <2>2. CASE \E s \in Targets :
                calls = [i \in DOMAIN s |-> [op |-> "Join", who |-> s[i], answer |-> "None"]]
    <3>1. PICK s \in Targets :
                calls = [i \in DOMAIN s |-> [op |-> "Join", who |-> s[i], answer |-> "None"]]
      BY <2>2
    <3>2. s \in Seq(Actor) /\ Len(s) \in Nat /\ DOMAIN s = 1 .. Len(s) /\ Len(s) <= Calls
          /\ \A i \in 1 .. Len(s) : s[i] \in Actor
      BY LenProperties, ElementOfSeq DEF PubSubAssumption
    <3>3. calls \in [1 .. Len(s) -> Call]
      BY <3>1, <3>2 DEF Call, Answer
    <3>4. calls \in Seq(Call) /\ Len(calls) = Len(s)
      BY <3>2, <3>3, SeqDef
    <3>. QED BY <3>2, <3>4
  <2>. QED BY <2>1, <2>2 DEF Init
<1>2. DOMAIN calls = 1 .. Len(calls) /\ \A i \in 1 .. Len(calls) : calls[i] \in Call
  BY <1>1, LenProperties, ElementOfSeq
<1>3. who \in Seq(Actor) /\ Len(who) = Len(calls) /\ \A i \in 1 .. Len(calls) : who[i] = calls[i].who
  <2>1. who \in [1 .. Len(calls) -> Actor]
    BY <1>2 DEF Call
  <2>. QED BY <1>1, <1>2, <2>1, SeqDef
<1>4. table = Initial(who)
  BY DEF Init
<1>5. DOMAIN who = 1 .. Len(calls)
  BY <1>2
<1> HIDE DEF who
<1>6. /\ DOMAIN table = Range(who)
      /\ \A a \in Range(who) :
            /\ table[a] \in 1 .. Len(calls) /\ calls[table[a]].who = a
            /\ \A j \in table[a] + 1 .. Len(calls) : calls[j].who # a
  <2>1. ASSUME NEW a \in Range(who)
        PROVE  /\ table[a] \in 1 .. Len(calls) /\ calls[table[a]].who = a
               /\ \A j \in table[a] + 1 .. Len(calls) : calls[j].who # a
    <3>1. table[a] = CHOOSE i \in DOMAIN who :
                        who[i] = a /\ \A j \in i + 1 .. Len(who) : who[j] # a
      BY <1>4, <2>1 DEF Initial
    <3>2. \E i \in DOMAIN who : who[i] = a /\ \A j \in i + 1 .. Len(who) : who[j] # a
      BY <1>3, <2>1, LastPlace
    <3>3. /\ table[a] \in DOMAIN who /\ who[table[a]] = a
          /\ \A j \in table[a] + 1 .. Len(who) : who[j] # a
      BY <3>1, <3>2
    <3>4. \A j \in table[a] + 1 .. Len(calls) : j \in 1 .. Len(calls)
      BY <1>1, <1>5, <3>3
    <3>. QED BY <1>3, <1>5, <3>3, <3>4
  <2>. QED BY <1>4, <2>1 DEF Initial
<1>7. \A d \in 1 .. Len(calls) : calls[d].who \in Range(who) /\ calls[d].op = "Join"
  <2>1. \A d \in 1 .. Len(calls) : calls[d].who \in Range(who)
    BY <1>3, <1>5 DEF Range
  <2>2. \A d \in DOMAIN calls : calls[d].op = "Join"
    BY <1>2, EmptySeq DEF Init
  <2>. QED BY <1>2, <2>1, <2>2
<1>8. TypeOK
  <2>1. inbox \in Seq(Item) /\ got \in [Box -> Seq(1 .. Messages)]
    BY EmptySeq DEF Init
  <2>2. DOMAIN table \subseteq Actor
    BY <1>3, <1>5, <1>6, ElementOfSeq DEF Range
  <2>3. Range(table) \subseteq DOMAIN calls
    BY <1>2, <1>6 DEF Range
  <2>4. published \in 0 .. Messages /\ handled \in 0 .. published
    BY DEF Init, PubSubAssumption
  <2>5. kind \in {"Broadcaster", "FileWatcher"} /\ patient \in BOOLEAN
        /\ status \in {"Running", "Stopped", "Failed"} /\ alive \subseteq Actor
    BY DEF Init
  <2>. QED BY <1>1, <2>1, <2>2, <2>3, <2>4, <2>5 DEF TypeOK
<1>9. Numbered(inbox, "Message", handled + 1, published)
      /\ Numbered(inbox, "Call", Len(calls) + 1, Len(calls))
  BY <1>1, EmptySeq DEF Init, Numbered
<1>10. ServedTo(Len(calls) + 1)
  <2> SUFFICES ASSUME NEW a \in Actor, NEW c \in Box
               PROVE  a \in DOMAIN table /\ table[a] = c
                        <=> /\ IsLast(c, HandledTo(Len(calls) + 1, a))
                            /\ calls[c].op = "Join"
    BY DEF ServedTo
  <2>1. HandledTo(Len(calls) + 1, a) = {d \in 1 .. Len(calls) : calls[d].who = a}
    BY <1>1 DEF HandledTo
  <2>2. ASSUME a \in DOMAIN table, table[a] = c
        PROVE  IsLast(c, HandledTo(Len(calls) + 1, a)) /\ calls[c].op = "Join"
    <3>1. /\ c \in 1 .. Len(calls) /\ calls[c].who = a
          /\ \A j \in c + 1 .. Len(calls) : calls[j].who # a
      BY <1>6, <2>2
    <3>2. \A d \in 1 .. Len(calls) : calls[d].who = a => d <= c
      BY <1>1, <3>1
    <3>. QED BY <1>7, <2>1, <3>1, <3>2 DEF IsLast
  <2>3. ASSUME IsLast(c, HandledTo(Len(calls) + 1, a))
        PROVE  a \in DOMAIN table /\ table[a] = c
    <3>1. /\ c \in 1 .. Len(calls) /\ calls[c].who = a
          /\ \A d \in 1 .. Len(calls) : calls[d].who = a => d <= c
      BY <2>1, <2>3 DEF IsLast
    <3>2. a \in Range(who)
      BY <1>7, <3>1
    <3>3. /\ table[a] \in 1 .. Len(calls) /\ calls[table[a]].who = a
          /\ \A j \in table[a] + 1 .. Len(calls) : calls[j].who # a
      BY <1>6, <3>2
    <3>4. table[a] = c
      BY <1>1, <3>1, <3>3
    <3>. QED BY <1>6, <3>2, <3>4
  <2>. QED BY <2>2, <2>3
<1>11. AddUpTo(Len(calls) + 1)
  <2> SUFFICES ASSUME kind = "FileWatcher", NEW a \in Actor
               PROVE  Cardinality(OkTo(Len(calls) + 1, a, "Join"))
                        = Cardinality(OkTo(Len(calls) + 1, a, "Leave"))
                            + (IF a \in DOMAIN table THEN 1 ELSE 0)
    BY DEF AddUpTo
  <2>1. Len(calls) = 0
    BY EmptySeq DEF Init
  <2>2. a \notin DOMAIN table
    BY <1>5, <1>6, <2>1 DEF Range
  <2>3. \A op : OkTo(Len(calls) + 1, a, op) = {}
    BY <2>1 DEF OkTo, HandledTo
  <2>4. \A op : Cardinality(OkTo(Len(calls) + 1, a, op)) = 0
    BY <2>3, FS_EmptySet, Zenon
  <2>5. /\ Cardinality(OkTo(Len(calls) + 1, a, "Join")) = 0
        /\ Cardinality(OkTo(Len(calls) + 1, a, "Leave")) = 0
    BY <2>4, Zenon
  <2>. QED BY <2>2, <2>5
<1>. QED
  <2>1. UpTo(Len(calls) + 1) /\ Len(calls) + 1 \in 1 .. Len(calls) + 1
    BY <1>1, <1>9, <1>10, <1>11 DEF UpTo
  <2>2. Working
    BY <1>9, <2>1 DEF Working
  <2>. QED BY <1>8, <2>2 DEF PubSubInv, Init

LEMMA PublishInv == ASSUME PubSubAssumption, PubSubInv, Publish PROVE PubSubInv'
<1> USE DEF config
<1>1. /\ inbox \in Seq(Item) /\ Len(calls) \in Nat /\ handled \in Nat /\ published \in Nat
      /\ handled <= published /\ published < Messages
  BY StateTypes DEF PubSubInv, Publish
<1>2. [type |-> "Message", n |-> published + 1] \in Item
  BY <1>1, ItemTypes
<1>3. /\ inbox' = Append(inbox, [type |-> "Message", n |-> published + 1])
      /\ inbox' \in Seq(Item) /\ published' = published + 1
      /\ UNCHANGED <<kind, patient, status, table, alive, calls, handled, got>>
  BY <1>1, <1>2, AppendProperties DEF Publish, Sent
<1>4. TypeOK'
  <2>1. published' \in 0 .. Messages /\ handled' \in 0 .. published'
    BY <1>1, <1>3 DEF PubSubAssumption
  <2>. QED BY <1>3, <2>1, Zenon DEF PubSubInv, TypeOK
<1>5. PICK k \in 1 .. Len(calls) + 1 : UpTo(k)
  BY DEF PubSubInv, Working, Publish
<1>6. Numbered(inbox', "Message", handled' + 1, published')
  BY <1>1, <1>2, <1>3, NumberedAppended DEF PubSubInv, Working, Publish
<1>7. Numbered(inbox', "Call", k, Len(calls))
  BY <1>1, <1>2, <1>3, <1>5, NumberedPassed DEF UpTo
<1>8. ServedTo(k)' /\ AddUpTo(k)'
  BY <1>3, <1>5, UpToKept DEF UpTo
<1>. QED BY <1>3, <1>4, <1>6, <1>7, <1>8 DEF PubSubInv, Working, UpTo, Publish

LEMMA WatchFailsInv == ASSUME PubSubAssumption, PubSubInv, WatchFails PROVE PubSubInv'
<1> USE DEF config
<1>1. inbox \in Seq(Item) /\ Len(calls) \in Nat
  BY StateTypes DEF PubSubInv
<1>2. /\ inbox' = Append(inbox, [type |-> "FwError", n |-> 0])
      /\ inbox' \in Seq(Item) /\ status = "Running"
      /\ UNCHANGED <<kind, patient, status, table, alive, calls, published, handled, got>>
  BY <1>1, ItemTypes, AppendProperties DEF WatchFails, Sent
<1>3. TypeOK'
  BY <1>2, Zenon DEF PubSubInv, TypeOK
<1>4. PICK k \in 1 .. Len(calls) + 1 : UpTo(k)
  BY <1>2 DEF PubSubInv, Working
<1>5. Numbered(inbox', "Message", handled + 1, published)
  BY <1>1, <1>2, ItemTypes, NumberedPassed DEF PubSubInv, Working
<1>6. Numbered(inbox', "Call", k, Len(calls))
  BY <1>1, <1>2, <1>4, ItemTypes, NumberedPassed DEF UpTo
<1>7. ServedTo(k)' /\ AddUpTo(k)'
  BY <1>2, <1>4, UpToKept DEF UpTo
<1>. QED BY <1>2, <1>3, <1>5, <1>6, <1>7 DEF PubSubInv, Working, UpTo

LEMMA DieInv ==
    ASSUME PubSubAssumption, PubSubInv, NEW a \in Actor, Die(a) PROVE PubSubInv'
<1> USE DEF config
<1>1. /\ UNCHANGED <<kind, patient, status, inbox, table, calls, published, handled, got>>
      /\ alive' \subseteq alive
  BY DEF Die
<1>2. TypeOK'
  BY <1>1, Zenon DEF PubSubInv, TypeOK
<1>3. Len(calls) \in Nat
  BY StateTypes DEF PubSubInv
<1>4. ASSUME NEW k \in 1 .. Len(calls) + 1, UpTo(k) PROVE UpTo(k)'
  BY <1>1, <1>3, <1>4, UpToKept DEF UpTo
<1>. QED BY <1>1, <1>2, <1>4 DEF PubSubInv, Working

LEMMA AskInv ==
    ASSUME PubSubAssumption, PubSubInv, NEW op \in {"Join", "Leave"}, NEW a \in Actor,
           Ask(op, a)
    PROVE  PubSubInv'
<1> USE DEF config
<1>1. /\ inbox \in Seq(Item) /\ calls \in Seq(Call) /\ Len(calls) \in Nat
      /\ Len(calls) < Calls /\ Calls \in Nat /\ DOMAIN calls = 1 .. Len(calls)
      /\ UNCHANGED <<kind, patient, status, table, alive, published, handled, got>>
  BY StateTypes DEF PubSubInv, Ask
<1>2. PICK call \in Call : calls' = Append(calls, call)
  <2>1. [op |-> op, who |-> a, answer |-> "Error"] \in Call
    BY DEF Call, Answer
  <2>2. [op |-> op, who |-> a, answer |-> IF kind = "Broadcaster" THEN "None" ELSE "Waiting"]
            \in Call
    BY DEF Call, Answer
  <2>. QED BY <2>1, <2>2 DEF Ask
<1>3. /\ calls' \in Seq(Call) /\ Len(calls') = Len(calls) + 1
      /\ \A d \in 1 .. Len(calls) : calls'[d] = calls[d]
  BY <1>1, <1>2, AppendProperties
<1>4. [type |-> "Call", n |-> Len(calls) + 1] \in Item
  BY <1>1, ItemTypes
<1>5. inbox' \in Seq(Item)
  <2>1. Append(inbox, [type |-> "Call", n |-> Len(calls) + 1]) \in Seq(Item)
    BY <1>1, <1>4, AppendProperties
  <2>2. CASE Sent("Call", Len(calls) + 1)
    BY <2>1, <2>2 DEF Sent
  <2>3. CASE UNCHANGED inbox
    BY <1>1, <2>3
  <2>. QED BY <2>2, <2>3 DEF Ask
<1>6. TypeOK'
  <2>1. DOMAIN calls' = 1 .. Len(calls) + 1
    BY <1>3, LenProperties
  <2>2. Range(table)' \subseteq DOMAIN calls'
    BY <1>1, <2>1 DEF PubSubInv, TypeOK
  <2>3. Len(calls') <= Calls
    BY <1>1, <1>3
  <2>. QED BY <1>1, <1>3, <1>5, <2>2, <2>3, Zenon DEF PubSubInv, TypeOK
<1>7. ASSUME status = "Running" PROVE Working'
  <2>1. inbox' = Append(inbox, [type |-> "Call", n |-> Len(calls) + 1])
    BY <1>7 DEF Ask, Sent
  <2>2. PICK k \in 1 .. Len(calls) + 1 : UpTo(k)
    BY <1>7 DEF PubSubInv, Working
  <2>3. Numbered(inbox', "Call", k, Len(calls) + 1)
    BY <1>1, <1>4, <2>1, <2>2, NumberedAppended DEF UpTo
  <2>4. Numbered(inbox', "Message", handled + 1, published)
    BY <1>1, <1>4, <1>7, <2>1, NumberedPassed DEF PubSubInv, Working
  <2>5. ServedTo(k)' /\ AddUpTo(k)'
    <3>1. \A d \in 1 .. k - 1 : d \in 1 .. Len(calls)
      BY <1>1
    <3>. QED BY <1>1, <1>3, <2>2, <3>1, UpToKept DEF UpTo
  <2>6. k \in 1 .. Len(calls') + 1
    BY <1>1, <1>3
  <2>. QED BY <1>1, <1>3, <2>3, <2>4, <2>5, <2>6 DEF Working, UpTo
<1>. QED BY <1>1, <1>6, <1>7 DEF PubSubInv, Ask

\* A request is not forgotten when the actor ends.
LEMMA ExitCalls ==
    ASSUME PubSubAssumption, TypeOK, NEW s, Exit(s)
    PROVE  calls' \in Seq(Call) /\ Len(calls') = Len(calls) /\ DOMAIN calls' = DOMAIN calls
<1>1. /\ Len(calls) \in Nat /\ DOMAIN calls = 1 .. Len(calls)
      /\ \A d \in 1 .. Len(calls) : calls[d] \in Call
  BY StateTypes
<1>2. calls' \in [1 .. Len(calls) -> Call]
  BY <1>1 DEF Exit, Call, Answer
<1>. QED BY <1>1, <1>2, SeqDef

LEMMA ExitInv ==
    ASSUME PubSubAssumption, PubSubInv, NEW s \in {"Stopped", "Failed"}, Exit(s),
           UNCHANGED <<config, alive, published>>,
           handled' \in 0 .. published, got' \in [Box -> Seq(1 .. Messages)]
    PROVE  PubSubInv'
<1>1. TypeOK /\ UNCHANGED <<kind, patient>>
  BY DEF PubSubInv, config
<1>2. calls' \in Seq(Call) /\ Len(calls') = Len(calls)
  BY <1>1, ExitCalls
<1>3. inbox' = <<>> /\ table' = <<>> /\ inbox' \in Seq(Item) /\ status' = s
  BY EmptySeq DEF Exit
<1>4. DOMAIN table' = {} /\ Range(table') = {}
  BY <1>3 DEF Range
<1>5. TypeOK'
  BY <1>1, <1>2, <1>3, <1>4 DEF TypeOK
<1>. QED BY <1>3, <1>5 DEF PubSubInv

LEMMA ThroughTypes ==
    ASSUME PubSubAssumption, PubSubInv, Receive("Message"), NEW A, Through(A)
    PROVE  /\ handled' = handled + 1 /\ handled' \in 0 .. published
           /\ got' \in [Box -> Seq(1 .. Messages)]
<1>1. /\ Head(inbox).n = handled + 1 /\ handled + 1 <= published
      /\ handled \in Nat /\ published \in Nat /\ published <= Messages /\ Messages \in Nat
  BY MessageTaken, StateTypes DEF PubSubInv
<1>2. handled' = handled + 1 /\ handled' \in 1 .. Messages /\ handled' \in 0 .. published
  BY <1>1 DEF Through
<1>3. ASSUME NEW b \in Box
      PROVE  got[b] \in Seq(1 .. Messages) /\ Append(got[b], handled') \in Seq(1 .. Messages)
  BY <1>2, AppendProperties DEF PubSubInv, TypeOK
<1>. QED BY <1>2, <1>3 DEF Through

LEMMA BroadcastInv == ASSUME PubSubAssumption, PubSubInv, Broadcast PROVE PubSubInv'
<1>1. Receive("Message") /\ UNCHANGED <<kind, patient, alive, published, config>>
  BY DEF Broadcast, config
<1>2. CASE Through(alive) /\ inbox' = Tail(inbox) /\ UNCHANGED <<status, table, calls>>
  <2>1. handled' = handled + 1 /\ handled' \in 0 .. published /\ got' \in [Box -> Seq(1 .. Messages)]
    BY <1>1, <1>2, ThroughTypes
  <2>2. /\ inbox' \in Seq(Item)
        /\ Numbered(inbox', "Message", handled + 2, published)
        /\ \A k : Numbered(inbox, "Call", k, Len(calls)) => Numbered(inbox', "Call", k, Len(calls))
    BY <1>1, <1>2, MessageTaken
  <2>3. TypeOK'
    BY <1>1, <1>2, <2>1, <2>2, Zenon DEF PubSubInv, TypeOK
  <2>4. Len(calls) \in Nat /\ handled' + 1 = handled + 2
    BY <2>1, StateTypes DEF PubSubInv
  <2>5. ASSUME NEW k \in 1 .. Len(calls) + 1, UpTo(k) PROVE UpTo(k)'
    BY <1>1, <1>2, <2>2, <2>4, <2>5, UpToKept DEF UpTo
  <2>6. status = "Running" /\ Working
    BY <1>1 DEF Receive, PubSubInv
  <2>. QED BY <1>1, <1>2, <2>2, <2>3, <2>4, <2>5, <2>6 DEF PubSubInv, Working
<1>3. CASE Exit("Failed") /\ \E A \in SUBSET alive : Through(A)
  <2>1. handled' \in 0 .. published /\ got' \in [Box -> Seq(1 .. Messages)]
    BY <1>1, <1>3, ThroughTypes
  <2>. QED BY <1>1, <1>3, <2>1, ExitInv
<1>. QED BY <1>2, <1>3 DEF Broadcast

\* An answer changes the request it is for and no other.
LEMMA AnsweredTypes ==
    ASSUME PubSubAssumption, TypeOK, NEW k \in 1 .. Len(calls), NEW answer \in Answer,
           Answered(k, answer)
    PROVE  /\ calls' \in Seq(Call) /\ Len(calls') = Len(calls) /\ DOMAIN calls' = DOMAIN calls
           /\ \A d \in 1 .. Len(calls) : d # k => calls'[d] = calls[d]
           /\ calls'[k].op = calls[k].op /\ calls'[k].who = calls[k].who
           /\ kind = "FileWatcher" => calls'[k].answer = answer
<1>1. /\ calls \in Seq(Call) /\ DOMAIN calls = 1 .. Len(calls) /\ calls[k] \in Call
      /\ Len(calls) \in Nat
  BY StateTypes
<1>2. [calls[k] EXCEPT !.answer = answer] \in Call
  BY <1>1 DEF Call
<1>3. CASE kind = "FileWatcher"
  <2>1. calls' = [calls EXCEPT ![k] = [calls[k] EXCEPT !.answer = answer]]
    BY <1>3 DEF Answered
  <2>2. /\ calls' \in Seq(Call) /\ Len(calls') = Len(calls)
        /\ \A d \in 1 .. Len(calls) :
                calls'[d] = IF d = k THEN [calls[k] EXCEPT !.answer = answer] ELSE calls[d]
    BY <1>1, <1>2, <2>1, ExceptSeq
  <2>3. DOMAIN calls' = 1 .. Len(calls)
    BY <2>2, LenProperties
  <2>. QED BY <1>1, <2>2, <2>3 DEF Call
<1>4. CASE kind # "FileWatcher"
  BY <1>1, <1>4 DEF Answered
<1>. QED BY <1>3, <1>4

\* What was handled once the k-th request is: the same and, for its actor, the k-th.
LEMMA HandledGrows ==
    ASSUME PubSubAssumption, TypeOK, NEW k \in 1 .. Len(calls), NEW answer \in Answer,
           Answered(k, answer), NEW a
    PROVE  /\ HandledTo(k + 1, a)' = IF a = calls[k].who THEN HandledTo(k, a) \cup {k}
                                                          ELSE HandledTo(k, a)
           /\ \A d \in HandledTo(k, a) : d \in 1 .. k - 1 /\ calls'[d] = calls[d]
           /\ HandledTo(k, a) \subseteq 1 .. k - 1
<1>1. /\ \A d \in 1 .. Len(calls) : d # k => calls'[d] = calls[d]
      /\ calls'[k].who = calls[k].who
      /\ Len(calls) \in Nat
  BY AnsweredTypes, StateTypes
<1>2. /\ \A d \in 1 .. k - 1 : calls'[d] = calls[d] /\ d \in 1 .. (k + 1) - 1 /\ d # k
      /\ k \in 1 .. (k + 1) - 1
      /\ \A d \in 1 .. (k + 1) - 1 : d # k => d \in 1 .. k - 1
  BY <1>1
<1>3. \A d : d \in HandledTo(k + 1, a)'
                <=> d \in HandledTo(k, a) \/ (d = k /\ calls[k].who = a)
  BY <1>1, <1>2 DEF HandledTo
<1>4. HandledTo(k + 1, a)' = IF a = calls[k].who THEN HandledTo(k, a) \cup {k}
                                                 ELSE HandledTo(k, a)
  <2>1. CASE a = calls[k].who
    BY <1>3, <2>1
  <2>2. CASE a # calls[k].who
    BY <1>3, <2>2
  <2>. QED BY <2>1, <2>2
<1>. QED BY <1>2, <1>4 DEF HandledTo

LEMMA OkGrows ==
    ASSUME PubSubAssumption, TypeOK, NEW k \in 1 .. Len(calls), NEW answer \in Answer,
           Answered(k, answer), kind = "FileWatcher", NEW a, NEW op
    PROVE  /\ Cardinality(OkTo(k, a, op)) \in Nat
           /\ Cardinality(OkTo(k + 1, a, op)') =
                IF a = calls[k].who /\ calls[k].op = op /\ answer = "Ok"
                THEN Cardinality(OkTo(k, a, op)) + 1 ELSE Cardinality(OkTo(k, a, op))
<1>1. /\ HandledTo(k + 1, a)' = IF a = calls[k].who THEN HandledTo(k, a) \cup {k}
                                                     ELSE HandledTo(k, a)
      /\ \A d \in HandledTo(k, a) : d \in 1 .. k - 1 /\ calls'[d] = calls[d]
      /\ HandledTo(k, a) \subseteq 1 .. k - 1
  BY HandledGrows
<1>2. calls'[k].op = calls[k].op /\ calls'[k].answer = answer
  BY AnsweredTypes
<1>3. Len(calls) \in Nat /\ k \notin 1 .. k - 1
  BY StateTypes
<1>4. IsFiniteSet(OkTo(k, a, op)) /\ k \notin OkTo(k, a, op)
  <2>1. IsFiniteSet(1 .. k - 1)
    BY <1>3, FS_Interval
  <2>2. OkTo(k, a, op) \subseteq 1 .. k - 1
    BY <1>1 DEF OkTo
  <2>3. IsFiniteSet(OkTo(k, a, op))
    BY <2>1, <2>2, FS_Subset
  <2>. QED BY <1>3, <2>2, <2>3
<1>5. \A d : d \in OkTo(k + 1, a, op)'
                <=> \/ d \in OkTo(k, a, op)
                    \/ d = k /\ a = calls[k].who /\ calls[k].op = op /\ answer = "Ok"
  BY <1>1, <1>2 DEF OkTo
<1>6. CASE a = calls[k].who /\ calls[k].op = op /\ answer = "Ok"
  <2>1. OkTo(k + 1, a, op)' = OkTo(k, a, op) \cup {k}
    BY <1>5, <1>6
  <2>. QED BY <1>4, <1>6, <2>1, FS_AddElement, FS_CardinalityType
<1>7. CASE ~(a = calls[k].who /\ calls[k].op = op /\ answer = "Ok")
  <2>1. OkTo(k + 1, a, op)' = OkTo(k, a, op)
    BY <1>5, <1>7
  <2>. QED BY <1>4, <1>7, <2>1, FS_CardinalityType
<1>. QED BY <1>6, <1>7

\* A request is handled: the table and the answers stay what the requests make them.
LEMMA RequestInv ==
    ASSUME PubSubAssumption, PubSubInv, NEW k \in 1 .. Len(calls), NEW answer \in Answer,
           Receive("Call"), inbox' = Tail(inbox), k = Head(inbox).n, Answered(k, answer),
           UNCHANGED <<config, status, alive, published, handled, got>>,
           DOMAIN table' \subseteq Actor,
           \A x \in DOMAIN table' : table'[x] \in 1 .. Len(calls),
           ServedTo(k) => ServedTo(k + 1)',
           AddUpTo(k) => AddUpTo(k + 1)'
    PROVE  PubSubInv'
<1>1. /\ ServedTo(k) /\ AddUpTo(k) /\ inbox' \in Seq(Item)
      /\ Numbered(inbox', "Call", k + 1, Len(calls))
      /\ Numbered(inbox', "Message", handled + 1, published)
  BY CallTaken
<1>2. TypeOK /\ Len(calls) \in Nat /\ DOMAIN calls = 1 .. Len(calls) /\ status = "Running"
  BY StateTypes DEF PubSubInv, Receive
<1>3. calls' \in Seq(Call) /\ Len(calls') = Len(calls) /\ DOMAIN calls' = DOMAIN calls
  BY <1>2, AnsweredTypes
<1>4. UNCHANGED <<kind, patient, status, alive, published, handled, got>>
  BY DEF config
<1>5. TypeOK'
  <2>1. Range(table)' \subseteq DOMAIN calls'
    BY <1>2, <1>3 DEF Range
  <2>. QED BY <1>1, <1>2, <1>3, <1>4, <2>1, Zenon DEF TypeOK
<1>6. UpTo(k + 1)' /\ k + 1 \in 1 .. Len(calls') + 1
  BY <1>1, <1>2, <1>3 DEF UpTo
<1>. QED BY <1>1, <1>2, <1>4, <1>5, <1>6 DEF PubSubInv, Working

LEMMA JoinInv == ASSUME PubSubAssumption, PubSubInv, Join PROVE PubSubInv'
<1>1. PICK k \in 1 .. Len(calls) : k = Head(inbox).n
  BY CallTaken DEF Join
<1>2. PICK a : a = calls[k].who
  OBVIOUS
<1>3. PICK answer : answer = JoinAnswer(a)
  OBVIOUS
<1>4. /\ Receive("Call") /\ inbox' = Tail(inbox) /\ calls[k].op = "Join"
      /\ table' = Inserted(a, k) /\ Answered(k, answer)
      /\ UNCHANGED <<config, status, alive, published, handled, got>>
  BY <1>1, <1>2, <1>3 DEF Join
<1>5. /\ TypeOK /\ Len(calls) \in Nat /\ a \in Actor /\ k \in Box
      /\ \A x \in DOMAIN table : x \in Actor /\ table[x] \in 1 .. Len(calls)
  BY <1>2, StateTypes DEF PubSubInv, Call
<1>6. answer \in Answer /\ (answer = "Ok" <=> a \notin DOMAIN table)
  BY <1>3 DEF JoinAnswer, Answer
<1>7. /\ DOMAIN table' = DOMAIN table \cup {a} /\ table'[a] = k
      /\ \A x \in DOMAIN table : x # a => table'[x] = table[x]
  BY <1>4 DEF Inserted
<1>8. ASSUME ServedTo(k) PROVE ServedTo(k + 1)'
  <2> SUFFICES ASSUME NEW x \in Actor, NEW c \in Box
               PROVE  x \in DOMAIN table' /\ table'[x] = c
                        <=> IsLast(c, HandledTo(k + 1, x)') /\ calls'[c].op = "Join"
    BY DEF ServedTo
  <2>1. /\ HandledTo(k + 1, x)' = IF x = a THEN HandledTo(k, x) \cup {k} ELSE HandledTo(k, x)
        /\ \A d \in HandledTo(k, x) : d \in 1 .. k - 1 /\ calls'[d] = calls[d]
    BY <1>2, <1>4, <1>5, <1>6, HandledGrows
  <2>2. CASE x = a
    <3>1. IsLast(c, HandledTo(k + 1, x)') <=> c = k
      BY <1>5, <2>1, <2>2 DEF IsLast
    <3>2. calls'[k].op = "Join"
      BY <1>4, <1>5, <1>6, AnsweredTypes
    <3>. QED BY <1>7, <2>2, <3>1, <3>2
  <2>3. CASE x # a
    BY <1>7, <1>8, <2>1, <2>3 DEF ServedTo, IsLast
  <2>. QED BY <2>2, <2>3
<1>9. ASSUME AddUpTo(k) PROVE AddUpTo(k + 1)'
  <2> SUFFICES ASSUME kind = "FileWatcher", NEW x \in Actor
               PROVE  Cardinality(OkTo(k + 1, x, "Join")')
                        = Cardinality(OkTo(k + 1, x, "Leave")')
                            + (IF x \in DOMAIN table' THEN 1 ELSE 0)
    BY <1>4 DEF AddUpTo, config
  <2>1. \A op \in {"Join", "Leave"} :
            /\ Cardinality(OkTo(k, x, op)) \in Nat
            /\ Cardinality(OkTo(k + 1, x, op)') =
                    IF x = a /\ calls[k].op = op /\ answer = "Ok"
                    THEN Cardinality(OkTo(k, x, op)) + 1 ELSE Cardinality(OkTo(k, x, op))
    BY <1>2, <1>4, <1>5, <1>6, OkGrows
  <2>2. Cardinality(OkTo(k, x, "Join"))
            = Cardinality(OkTo(k, x, "Leave")) + (IF x \in DOMAIN table THEN 1 ELSE 0)
    BY <1>9 DEF AddUpTo
  <2>3. /\ Cardinality(OkTo(k, x, "Join")) \in Nat /\ Cardinality(OkTo(k, x, "Leave")) \in Nat
        /\ Cardinality(OkTo(k + 1, x, "Leave")') = Cardinality(OkTo(k, x, "Leave"))
        /\ Cardinality(OkTo(k + 1, x, "Join")') =
                IF x = a /\ answer = "Ok" THEN Cardinality(OkTo(k, x, "Join")) + 1
                                          ELSE Cardinality(OkTo(k, x, "Join"))
    BY <1>4, <2>1
  <2>. QED BY <1>6, <1>7, <2>2, <2>3
<1>10. /\ DOMAIN table' \subseteq Actor
       /\ \A x \in DOMAIN table' : table'[x] \in 1 .. Len(calls)
  BY <1>5, <1>7
<1>. QED BY <1>1, <1>4, <1>6, <1>8, <1>9, <1>10, RequestInv

LEMMA LeaveInv == ASSUME PubSubAssumption, PubSubInv, Leave PROVE PubSubInv'
<1>1. PICK k \in 1 .. Len(calls) : k = Head(inbox).n
  BY CallTaken DEF Leave
<1>2. PICK a : a = calls[k].who
  OBVIOUS
<1>3. PICK answer : answer = LeaveAnswer(a)
  OBVIOUS
<1>4. /\ Receive("Call") /\ inbox' = Tail(inbox) /\ calls[k].op = "Leave"
      /\ table' = Restrict(table, DOMAIN table \ {a}) /\ Answered(k, answer)
      /\ UNCHANGED <<config, status, alive, published, handled, got>>
  BY <1>1, <1>2, <1>3 DEF Leave
<1>5. /\ TypeOK /\ Len(calls) \in Nat /\ a \in Actor /\ k \in Box
      /\ \A x \in DOMAIN table : x \in Actor /\ table[x] \in 1 .. Len(calls)
  BY <1>2, StateTypes DEF PubSubInv, Call
<1>6. answer \in Answer /\ (answer = "Ok" <=> a \in DOMAIN table)
  BY <1>3 DEF LeaveAnswer, Answer
<1>7. /\ DOMAIN table' = DOMAIN table \ {a}
      /\ \A x \in DOMAIN table : x # a => table'[x] = table[x]
  BY <1>4 DEF Restrict
<1>8. ASSUME ServedTo(k) PROVE ServedTo(k + 1)'
  <2> SUFFICES ASSUME NEW x \in Actor, NEW c \in Box
               PROVE  x \in DOMAIN table' /\ table'[x] = c
                        <=> IsLast(c, HandledTo(k + 1, x)') /\ calls'[c].op = "Join"
    BY DEF ServedTo
  <2>1. /\ HandledTo(k + 1, x)' = IF x = a THEN HandledTo(k, x) \cup {k} ELSE HandledTo(k, x)
        /\ \A d \in HandledTo(k, x) : d \in 1 .. k - 1 /\ calls'[d] = calls[d]
    BY <1>2, <1>4, <1>5, <1>6, HandledGrows
  <2>2. CASE x = a
    <3>1. IsLast(c, HandledTo(k + 1, x)') => c = k
      BY <1>5, <2>1, <2>2 DEF IsLast
    <3>2. calls'[k].op = "Leave"
      BY <1>4, <1>5, <1>6, AnsweredTypes
    <3>. QED BY <1>7, <2>2, <3>1, <3>2
  <2>3. CASE x # a
    BY <1>7, <1>8, <2>1, <2>3 DEF ServedTo, IsLast
  <2>. QED BY <2>2, <2>3
<1>9. ASSUME AddUpTo(k) PROVE AddUpTo(k + 1)'
  <2> SUFFICES ASSUME kind = "FileWatcher", NEW x \in Actor
               PROVE  Cardinality(OkTo(k + 1, x, "Join")')
                        = Cardinality(OkTo(k + 1, x, "Leave")')
                            + (IF x \in DOMAIN table' THEN 1 ELSE 0)
    BY <1>4 DEF AddUpTo, config
  <2>1. \A op \in {"Join", "Leave"} :
            /\ Cardinality(OkTo(k, x, op)) \in Nat
            /\ Cardinality(OkTo(k + 1, x, op)') =
                    IF x = a /\ calls[k].op = op /\ answer = "Ok"
                    THEN Cardinality(OkTo(k, x, op)) + 1 ELSE Cardinality(OkTo(k, x, op))
    BY <1>2, <1>4, <1>5, <1>6, OkGrows
  <2>2. Cardinality(OkTo(k, x, "Join"))
            = Cardinality(OkTo(k, x, "Leave")) + (IF x \in DOMAIN table THEN 1 ELSE 0)
    BY <1>9 DEF AddUpTo
  <2>3. /\ Cardinality(OkTo(k, x, "Join")) \in Nat /\ Cardinality(OkTo(k, x, "Leave")) \in Nat
        /\ Cardinality(OkTo(k + 1, x, "Join")') = Cardinality(OkTo(k, x, "Join"))
        /\ Cardinality(OkTo(k + 1, x, "Leave")') =
                IF x = a /\ answer = "Ok" THEN Cardinality(OkTo(k, x, "Leave")) + 1
                                          ELSE Cardinality(OkTo(k, x, "Leave"))
    BY <1>4, <2>1
  <2>. QED BY <1>6, <1>7, <2>2, <2>3
<1>10. /\ DOMAIN table' \subseteq Actor
       /\ \A x \in DOMAIN table' : table'[x] \in 1 .. Len(calls)
  BY <1>5, <1>7
<1>. QED BY <1>1, <1>4, <1>6, <1>8, <1>9, <1>10, RequestInv

LEMMA InvStep == ASSUME PubSubAssumption, PubSubInv, [Next]_vars PROVE PubSubInv'
<1>1. CASE UNCHANGED vars
  <2>1. UNCHANGED <<kind, patient, status, inbox, table, alive, calls, published, handled, got>>
    BY <1>1 DEF vars, config
  <2>2. TypeOK'
    BY <2>1, Zenon DEF PubSubInv, TypeOK
  <2>3. Len(calls) \in Nat
    BY StateTypes DEF PubSubInv
  <2>4. ASSUME NEW k \in 1 .. Len(calls) + 1, UpTo(k) PROVE UpTo(k)'
    BY <2>1, <2>3, <2>4, UpToKept DEF UpTo
  <2>. QED BY <2>1, <2>2, <2>4 DEF PubSubInv, Working
<1>2. CASE Stop
  <2>1. handled \in 0 .. published /\ got \in [Box -> Seq(1 .. Messages)]
    BY DEF PubSubInv, TypeOK
  <2>. QED BY <1>2, <2>1, ExitInv DEF Stop
<1>3. CASE FilewatcherError
  <2>1. handled \in 0 .. published /\ got \in [Box -> Seq(1 .. Messages)]
    BY DEF PubSubInv, TypeOK
  <2>. QED BY <1>3, <2>1, ExitInv DEF FilewatcherError
<1>4. CASE \E a \in Actor : Ask("Join", a) \/ Ask("Leave", a) \/ Die(a)
  BY <1>4, AskInv, DieInv
<1>. QED
  BY <1>1, <1>2, <1>3, <1>4, PublishInv, WatchFailsInv, BroadcastInv, JoinInv, LeaveInv DEF Next

\* What was handled is told by k, which is also what is not in the inbox.
LEMMA HandledIs ==
    ASSUME PubSubAssumption, TypeOK, NEW k \in 1 .. Len(calls) + 1,
           Numbered(inbox, "Call", k, Len(calls))
    PROVE  /\ \A c : Queued("Call", c) <=> c \in k .. Len(calls)
           /\ \A a : Handled(a) = HandledTo(k, a)
<1>1. /\ inbox \in Seq(Item) /\ DOMAIN inbox = 1 .. Len(inbox)
      /\ Len(calls) \in Nat /\ DOMAIN calls = 1 .. Len(calls)
  BY StateTypes, LenProperties
<1>2. ASSUME NEW c PROVE Queued("Call", c) <=> c \in k .. Len(calls)
  <2>1. ASSUME NEW i \in 1 .. Len(inbox), inbox[i] = [type |-> "Call", n |-> c]
        PROVE  c \in k .. Len(calls)
    <3>1. inbox[i].type = "Call" /\ inbox[i].n = c
      BY <2>1
    <3>. QED BY <3>1 DEF Numbered
  <2>. QED BY <1>1, <2>1 DEF Queued, Numbered
<1>3. ASSUME NEW a PROVE Handled(a) = HandledTo(k, a)
  <2>1. \A c : c \in 1 .. Len(calls) /\ ~ c \in k .. Len(calls) <=> c \in 1 .. k - 1
    BY <1>1
  <2>. QED BY <1>1, <1>2, <2>1 DEF Handled, HandledTo
<1>. QED BY <1>2, <1>3

THEOREM PubSubInvariant == Spec => []PubSubInv
<1>1. Init => PubSubInv
  BY InitInv, PubSubAssumption
<1>2. PubSubInv /\ [Next]_vars => PubSubInv'
  BY InvStep, PubSubAssumption
<1>. QED BY <1>1, <1>2, PTL DEF Spec

\* Every box in the table came with a request, or with the initial targets.
THEOREM TypeCorrect == Spec => []TypeOK
<1>1. PubSubInv => TypeOK
  BY DEF PubSubInv
<1>. QED BY <1>1, PubSubInvariant, PTL

\* An actor is served through the box of the latest request handled for it, and
\* through none when that was to leave.
THEOREM LatestServes == Spec => []ServedThroughLatest
<1>1. PubSubInv => ServedThroughLatest
  <2> SUFFICES ASSUME PubSubInv, status = "Running" PROVE
            \A a \in Actor, c \in Box :
                a \in DOMAIN table /\ table[a] = c
                    <=> IsLast(c, Handled(a)) /\ calls[c].op = "Join"
    BY DEF ServedThroughLatest
  <2>1. TypeOK /\ \E k \in 1 .. Len(calls) + 1 : UpTo(k)
    BY DEF PubSubInv, Working
  <2>2. PICK k \in 1 .. Len(calls) + 1 : UpTo(k)
    BY <2>1
  <2>3. \A a : Handled(a) = HandledTo(k, a)
    BY <2>1, <2>2, HandledIs, PubSubAssumption DEF UpTo
  <2>. QED BY <2>2, <2>3 DEF UpTo, ServedTo
<1>. QED BY <1>1, PubSubInvariant, PTL

\* Whoever counts the answers to its requests knows whether it is subscribed.
THEOREM AnswersCount == Spec => []AnswersAddUp
<1>1. PubSubInv => AnswersAddUp
  <2> SUFFICES ASSUME PubSubInv, kind = "FileWatcher", status = "Running", NEW a \in Actor
               PROVE  Cardinality({c \in Handled(a) : calls[c].op = "Join" /\ calls[c].answer = "Ok"})
                        = Cardinality({c \in Handled(a) :
                                            calls[c].op = "Leave" /\ calls[c].answer = "Ok"})
                            + (IF a \in DOMAIN table THEN 1 ELSE 0)
    BY Zenon DEF AnswersAddUp
  <2>1. TypeOK /\ \E k \in 1 .. Len(calls) + 1 : UpTo(k)
    BY DEF PubSubInv, Working
  <2>2. PICK k \in 1 .. Len(calls) + 1 : UpTo(k)
    BY <2>1
  <2>3. Handled(a) = HandledTo(k, a)
    BY <2>1, <2>2, HandledIs, PubSubAssumption DEF UpTo
  <2>. QED BY <2>2, <2>3 DEF UpTo, AddUpTo, OkTo
<1>. QED BY <1>1, PubSubInvariant, PTL

-----------------------------------------------------------------------------
(* Both actors implement a Topic.                                          *)

\* The boxes that came with the initial targets or with a request that was handled.
Taken == {c \in DOMAIN calls : ~Queued("Call", c)}

\* A box in the table is one that was taken, and what is not in the table is past.
Grouped == Members \subseteq Taken /\ Taken \subseteq Box /\ Past = Taken \ Members

LEMMA GroupTyped == PubSubInv => Grouped
<1> SUFFICES ASSUME PubSubInv PROVE Grouped
  OBVIOUS
<1> USE PubSubAssumption
<1>1. /\ DOMAIN calls = 1 .. Len(calls) /\ Len(calls) \in Nat
      /\ \A d \in 1 .. Len(calls) : d \in Box
      /\ \A a \in DOMAIN table : a \in Actor /\ table[a] \in 1 .. Len(calls) /\ table[a] \in Box
      /\ TypeOK
  BY StateTypes DEF PubSubInv
<1>2. Taken \subseteq Box /\ Past = Taken \ Members
  BY <1>1 DEF Taken, Past
<1>3. ASSUME NEW a \in DOMAIN table PROVE table[a] \in Taken
  <2>1. CASE status = "Running"
    <3>1. PICK k \in 1 .. Len(calls) + 1 : UpTo(k)
      BY <2>1 DEF PubSubInv, Working
    <3>2. table[a] \in HandledTo(k, a)
      BY <1>1, <1>3, <3>1 DEF UpTo, ServedTo, IsLast
    <3>3. table[a] \in Handled(a)
      BY <1>1, <3>1, <3>2, HandledIs DEF UpTo
    <3>. QED BY <3>3 DEF Handled, Taken
  <2>2. CASE status # "Running"
    BY <1>3, <2>2 DEF PubSubInv
  <2>. QED BY <2>1, <2>2
<1>4. Members \subseteq Taken
  BY <1>3 DEF Members
<1>. QED BY <1>2, <1>4 DEF Grouped

LEMMA GroupStays == PubSubInv' => Grouped'
BY GroupTyped, PTL

\* Who is new in the group came with a request just handled.
LEMMA GroupChanges ==
    ASSUME PubSubAssumption, PubSubInv, PubSubInv', UNCHANGED <<got, handled, status>>,
           Taken \subseteq Taken', Members' \cap Taken \subseteq Members
    PROVE  TheTopic!Next
<1>1. Grouped /\ Grouped'
  BY GroupTyped, GroupStays
<1>2. status # "Running" => Members' = {}
  BY DEF PubSubInv, Members
<1>3. TheTopic!Change
  BY <1>1, <1>2 DEF Grouped, TheTopic!Change
<1>. QED BY <1>3 DEF TheTopic!Next

\* With the actor the group is gone.
LEMMA GroupQuits ==
    ASSUME PubSubAssumption, PubSubInv, NEW s \in {"Stopped", "Failed"}, Exit(s),
           status = "Running",
           \/ UNCHANGED <<got, handled>>
           \/ \E boxes \in SUBSET Members : TheTopic!Reaches(boxes)
    PROVE  TheTopic!Next
<1>1. /\ Members \subseteq Taken /\ Past = Taken \ Members /\ Taken \subseteq DOMAIN calls
      /\ DOMAIN calls \subseteq Box
  <2>1. DOMAIN calls \subseteq Box
    BY StateTypes DEF PubSubInv
  <2>. QED BY <2>1, GroupTyped DEF Grouped, Taken
<1>2. DOMAIN calls' = DOMAIN calls
  BY ExitCalls DEF PubSubInv
<1>3. Members' = {}
  BY DEF Exit, Members
<1>4. \A c : ~Queued("Call", c)'
  BY DEF Exit, Queued
<1>5. Past' = DOMAIN calls
  BY <1>2, <1>3, <1>4 DEF Past
<1>6. status' # "Running"
  BY DEF Exit
<1>7. TheTopic!Quit
  BY <1>1, <1>3, <1>5, <1>6 DEF TheTopic!Quit
<1>. QED BY <1>7 DEF TheTopic!Next

LEMMA BroadcastReaches ==
    ASSUME PubSubAssumption, PubSubInv, Receive("Message"), NEW A \in SUBSET alive, Through(A)
    PROVE  /\ \E boxes \in SUBSET Members : TheTopic!Reaches(boxes)
           /\ A = alive => TheTopic!Reaches(Members)
<1> DEFINE Reached == {table[a] : a \in A \cap DOMAIN table}
<1>1. handled' = handled + 1
  BY ThroughTypes
<1>2. \A b : b \in Reached <=> \E a \in A \cap DOMAIN table : table[a] = b
  OBVIOUS
<1>3. got' = [b \in Box |-> IF b \in Reached THEN Append(got[b], handled') ELSE got[b]]
  BY <1>2, Zenon DEF Through
<1>4. TheTopic!Reaches(Reached)
  BY <1>1, <1>3, Zenon DEF TheTopic!Reaches
<1>5. Reached \subseteq Members /\ (A = alive => Reached = Members)
  BY DEF Members
<1>. QED BY <1>4, <1>5, Zenon

\* Neither an item of another type that comes nor one that goes is a request.
LEMMA OtherComes ==
    ASSUME NEW q \in Seq(Item), NEW i \in Item, i.type # "Call"
    PROVE  LET call(c) == [type |-> "Call", n |-> c]
           IN  \A c : (\E j \in DOMAIN Append(q, i) : Append(q, i)[j] = call(c))
                        <=> \E j \in DOMAIN q : q[j] = call(c)
<1> DEFINE p == Append(q, i)
<1>1. /\ Len(q) \in Nat /\ DOMAIN q = 1 .. Len(q) /\ p \in Seq(Item) /\ Len(p) = Len(q) + 1
      /\ p[Len(q) + 1] = i /\ \A j \in 1 .. Len(q) : p[j] = q[j]
  BY AppendProperties, LenProperties
<1> HIDE DEF p
<1>2. DOMAIN p = 1 .. Len(q) + 1
  BY <1>1, LenProperties
<1>3. \A c : (\E j \in DOMAIN p : p[j] = [type |-> "Call", n |-> c])
                <=> \E j \in DOMAIN q : q[j] = [type |-> "Call", n |-> c]
  BY <1>1, <1>2
<1>. QED BY <1>3 DEF p

LEMMA OtherGoes ==
    ASSUME NEW q \in Seq(Item), q # <<>>, Head(q).type # "Call"
    PROVE  LET call(c) == [type |-> "Call", n |-> c]
           IN  \A c : (\E j \in DOMAIN Tail(q) : Tail(q)[j] = call(c))
                        <=> \E j \in DOMAIN q : q[j] = call(c)
<1> DEFINE p == Tail(q)
<1>1. /\ Len(q) \in Nat \ {0} /\ DOMAIN q = 1 .. Len(q) /\ p \in Seq(Item)
      /\ Len(p) = Len(q) - 1 /\ Head(q) = q[1] /\ \A j \in 1 .. Len(p) : p[j] = q[j + 1]
  BY HeadTailProperties, EmptySeq, LenProperties
<1> HIDE DEF p
<1>2. DOMAIN p = 1 .. Len(q) - 1
  BY <1>1, LenProperties
<1>3. ASSUME NEW c, NEW j \in DOMAIN q, q[j] = [type |-> "Call", n |-> c]
      PROVE  \E h \in DOMAIN p : p[h] = [type |-> "Call", n |-> c]
  <2>1. j # 1
    BY <1>1, <1>3
  <2>2. j - 1 \in DOMAIN p /\ p[j - 1] = q[j]
    BY <1>1, <1>2, <2>1
  <2>. QED BY <1>3, <2>2
<1>4. ASSUME NEW c, NEW j \in DOMAIN p, p[j] = [type |-> "Call", n |-> c]
      PROVE  \E h \in DOMAIN q : q[h] = [type |-> "Call", n |-> c]
  <2>1. j + 1 \in DOMAIN q /\ p[j] = q[j + 1]
    BY <1>1, <1>2
  <2>. QED BY <1>4, <2>1
<1>. QED BY <1>3, <1>4 DEF p

\* Whatever else is taken out of the inbox, or added, no request is.
LEMMA OthersPass ==
    ASSUME PubSubAssumption, PubSubInv, UNCHANGED calls,
           \/ \E i \in Item : i.type # "Call" /\ inbox' = Append(inbox, i)
           \/ inbox # <<>> /\ Head(inbox).type # "Call" /\ inbox' = Tail(inbox)
           \/ UNCHANGED inbox
    PROVE  Taken' = Taken
<1>1. inbox \in Seq(Item)
  BY StateTypes DEF PubSubInv
<1>2. \A c : Queued("Call", c)' <=> Queued("Call", c)
  <2>1. CASE \E i \in Item : i.type # "Call" /\ inbox' = Append(inbox, i)
    BY <1>1, <2>1, OtherComes DEF Queued
  <2>2. CASE inbox # <<>> /\ Head(inbox).type # "Call" /\ inbox' = Tail(inbox)
    BY <1>1, <2>2, OtherGoes DEF Queued
  <2>3. CASE UNCHANGED inbox
    BY <2>3 DEF Queued
  <2>. QED BY <2>1, <2>2, <2>3
<1>. QED BY <1>2 DEF Taken

\* The request that was taken is the one at the head, and the k-th.
LEMMA RequestTaken ==
    ASSUME PubSubAssumption, PubSubInv, PubSubInv', NEW k \in 1 .. Len(calls),
           Receive("Call"), k = Head(inbox).n, inbox' = Tail(inbox), status' = status,
           Len(calls') = Len(calls), DOMAIN calls' = DOMAIN calls
    PROVE  k \notin Taken /\ Taken \subseteq Taken'
<1>1. /\ Numbered(inbox, "Call", k, Len(calls))
      /\ Numbered(Tail(inbox), "Call", k + 1, Len(calls))
  BY CallTaken
<1>2. /\ TypeOK /\ Len(calls) \in Nat /\ DOMAIN calls = 1 .. Len(calls)
      /\ inbox \in Seq(Item) /\ inbox # <<>>
  BY StateTypes DEF PubSubInv, Receive
<1>3. \A c : Queued("Call", c) <=> c \in k .. Len(calls)
  BY <1>1, <1>2, HandledIs
<1>4. ASSUME NEW c, Queued("Call", c)' PROVE Queued("Call", c)
  <2>1. /\ inbox' \in Seq(Item) /\ \A j \in 1 .. Len(inbox') : inbox'[j] = inbox[j + 1]
        /\ Len(inbox') = Len(inbox) - 1 /\ Len(inbox) \in Nat
    BY <1>2, HeadTailProperties, LenProperties
  <2>2. DOMAIN inbox' = 1 .. Len(inbox') /\ DOMAIN inbox = 1 .. Len(inbox)
    BY <1>2, <2>1, LenProperties
  <2>3. PICK j \in 1 .. Len(inbox') : inbox'[j] = [type |-> "Call", n |-> c]
    BY <1>4, <2>2 DEF Queued
  <2>4. j + 1 \in DOMAIN inbox /\ inbox'[j] = inbox[j + 1]
    BY <2>1, <2>2
  <2>. QED BY <2>3, <2>4 DEF Queued
<1>5. k \notin Taken
  BY <1>2, <1>3 DEF Taken
<1>. QED BY <1>4, <1>5 DEF Taken

LEMMA JoinChanges ==
    ASSUME PubSubAssumption, PubSubInv, PubSubInv', Join PROVE TheTopic!Next
<1>1. PICK k \in 1 .. Len(calls) : k = Head(inbox).n
  BY CallTaken DEF Join
<1>2. PICK a : a = calls[k].who
  OBVIOUS
<1>3. PICK answer : answer = JoinAnswer(a)
  OBVIOUS
<1>4. /\ Receive("Call") /\ inbox' = Tail(inbox)
      /\ table' = Inserted(a, k) /\ Answered(k, answer)
      /\ UNCHANGED <<status, alive, handled, got>>
  BY <1>1, <1>2, <1>3 DEF Join
<1>5. Len(calls') = Len(calls) /\ DOMAIN calls' = DOMAIN calls
  <2>1. answer \in Answer
    BY <1>3 DEF JoinAnswer, Answer
  <2>. QED BY <1>4, <2>1, AnsweredTypes DEF PubSubInv
<1>6. k \notin Taken /\ Taken \subseteq Taken'
  BY <1>1, <1>4, <1>5, RequestTaken
<1>7. Members' \subseteq Members \cup {k}
  BY <1>4 DEF Members, Inserted
<1>. QED BY <1>4, <1>6, <1>7, GroupChanges

LEMMA LeaveChanges ==
    ASSUME PubSubAssumption, PubSubInv, PubSubInv', Leave PROVE TheTopic!Next
<1>1. PICK k \in 1 .. Len(calls) : k = Head(inbox).n
  BY CallTaken DEF Leave
<1>2. PICK a : a = calls[k].who
  OBVIOUS
<1>3. PICK answer : answer = LeaveAnswer(a)
  OBVIOUS
<1>4. /\ Receive("Call") /\ inbox' = Tail(inbox)
      /\ table' = Restrict(table, DOMAIN table \ {a}) /\ Answered(k, answer)
      /\ UNCHANGED <<status, alive, handled, got>>
  BY <1>1, <1>2, <1>3 DEF Leave
<1>5. Len(calls') = Len(calls) /\ DOMAIN calls' = DOMAIN calls
  <2>1. answer \in Answer
    BY <1>3 DEF LeaveAnswer, Answer
  <2>. QED BY <1>4, <2>1, AnsweredTypes DEF PubSubInv
<1>6. Taken \subseteq Taken'
  BY <1>1, <1>4, <1>5, RequestTaken
<1>7. Members' \subseteq Members
  BY <1>4 DEF Members, Restrict
<1>. QED BY <1>4, <1>6, <1>7, GroupChanges

LEMMA AskChanges ==
    ASSUME PubSubAssumption, PubSubInv, PubSubInv',
           NEW op \in {"Join", "Leave"}, NEW a \in Actor, Ask(op, a)
    PROVE  TheTopic!Next
<1>1. /\ inbox \in Seq(Item) /\ calls \in Seq(Call) /\ Len(calls) \in Nat
      /\ DOMAIN calls = 1 .. Len(calls)
  BY StateTypes DEF PubSubInv
<1>2. DOMAIN calls \subseteq DOMAIN calls'
  <2>1. PICK call : calls' = Append(calls, call)
    BY DEF Ask
  <2>. QED BY <1>1, <2>1
<1>3. ASSUME NEW c \in DOMAIN calls, Queued("Call", c)' PROVE Queued("Call", c)
  <2>1. CASE Sent("Call", Len(calls) + 1)
    <3>1. [type |-> "Call", n |-> Len(calls) + 1] \in Item
      BY <1>1, ItemTypes
    <3>2. PICK q : q = inbox'
      OBVIOUS
    <3>3. /\ q \in Seq(Item) /\ Len(q) = Len(inbox) + 1 /\ Len(inbox) \in Nat
          /\ q[Len(inbox) + 1] = [type |-> "Call", n |-> Len(calls) + 1]
          /\ \A j \in 1 .. Len(inbox) : q[j] = inbox[j]
      BY <1>1, <2>1, <3>1, <3>2, AppendProperties, LenProperties DEF Sent
    <3>4. DOMAIN q = 1 .. Len(q) /\ DOMAIN inbox = 1 .. Len(inbox)
      BY <1>1, <3>3, LenProperties
    <3>5. PICK j \in 1 .. Len(q) : q[j] = [type |-> "Call", n |-> c]
      BY <1>3, <3>2, <3>4 DEF Queued
    <3>6. j # Len(inbox) + 1
      BY <1>1, <3>3, <3>5
    <3>7. j \in DOMAIN inbox /\ inbox[j] = q[j]
      BY <3>3, <3>4, <3>6
    <3>. QED BY <3>5, <3>7 DEF Queued
  <2>2. CASE UNCHANGED inbox
    BY <1>3, <2>2 DEF Queued
  <2>. QED BY <2>1, <2>2 DEF Ask
<1>4. Taken \subseteq Taken'
  BY <1>2, <1>3 DEF Taken
<1>5. UNCHANGED <<got, handled, status>> /\ Members' = Members
  BY DEF Ask, Members
<1>. QED BY <1>4, <1>5, GroupChanges

LEMMA TopicStep ==
    ASSUME PubSubAssumption, PubSubInv, PubSubInv', [Next]_vars
    PROVE  [TheTopic!Next]_(TheTopic!vars)
<1>1. CASE UNCHANGED vars
  <2>1. UNCHANGED <<Members, Past, got, handled, status>>
    BY <1>1 DEF vars, config, Members, Past, Queued
  <2>. QED BY <2>1 DEF TheTopic!vars
<1>2. CASE Publish
  <2>1. /\ [type |-> "Message", n |-> published + 1] \in Item
        /\ inbox' = Append(inbox, [type |-> "Message", n |-> published + 1])
        /\ UNCHANGED <<calls, table, alive, got, handled, status>>
    BY <1>2, ItemTypes, StateTypes DEF PubSubInv, Publish, Sent
  <2>2. Taken' = Taken /\ Members' = Members
    BY <2>1, OthersPass DEF Members
  <2>. QED BY <2>1, <2>2, GroupChanges
<1>3. CASE WatchFails
  <2>1. /\ inbox' = Append(inbox, [type |-> "FwError", n |-> 0])
        /\ UNCHANGED <<calls, table, alive, got, handled, status>>
    BY <1>3 DEF WatchFails, Sent
  <2>2. Taken' = Taken /\ Members' = Members
    BY <2>1, ItemTypes, OthersPass DEF Members
  <2>. QED BY <2>1, <2>2, GroupChanges
<1>4. CASE \E a \in Actor : Die(a)
  <2>1. UNCHANGED <<calls, inbox, table, got, handled, status>> /\ alive' \subseteq alive
    BY <1>4 DEF Die
  <2>2. Taken' = Taken /\ Members' \subseteq Members
    BY <2>1, OthersPass DEF Members
  <2>. QED BY <2>1, <2>2, GroupChanges
<1>5. CASE Stop
  BY <1>5, GroupQuits DEF Stop
<1>6. CASE FilewatcherError
  BY <1>6, GroupQuits DEF FilewatcherError, Receive
<1>7. CASE Broadcast
  <2>1. Receive("Message") /\ status = "Running" /\ inbox # <<>> /\ Head(inbox).type # "Call"
        /\ alive' = alive
    BY <1>7 DEF Broadcast, Receive
  <2>2. CASE Through(alive) /\ inbox' = Tail(inbox) /\ UNCHANGED <<status, table, calls>>
    <3>1. Taken' = Taken /\ Members' = Members
      BY <2>1, <2>2, OthersPass DEF Members
    <3>2. Past' = Past
      BY <2>2, <3>1 DEF Past, Taken
    <3>3. TheTopic!Reaches(Members)
      BY <2>1, <2>2, BroadcastReaches
    <3>4. TheTopic!Deliver
      BY <2>1, <2>2, <3>1, <3>2, <3>3, Zenon DEF TheTopic!Deliver
    <3>. QED BY <3>4 DEF TheTopic!Next
  <2>3. CASE Exit("Failed") /\ \E A \in SUBSET alive : Through(A)
    <3>1. \E boxes \in SUBSET Members : TheTopic!Reaches(boxes)
      BY <2>1, <2>3, BroadcastReaches
    <3>. QED BY <2>1, <2>3, <3>1, GroupQuits
  <2>. QED BY <1>7, <2>2, <2>3 DEF Broadcast
<1>. QED
  BY <1>1, <1>2, <1>3, <1>4, <1>5, <1>6, <1>7, JoinChanges, LeaveChanges, AskChanges DEF Next

\* A member of the group gets every message once and in order, nobody who was
\* replaced or removed gets another, and the last broadcast of all may be cut short.
THEOREM PubSubIsTopic == Spec => ImplementsTopic
<1>1. Init => PubSubInv /\ TheTopic!Init
  <2> SUFFICES ASSUME Init PROVE PubSubInv /\ TheTopic!Init
    OBVIOUS
  <2>1. PubSubInv
    BY InitInv, PubSubAssumption
  <2>2. Grouped
    BY <2>1, GroupTyped
  <2>. QED BY <2>1, <2>2 DEF Init, Grouped, TheTopic!Init
<1>2. PubSubInv /\ [Next]_vars => PubSubInv'
  BY InvStep, PubSubAssumption
<1>3. PubSubInv /\ PubSubInv' /\ [Next]_vars => [TheTopic!Next]_(TheTopic!vars)
  BY TopicStep, PubSubAssumption
<1>. QED BY <1>1, <1>2, <1>3, PTL DEF Spec, ImplementsTopic, TheTopic!Spec

-----------------------------------------------------------------------------
(* Nobody waits in vain.                                                   *)

\* Who waits for an answer waits for a watcher that runs, in whose inbox the request
\* is; and nobody was told of an error by an actor that runs.  This is the safety half
\* of CallsReturn.
CallsAreQueued ==
    \A c \in DOMAIN calls :
        /\ Waits(c) => status = "Running" /\ Queued("Call", c)
        /\ calls[c].answer = "Error" => status # "Running"

\* The broadcaster's requests are cast, and nobody waits for them.
AnswersOutstanding ==
    \A c \in DOMAIN calls :
        /\ calls[c].answer = "Waiting" => kind = "FileWatcher" /\ Queued("Call", c)
        /\ calls[c].answer = "Error" => status # "Running"

LEMMA OutstandingStays ==
    ASSUME PubSubAssumption, PubSubInv, AnswersOutstanding, Taken' = Taken,
           UNCHANGED <<kind, status, calls>>
    PROVE  AnswersOutstanding'
BY DEF AnswersOutstanding, Taken

LEMMA OutstandingDropped ==
    ASSUME PubSubAssumption, PubSubInv, AnswersOutstanding, UNCHANGED config,
           NEW s \in {"Stopped", "Failed"}, Exit(s)
    PROVE  AnswersOutstanding'
<1>1. TypeOK /\ DOMAIN calls' = DOMAIN calls
  BY ExitCalls DEF PubSubInv
<1>2. status' # "Running"
  BY DEF Exit
<1>3. ASSUME NEW c \in DOMAIN calls PROVE calls'[c].answer # "Waiting"
  <2>1. calls[c] \in Call
    BY <1>1, StateTypes
  <2>. QED BY <1>3, <2>1 DEF Exit, Call
<1>. QED BY <1>1, <1>2, <1>3 DEF AnswersOutstanding

LEMMA OutstandingAsked ==
    ASSUME PubSubAssumption, PubSubInv, AnswersOutstanding,
           NEW op \in {"Join", "Leave"}, NEW a \in Actor, Ask(op, a)
    PROVE  AnswersOutstanding'
<1>0. PICK n : n = Len(calls) + 1
  OBVIOUS
<1>1. /\ inbox \in Seq(Item) /\ calls \in Seq(Call) /\ Len(calls) \in Nat
      /\ DOMAIN calls = 1 .. Len(calls) /\ kind \in {"Broadcaster", "FileWatcher"}
      /\ UNCHANGED <<kind, status>>
  BY StateTypes DEF PubSubInv, TypeOK, Ask, config
<1>2. PICK call : calls' = Append(calls, call)
                  /\ \/ /\ status = "Running" /\ Sent("Call", n)
                        /\ call.answer = IF kind = "Broadcaster" THEN "None" ELSE "Waiting"
                     \/ status # "Running" /\ UNCHANGED inbox /\ call.answer = "Error"
  BY <1>0 DEF Ask
<1>3. /\ DOMAIN calls' = 1 .. n /\ calls'[n] = call
      /\ \A c \in 1 .. Len(calls) : calls'[c] = calls[c]
  BY <1>0, <1>1, <1>2
<1>4. ASSUME Sent("Call", n)
      PROVE  Queued("Call", n)' /\ \A c : Queued("Call", c) => Queued("Call", c)'
  <2>1. PICK q : q = inbox'
    OBVIOUS
  <2>2. [type |-> "Call", n |-> n] \in Item
    BY <1>0, <1>1, ItemTypes
  <2>3. /\ q \in Seq(Item) /\ Len(q) = Len(inbox) + 1 /\ Len(inbox) \in Nat
        /\ q[Len(inbox) + 1] = [type |-> "Call", n |-> n]
        /\ \A j \in 1 .. Len(inbox) : q[j] = inbox[j]
    BY <1>1, <1>4, <2>1, <2>2, AppendProperties, LenProperties DEF Sent
  <2>4. /\ DOMAIN inbox = 1 .. Len(inbox) /\ DOMAIN inbox \subseteq DOMAIN q
        /\ Len(inbox) + 1 \in DOMAIN q
    BY <1>1, <2>3, LenProperties
  <2>5. Queued("Call", n)'
    BY <2>1, <2>3, <2>4 DEF Queued
  <2>6. ASSUME NEW c, Queued("Call", c) PROVE Queued("Call", c)'
    BY <2>1, <2>3, <2>4, <2>6 DEF Queued
  <2>. QED BY <2>5, <2>6
<1>5. ASSUME NEW c \in 1 .. Len(calls)
      PROVE  /\ calls'[c].answer = "Waiting" => kind' = "FileWatcher" /\ Queued("Call", c)'
             /\ calls'[c].answer = "Error" => status' # "Running"
  <2>1. Queued("Call", c) => Queued("Call", c)'
    BY <1>2, <1>4 DEF Queued
  <2>. QED BY <1>1, <1>3, <1>5, <2>1 DEF AnswersOutstanding
<1>6. /\ calls'[n].answer = "Waiting" => kind' = "FileWatcher" /\ Queued("Call", n)'
      /\ calls'[n].answer = "Error" => status' # "Running"
  BY <1>1, <1>2, <1>3, <1>4
<1>7. \A c \in 1 .. n : c \in 1 .. Len(calls) \/ c = n
  BY <1>0, <1>1
<1>. QED BY <1>3, <1>5, <1>6, <1>7 DEF AnswersOutstanding

\* The request that is handled is answered, and those behind it stay in the inbox.
LEMMA OutstandingAnswered ==
    ASSUME PubSubAssumption, PubSubInv, AnswersOutstanding, Receive("Call"),
           NEW answer \in {"Ok", "Duplicate", "NotFound"}, Answered(Head(inbox).n, answer),
           inbox' = Tail(inbox), UNCHANGED <<config, status>>
    PROVE  AnswersOutstanding'
<1>1. PICK k \in 1 .. Len(calls) :
            /\ k = Head(inbox).n
            /\ Numbered(inbox, "Call", k, Len(calls))
            /\ Tail(inbox) \in Seq(Item)
            /\ Numbered(Tail(inbox), "Call", k + 1, Len(calls))
  BY CallTaken
<1>2. /\ TypeOK /\ Len(calls) \in Nat /\ DOMAIN calls = 1 .. Len(calls)
      /\ kind \in {"Broadcaster", "FileWatcher"} /\ UNCHANGED <<kind, status>>
  BY StateTypes DEF PubSubInv, TypeOK, config
<1>3. /\ DOMAIN calls' = DOMAIN calls
      /\ \A d \in 1 .. Len(calls) : d # k => calls'[d] = calls[d]
      /\ kind = "FileWatcher" => calls'[k].answer = answer
      /\ kind # "FileWatcher" => calls' = calls
  <2>1. answer \in Answer /\ Answered(k, answer)
    BY <1>1 DEF Answer
  <2>. QED BY <1>2, <2>1, AnsweredTypes DEF Answered
<1>4. ASSUME NEW c \in 1 .. Len(calls), c # k, Queued("Call", c) PROVE Queued("Call", c)'
  <2>1. c \in k .. Len(calls)
    BY <1>1, <1>2, <1>4, HandledIs
  <2>2. c \in k + 1 .. Len(calls)
    BY <1>2, <1>4, <2>1
  <2>3. \E i \in 1 .. Len(Tail(inbox)) : Tail(inbox)[i] = [type |-> "Call", n |-> c]
    BY <1>1, <2>2 DEF Numbered
  <2>4. DOMAIN Tail(inbox) = 1 .. Len(Tail(inbox))
    BY <1>1, LenProperties
  <2>. QED BY <2>3, <2>4 DEF Queued
<1>5. ASSUME NEW c \in 1 .. Len(calls)
      PROVE  /\ calls'[c].answer = "Waiting" => kind' = "FileWatcher" /\ Queued("Call", c)'
             /\ calls'[c].answer = "Error" => status' # "Running"
  <2>1. CASE c = k /\ kind = "FileWatcher"
    BY <1>3, <2>1
  <2>2. CASE kind # "FileWatcher"
    BY <1>2, <1>3, <2>2 DEF AnswersOutstanding
  <2>3. CASE c # k
    BY <1>2, <1>3, <1>4, <2>3 DEF AnswersOutstanding
  <2>. QED BY <2>1, <2>2, <2>3
<1>. QED BY <1>2, <1>3, <1>5 DEF AnswersOutstanding

LEMMA OutstandingStep ==
    ASSUME PubSubAssumption, PubSubInv, AnswersOutstanding, [Next]_vars
    PROVE  AnswersOutstanding'
<1>1. CASE Publish
  <2>1. /\ [type |-> "Message", n |-> published + 1] \in Item
        /\ inbox' = Append(inbox, [type |-> "Message", n |-> published + 1])
        /\ UNCHANGED <<kind, calls, status>>
    BY <1>1, ItemTypes, StateTypes DEF PubSubInv, Publish, Sent, config
  <2>. QED BY <2>1, OthersPass, OutstandingStays
<1>2. CASE WatchFails
  <2>1. /\ inbox' = Append(inbox, [type |-> "FwError", n |-> 0])
        /\ UNCHANGED <<kind, calls, status>>
    BY <1>2 DEF WatchFails, Sent, config
  <2>. QED BY <2>1, ItemTypes, OthersPass, OutstandingStays
<1>3. CASE UNCHANGED vars \/ \E a \in Actor : Die(a)
  <2>1. UNCHANGED <<inbox, kind, calls, status>>
    BY <1>3 DEF Die, vars, config
  <2>. QED BY <2>1, OthersPass, OutstandingStays
<1>4. CASE Stop \/ FilewatcherError
  BY <1>4, OutstandingDropped DEF Stop, FilewatcherError
<1>5. CASE Broadcast
  <2>1. inbox # <<>> /\ Head(inbox).type # "Call" /\ UNCHANGED config /\ UNCHANGED kind
    BY <1>5 DEF Broadcast, Receive, config
  <2>2. CASE inbox' = Tail(inbox) /\ UNCHANGED <<status, table, calls>>
    BY <2>1, <2>2, OthersPass, OutstandingStays
  <2>3. CASE Exit("Failed")
    BY <2>1, <2>3, OutstandingDropped
  <2>. QED BY <1>5, <2>2, <2>3 DEF Broadcast
<1>6. CASE Join
  <2>1. PICK answer : answer = JoinAnswer(calls[Head(inbox).n].who)
    OBVIOUS
  <2>2. answer \in {"Ok", "Duplicate", "NotFound"}
    BY <2>1 DEF JoinAnswer
  <2>3. /\ Receive("Call") /\ inbox' = Tail(inbox) /\ Answered(Head(inbox).n, answer)
        /\ UNCHANGED <<config, status>>
    BY <1>6, <2>1 DEF Join
  <2>. QED BY <2>2, <2>3, OutstandingAnswered
<1>7. CASE Leave
  <2>1. PICK answer : answer = LeaveAnswer(calls[Head(inbox).n].who)
    OBVIOUS
  <2>2. answer \in {"Ok", "Duplicate", "NotFound"}
    BY <2>1 DEF LeaveAnswer
  <2>3. /\ Receive("Call") /\ inbox' = Tail(inbox) /\ Answered(Head(inbox).n, answer)
        /\ UNCHANGED <<config, status>>
    BY <1>7, <2>1 DEF Leave
  <2>. QED BY <2>2, <2>3, OutstandingAnswered
<1>. QED BY <1>1, <1>2, <1>3, <1>4, <1>5, <1>6, <1>7, OutstandingAsked DEF Next

\* Nobody waits for an answer that cannot come any more, and an error is told only
\* by an actor that is gone (filewatcher subscribe, unsubscribe, filewatcher_error).
THEOREM NobodyWaitsInVain == Spec => []CallsAreQueued
<1>1. Init => AnswersOutstanding
  <2> SUFFICES ASSUME Init, NEW c \in DOMAIN calls PROVE calls[c].answer = "None"
    BY DEF AnswersOutstanding
  <2>. QED BY EmptySeq DEF Init
<1>2. PubSubInv /\ AnswersOutstanding /\ [Next]_vars => AnswersOutstanding'
  BY OutstandingStep, PubSubAssumption
<1>3. PubSubInv /\ AnswersOutstanding => CallsAreQueued
  <2> SUFFICES ASSUME PubSubInv, AnswersOutstanding, NEW c \in DOMAIN calls
               PROVE  /\ Waits(c) => status = "Running" /\ Queued("Call", c)
                      /\ calls[c].answer = "Error" => status # "Running"
    BY DEF CallsAreQueued
  <2>1. Queued("Call", c) => status = "Running"
    BY EmptySeq DEF PubSubInv, Queued
  <2>. QED BY <2>1 DEF AnswersOutstanding, Waits
<1>. QED BY <1>1, <1>2, <1>3, PubSubInvariant, PTL DEF Spec
=============================================================================
