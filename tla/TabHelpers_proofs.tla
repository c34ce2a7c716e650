------------------------- MODULE TabHelpers_proofs -------------------------
(***************************************************************************)
(* Proofs about the parts of Helpers that follow the tabs of the browser, for *)
(* every value of their constants: WebMcp, where each call of a tool of a      *)
(* website is answered by its own invocation, and TabGroups, where the group    *)
(* of a tab follows its owner.                                                *)
(***************************************************************************)
EXTENDS Helpers, Sequences, FiniteSetTheorems, TLAPS

-----------------------------------------------------------------------------
(* The tools of a website: no answer is lost.                              *)

(* The parts of the invariant.                                               *)
LEMMA ToolsParts ==
  ASSUME Tools!ToolsInv
  PROVE  /\ Tools!TypeOK /\ Tools!CallsOK /\ (x3.disposed => x3.channels = {})
         /\ Tools!InOrder(x2) /\ Tools!AnswersAreDue(x4, Tools!OnWire(x2))
         /\ Tools!Numbered(x4, Tools!OnWire(x2), x1.invocations)
         /\ Tools!Distinct(x4, Tools!OnWire(x2)) /\ Tools!NoneIsLost(x4, Tools!OnWire(x2), x1.running, x3)
         /\ Tools!NewIframeIsUnknown(x1, Tools!OnWire(x2), x3, x4)
  BY DEF Tools!ToolsInv

(* What is said goes to the end of the wire.                                 *)
LEMMA WireGrows ==
  ASSUME NEW w \in Seq(Tools!Message), NEW s \in Seq(Tools!Message), Tools!InOrder(w), Tools!InOrder(s),
         \A m \in Tools!OnWire(w), n \in Tools!OnWire(s) : ~ Tools!Clash(m, n)
  PROVE  /\ w \o s \in Seq(Tools!Message) /\ Tools!InOrder(w \o s)
         /\ Tools!OnWire(w \o s) = Tools!OnWire(w) \cup Tools!OnWire(s)
  <1> DEFINE v == w \o s
  <1>1. PICK p \in Nat, q \in Nat : p = Len(w) /\ q = Len(s)
    OBVIOUS
  <1>2. /\ v \in Seq(Tools!Message) /\ Len(v) = p + q
        /\ \A i \in 1 .. p : v[i] = w[i]
        /\ \A i \in 1 .. q : v[p + i] = s[i]
        /\ \A i \in (p + 1) .. (p + q) : v[i] = s[i - p] /\ i - p \in 1 .. q
    BY <1>1
  <1>3. DOMAIN w = 1 .. p /\ DOMAIN s = 1 .. q /\ DOMAIN v = 1 .. (p + q)
    BY <1>1, <1>2
  <1> HIDE DEF v
  <1>4. \A i \in DOMAIN v : i \in 1 .. p \/ i \in (p + 1) .. (p + q)
    BY <1>3
  <1>5. Tools!OnWire(v) = Tools!OnWire(w) \cup Tools!OnWire(s)
    <2>1. \A m \in Tools!OnWire(v) : m \in Tools!OnWire(w) \cup Tools!OnWire(s)
      BY <1>2, <1>3, <1>4 DEF Tools!OnWire
    <2>2. \A m \in Tools!OnWire(w) : m \in Tools!OnWire(v)
      <3> SUFFICES ASSUME NEW i \in 1 .. p PROVE w[i] \in Tools!OnWire(v)
        BY <1>3 DEF Tools!OnWire
      <3>1. i \in DOMAIN v /\ v[i] = w[i]
        BY <1>2, <1>3
      <3> QED
        BY <3>1 DEF Tools!OnWire
    <2>3. \A m \in Tools!OnWire(s) : m \in Tools!OnWire(v)
      <3> SUFFICES ASSUME NEW i \in 1 .. q PROVE s[i] \in Tools!OnWire(v)
        BY <1>3 DEF Tools!OnWire
      <3>1. p + i \in DOMAIN v /\ v[p + i] = s[i]
        BY <1>2, <1>3
      <3> QED
        BY <3>1 DEF Tools!OnWire
    <2> QED
      BY <2>1, <2>2, <2>3
  <1>6. Tools!InOrder(v)
    <2> SUFFICES ASSUME NEW i \in DOMAIN v, NEW j \in DOMAIN v, i < j PROVE ~ Tools!Clash(v[i], v[j])
      BY DEF Tools!InOrder
    <2>1. CASE j \in 1 .. p
      <3>1. i \in 1 .. p /\ v[i] = w[i] /\ v[j] = w[j]
        BY <1>2, <1>3, <2>1
      <3> QED
        BY <1>3, <2>1, <3>1 DEF Tools!InOrder
    <2>2. CASE i \in 1 .. p /\ j \in (p + 1) .. (p + q)
      <3>1. v[i] = w[i] /\ v[j] = s[j - p] /\ j - p \in 1 .. q
        BY <1>2, <2>2
      <3>2. v[i] \in Tools!OnWire(w) /\ v[j] \in Tools!OnWire(s)
        BY <1>3, <2>2, <3>1 DEF Tools!OnWire
      <3> QED
        BY <3>2
    <2>3. CASE i \in (p + 1) .. (p + q) /\ j \in (p + 1) .. (p + q)
      <3>1. /\ v[i] = s[i - p] /\ v[j] = s[j - p] /\ i - p \in DOMAIN s /\ j - p \in DOMAIN s /\ i - p < j - p
        BY <1>2, <1>3, <2>3
      <3> QED
        BY <3>1 DEF Tools!InOrder
    <2> QED
      BY <1>3, <1>4, <2>1, <2>2, <2>3
  <1> QED
    BY <1>2, <1>5, <1>6 DEF v

(* What is heard is what was said first.                                    *)
LEMMA WireShrinks ==
  ASSUME NEW w \in Seq(Tools!Message), w # <<>>, Tools!InOrder(w)
  PROVE  /\ Tail(w) \in Seq(Tools!Message) /\ Tools!InOrder(Tail(w))
         /\ Head(w) \in Tools!Message
         /\ Tools!OnWire(w) = {Head(w)} \cup Tools!OnWire(Tail(w))
         /\ \A n \in Tools!OnWire(Tail(w)) : ~ Tools!Clash(Head(w), n)
  <1> DEFINE v == Tail(w)
  <1>1. PICK p \in Nat : p = Len(w)
    OBVIOUS
  <1>2. /\ p # 0 /\ v \in Seq(Tools!Message) /\ Len(v) = p - 1 /\ Head(w) = w[1]
        /\ \A i \in 1 .. (p - 1) : v[i] = w[i + 1]
    BY <1>1
  <1>3. DOMAIN w = 1 .. p /\ DOMAIN v = 1 .. (p - 1) /\ 1 \in DOMAIN w
    BY <1>1, <1>2
  <1> HIDE DEF v
  <1>4. Tools!InOrder(v)
    <2> SUFFICES ASSUME NEW i \in DOMAIN v, NEW j \in DOMAIN v, i < j PROVE ~ Tools!Clash(v[i], v[j])
      BY DEF Tools!InOrder
    <2>1. i + 1 \in DOMAIN w /\ j + 1 \in DOMAIN w /\ i + 1 < j + 1 /\ v[i] = w[i + 1] /\ v[j] = w[j + 1]
      BY <1>2, <1>3
    <2> QED
      BY <2>1 DEF Tools!InOrder
  <1>5. Head(w) \in Tools!Message /\ Head(w) \in Tools!OnWire(w)
    BY <1>2, <1>3 DEF Tools!OnWire
  <1>6. \A n \in Tools!OnWire(v) : n \in Tools!OnWire(w) /\ ~ Tools!Clash(Head(w), n)
    <2> SUFFICES ASSUME NEW i \in DOMAIN v PROVE v[i] \in Tools!OnWire(w) /\ ~ Tools!Clash(Head(w), v[i])
      BY DEF Tools!OnWire
    <2>1. i + 1 \in DOMAIN w /\ 1 < i + 1 /\ v[i] = w[i + 1]
      BY <1>2, <1>3
    <2> QED
      BY <1>2, <1>3, <2>1 DEF Tools!OnWire, Tools!InOrder
  <1>7. \A m \in Tools!OnWire(w) : m = Head(w) \/ m \in Tools!OnWire(v)
    <2> SUFFICES ASSUME NEW i \in DOMAIN w PROVE w[i] = Head(w) \/ w[i] \in Tools!OnWire(v)
      BY DEF Tools!OnWire
    <2>1. CASE i = 1
      BY <1>2, <2>1
    <2>2. CASE i # 1
      <3>1. i - 1 \in DOMAIN v /\ v[i - 1] = w[i]
        BY <1>2, <1>3, <2>2
      <3> QED
        BY <3>1 DEF Tools!OnWire
    <2> QED
      BY <2>1, <2>2
  <1>8. Tools!OnWire(w) = {Head(w)} \cup Tools!OnWire(v)
    BY <1>5, <1>6, <1>7
  <1> QED
    BY <1>2, <1>4, <1>5, <1>6, <1>8 DEF v

(* One message.                                                            *)
LEMMA OneMessage ==
  ASSUME NEW m \in Tools!Message, NEW w \in Seq(Tools!Message)
  PROVE  /\ <<m>> \in Seq(Tools!Message) /\ Tools!OnWire(<<m>>) = {m} /\ Tools!InOrder(<<m>>)
         /\ Append(w, m) = w \o <<m>>
  <1>1. <<m>> \in Seq(Tools!Message) /\ Append(w, m) = w \o <<m>>
    OBVIOUS
  <1>2. DOMAIN <<m>> = {1} /\ <<m>>[1] = m
    OBVIOUS
  <1>3. Tools!OnWire(<<m>>) = {m}
    BY <1>2 DEF Tools!OnWire
  <1>4. Tools!InOrder(<<m>>)
    BY <1>2 DEF Tools!InOrder
  <1> QED
    BY <1>1, <1>3, <1>4

(* Nothing said.                                                            *)
LEMMA NoMessage ==
  ASSUME NEW w \in Seq(Tools!Message)
  PROVE  /\ <<>> \in Seq(Tools!Message) /\ Tools!OnWire(<<>>) = {} /\ Tools!InOrder(<<>>) /\ w = w \o <<>>
  <1>1. <<>> \in Seq(Tools!Message) /\ w = w \o <<>> /\ DOMAIN <<>> = {}
    OBVIOUS
  <1> QED
    BY <1>1 DEF Tools!OnWire, Tools!InOrder

(* A set of messages, in some order.                                         *)
LEMMA SetOfMessages ==
  ASSUME NEW S \in SUBSET Tools!Message, IsFiniteSet(S), \A m, n \in S : m # n => ~ Tools!Clash(m, n)
  PROVE  /\ Tools!SetToSeq(S) \in Seq(Tools!Message) /\ Tools!OnWire(Tools!SetToSeq(S)) = S
         /\ Tools!InOrder(Tools!SetToSeq(S))
  <1> DEFINE f == Tools!SetToSeq(S)
  <1>1. Tools!Cardinality(S) = Cardinality(S)
    BY DEF Tools!Cardinality, Cardinality
  <1>2. Cardinality(S) \in Nat /\ ExistsBijection(1 .. Cardinality(S), S)
    BY FS_CardinalityType
  <1>3. PICK g : g \in [1 .. Cardinality(S) -> S] /\ Tools!IsInjective(g)
    BY <1>2 DEF ExistsBijection, Bijection, Injection, Surjection, IsInjective, Tools!IsInjective
  <1>4. f \in [1 .. Cardinality(S) -> S] /\ Tools!IsInjective(f)
    BY <1>1, <1>3 DEF Tools!SetToSeq
  <1> HIDE DEF f
  <1>8. f \in Bijection(1 .. Cardinality(S), S)
    <2>1. f \in Injection(1 .. Cardinality(S), S)
      BY <1>4 DEF Injection, IsInjective, Tools!IsInjective
    <2>2. Cardinality(1 .. Cardinality(S)) = Cardinality(S)
      BY <1>2, FS_Interval
    <2> QED
      BY <2>1, <2>2, FS_Injection DEF Bijection
  <1>5. f \in Seq(Tools!Message)
    BY <1>2, <1>4
  <1>6. Tools!OnWire(f) = S
    <2>1. Tools!OnWire(f) \subseteq S
      BY <1>4 DEF Tools!OnWire
    <2>2. \A m \in S : \E i \in 1 .. Cardinality(S) : f[i] = m
      BY <1>8 DEF Bijection, Surjection
    <2> QED
      BY <1>4, <2>1, <2>2 DEF Tools!OnWire
  <1>7. Tools!InOrder(f)
    <2> SUFFICES ASSUME NEW i \in DOMAIN f, NEW j \in DOMAIN f, i < j PROVE ~ Tools!Clash(f[i], f[j])
      BY DEF Tools!InOrder
    <2>1. i # j /\ f[i] \in S /\ f[j] \in S
      BY <1>2, <1>4
    <2>2. f[i] # f[j]
      BY <1>4, <2>1 DEF Tools!IsInjective
    <2> QED
      BY <2>1, <2>2
  <1> QED
    BY <1>5, <1>6, <1>7 DEF f

(* The message said last is on the wire.                                         *)
LEMMA LastOnWire ==
  ASSUME NEW m \in Tools!Message, NEW w \in Seq(Tools!Message)
  PROVE  m \in Tools!OnWire(w \o <<m>>)
  <1>1. PICK p \in Nat : p = Len(w)
    OBVIOUS
  <1>2. p + 1 \in DOMAIN (w \o <<m>>) /\ (w \o <<m>>)[p + 1] = m
    BY <1>1
  <1> QED
    BY <1>2 DEF Tools!OnWire

(* A call goes on waiting as before, or does not wait any more.                                   *)
StillWait(k, k2) == \A c \in ToolCall :
  \/ /\ k2[c].pc = k[c].pc /\ k2[c].id = k[c].id /\ k2[c].channel = k[c].channel
     /\ k[c].cancellation = "sent" => k2[c].cancellation = "sent"
     /\ Tools!Abandoned(k[c]) => Tools!Abandoned(k2[c])
  \/ ~ Tools!Live(k2[c]) /\ k[c].pc # "invoked"

(* What a waiting call has to hear of is not forgotten.                                   *)
Remembers(k, k2, r, r2, m2, o, o2) == \A c \in ToolCall : Tools!Live(k2[c]) /\ ~ Tools!Abandoned(k2[c]) =>
  /\ \A n \in Nat : [channel |-> k[c].channel, id |-> n, by |-> c] \in r =>
       \/ [channel |-> k[c].channel, id |-> n, by |-> c] \in r2
       \/ \E a \in m2 : a.kind = "responded" /\ a.channel = k[c].channel /\ a.number = n
  /\ k2[c].channel \in o2.channels =>
       k2[c].channel \in o.channels /\ (o.dropped => o2.dropped) /\ o.early \subseteq o2.early

(* The calls that wait afterwards have waited for the same invocation before.                                   *)
LEMMA StillWaits ==
  ASSUME NEW k \in [ToolCall -> Tools!CallRecord], NEW k2 \in [ToolCall -> Tools!CallRecord], NEW m, NEW m2, NEW last,
         \A c \in ToolCall : \A a : Tools!Answers(a, c) => (a \in m <=> a \in m2),
         StillWait(k, k2), Tools!AnswersAreDue(k, m), Tools!Numbered(k, m, last), Tools!Distinct(k, m)
  PROVE  /\ Tools!AnswersAreDue(k2, m2) /\ Tools!Numbered(k2, m2, last) /\ Tools!Distinct(k2, m2)
         /\ \A c \in ToolCall, n \in Nat : Tools!Waits(k2, m2, c, n) =>
              /\ Tools!Waits(k, m, c, n) /\ Tools!Live(k2[c])
              /\ k2[c].pc = k[c].pc /\ k2[c].channel = k[c].channel
              /\ k[c].cancellation = "sent" => k2[c].cancellation = "sent"
              /\ Tools!Abandoned(k[c]) => Tools!Abandoned(k2[c])
  <1>1. Tools!AnswersAreDue(k2, m2)
    BY DEF Tools!AnswersAreDue, Tools!Live, StillWait
  <1>2. ASSUME NEW c \in ToolCall, NEW n \in Nat, Tools!Waits(k2, m2, c, n)
        PROVE  /\ Tools!Waits(k, m, c, n) /\ Tools!Live(k2[c])
               /\ k2[c].pc = k[c].pc /\ k2[c].channel = k[c].channel
               /\ k[c].cancellation = "sent" => k2[c].cancellation = "sent"
               /\ Tools!Abandoned(k[c]) => Tools!Abandoned(k2[c])
    <2>1. Tools!Live(k2[c])
      BY <1>1, <1>2 DEF Tools!Waits, Tools!Live, Tools!AnswersAreDue, Tools!Tells
    <2>2. /\ k2[c].pc = k[c].pc /\ k2[c].id = k[c].id /\ k2[c].channel = k[c].channel
          /\ k[c].cancellation = "sent" => k2[c].cancellation = "sent"
          /\ Tools!Abandoned(k[c]) => Tools!Abandoned(k2[c])
      BY <2>1 DEF StillWait
    <2>3. Tools!Waits(k, m, c, n)
      BY <1>2, <2>2 DEF Tools!Waits, Tools!Tells
    <2> QED
      BY <2>1, <2>2, <2>3
  <1>3. Tools!Numbered(k2, m2, last)
    <2> SUFFICES ASSUME NEW c \in ToolCall, NEW n \in Nat, Tools!Waits(k2, m2, c, n)
                 PROVE  n \in 1 .. last[k2[c].channel]
      BY DEF Tools!Numbered
    <2>1. Tools!Waits(k, m, c, n) /\ k2[c].channel = k[c].channel
      BY <1>2
    <2> QED
      BY <2>1 DEF Tools!Numbered
  <1>4. Tools!Distinct(k2, m2)
    <2> SUFFICES ASSUME NEW c \in ToolCall, NEW d \in ToolCall, NEW n \in Nat, Tools!Waits(k2, m2, c, n),
                        Tools!Waits(k2, m2, d, n), k2[c].channel = k2[d].channel
                 PROVE  c = d
      BY DEF Tools!Distinct
    <2>1. Tools!Waits(k, m, c, n) /\ k2[c].channel = k[c].channel
      BY <1>2
    <2>2. Tools!Waits(k, m, d, n) /\ k2[d].channel = k[d].channel
      BY <1>2
    <2> QED
      BY <2>1, <2>2 DEF Tools!Distinct
  <1> QED
    BY <1>1, <1>2, <1>3, <1>4

(* Then no answer is lost.                                              *)
LEMMA CallsMove ==
  ASSUME NEW k \in [ToolCall -> Tools!CallRecord], NEW k2 \in [ToolCall -> Tools!CallRecord],
         NEW m, NEW m2, NEW r, NEW r2, NEW o, NEW o2, NEW last,
         \A c \in ToolCall : \A a : Tools!Answers(a, c) => (a \in m <=> a \in m2),
         \A a \in m : a.kind = "responded" => a \in m2,
         StillWait(k, k2), Remembers(k, k2, r, r2, m2, o, o2),
         Tools!AnswersAreDue(k, m), Tools!Numbered(k, m, last), Tools!Distinct(k, m), Tools!NoneIsLost(k, m, r, o)
  PROVE  /\ Tools!AnswersAreDue(k2, m2) /\ Tools!Numbered(k2, m2, last) /\ Tools!Distinct(k2, m2)
         /\ Tools!NoneIsLost(k2, m2, r2, o2)
  <1>1. /\ Tools!AnswersAreDue(k2, m2) /\ Tools!Numbered(k2, m2, last) /\ Tools!Distinct(k2, m2)
        /\ \A c \in ToolCall, n \in Nat : Tools!Waits(k2, m2, c, n) =>
             /\ Tools!Waits(k, m, c, n) /\ Tools!Live(k2[c])
             /\ k2[c].pc = k[c].pc /\ k2[c].channel = k[c].channel
             /\ k[c].cancellation = "sent" => k2[c].cancellation = "sent"
             /\ Tools!Abandoned(k[c]) => Tools!Abandoned(k2[c])
    BY StillWaits
  <1>2. Tools!NoneIsLost(k2, m2, r2, o2)
    <2> SUFFICES ASSUME NEW c \in ToolCall, NEW n \in Nat, Tools!Waits(k2, m2, c, n), k2[c].channel \in o2.channels,
                        ~ Tools!Abandoned(k2[c])
                 PROVE  Tools!Kept(k2, m2, r2, o2, c, n)
      BY DEF Tools!NoneIsLost
    <2>1. /\ Tools!Waits(k, m, c, n) /\ Tools!Live(k2[c])
          /\ k2[c].pc = k[c].pc /\ k2[c].channel = k[c].channel
          /\ k[c].cancellation = "sent" => k2[c].cancellation = "sent"
          /\ ~ Tools!Abandoned(k[c])
      BY <1>1
    <2>2. k[c].channel \in o.channels /\ (o.dropped => o2.dropped) /\ o.early \subseteq o2.early
      BY <2>1 DEF Remembers
    <2>3. Tools!Kept(k, m, r, o, c, n)
      BY <2>1, <2>2 DEF Tools!NoneIsLost
    <2>4. CASE [channel |-> k[c].channel, id |-> n, by |-> c] \in r
      BY <2>1, <2>4 DEF Tools!Kept, Remembers
    <2>5. CASE \E a \in m : a.kind = "responded" /\ a.channel = k[c].channel /\ a.number = n
      BY <2>1, <2>5 DEF Tools!Kept
    <2>6. CASE k[c].pc # "pending" /\ Tools!Key(k[c].channel, n) \in o.early
      BY <2>1, <2>2, <2>6 DEF Tools!Kept
    <2>7. CASE k[c].cancellation = "sent" \/ o.dropped
      BY <2>1, <2>2, <2>7 DEF Tools!Kept
    <2> QED
      BY <2>3, <2>4, <2>5, <2>6, <2>7 DEF Tools!Kept
  <1> QED
    BY <1>1, <1>2

(* A step that says something after what is on the wire, but answers no call.                                *)
LEMMA ToolsSpeak ==
  ASSUME Tools!ToolsInv, Tools!TypeOK', Tools!CallsOK', NEW s \in Seq(Tools!Message), x2' = x2 \o s, Tools!InOrder(s),
         \A n \in Tools!OnWire(s) :
           /\ \A c \in ToolCall : ~ Tools!Answers(n, c)
           /\ n.kind = "attached" => ~ x1.hadIframe
           /\ Tools!OfIframe(n) => x1.hadIframe,
         x1'.invocations = x1.invocations, x1.hadIframe => x1'.hadIframe,
         ~ x1'.hadIframe => x1'.tool[Iframe] = 0 /\ Iframe \notin x1'.attached,
         x3'.disposed => x3'.channels = {}, x3'.tools \subseteq x3.tools,
         \A c \in ToolCall : x4'[c].channel = x4[c].channel,
         StillWait(x4, x4'), Remembers(x4, x4', x1.running, x1'.running, Tools!OnWire(x2'), x3, x3')
  PROVE  Tools!ToolsInv'
  <1>1. x2 \in Seq(Tools!Message) /\ x4 \in [ToolCall -> Tools!CallRecord] /\ x4' \in [ToolCall -> Tools!CallRecord]
    BY ToolsParts DEF Tools!TypeOK
  <1>2. \A m \in Tools!OnWire(x2), n \in Tools!OnWire(s) : ~ Tools!Clash(m, n)
    <2> SUFFICES ASSUME NEW m \in Tools!OnWire(x2), NEW n \in Tools!OnWire(s), Tools!Clash(m, n) PROVE FALSE
      OBVIOUS
    <2>1. Tools!OfIframe(m) /\ ~ x1.hadIframe
      BY DEF Tools!Clash
    <2> QED
      BY <2>1, ToolsParts DEF Tools!NewIframeIsUnknown
  <1>3. Tools!InOrder(x2') /\ Tools!OnWire(x2') = Tools!OnWire(x2) \cup Tools!OnWire(s)
    BY <1>1, <1>2, WireGrows, ToolsParts
  <1>4. /\ Tools!AnswersAreDue(x4', Tools!OnWire(x2')) /\ Tools!Numbered(x4', Tools!OnWire(x2'), x1.invocations)
        /\ Tools!Distinct(x4', Tools!OnWire(x2'))
        /\ Tools!NoneIsLost(x4', Tools!OnWire(x2'), x1'.running, x3')
    <2>1. \A c \in ToolCall : \A a : Tools!Answers(a, c) => (a \in Tools!OnWire(x2) <=> a \in Tools!OnWire(x2'))
      BY <1>3
    <2>2. \A a \in Tools!OnWire(x2) : a.kind = "responded" => a \in Tools!OnWire(x2')
      BY <1>3
    <2> QED
      BY <1>1, <2>1, <2>2, CallsMove, ToolsParts
  <1>5. Tools!NewIframeIsUnknown(x1', Tools!OnWire(x2'), x3', x4')
    BY <1>3, ToolsParts DEF Tools!NewIframeIsUnknown, Tools!IframeIsNew
  <1> QED
    BY <1>3, <1>4, <1>5 DEF Tools!ToolsInv

(* A step that says nothing.                                                  *)
LEMMA ToolsQuiet ==
  ASSUME Tools!ToolsInv, Tools!TypeOK', Tools!CallsOK', x2' = x2,
         x1'.invocations = x1.invocations, x1'.hadIframe = x1.hadIframe,
         x1'.tool = x1.tool, x1'.attached = x1.attached,
         x3'.disposed => x3'.channels = {}, x3'.tools \subseteq x3.tools,
         \A c \in ToolCall : x4'[c].channel = x4[c].channel \/ x4'[c].channel = Main
                               \/ \E t \in x3.tools : x4'[c].channel = Tools!ChannelOf(t.frame),
         StillWait(x4, x4'), Remembers(x4, x4', x1.running, x1'.running, Tools!OnWire(x2), x3, x3')
  PROVE  Tools!ToolsInv'
  <1>1. x4 \in [ToolCall -> Tools!CallRecord] /\ x4' \in [ToolCall -> Tools!CallRecord]
    BY ToolsParts DEF Tools!TypeOK
  <1>2. /\ Tools!AnswersAreDue(x4', Tools!OnWire(x2)) /\ Tools!Numbered(x4', Tools!OnWire(x2), x1.invocations)
        /\ Tools!Distinct(x4', Tools!OnWire(x2))
        /\ Tools!NoneIsLost(x4', Tools!OnWire(x2), x1'.running, x3')
    BY <1>1, CallsMove, ToolsParts
  <1>3. Tools!NewIframeIsUnknown(x1', Tools!OnWire(x2), x3', x4')
    BY ToolsParts, ToolsAssumption DEF Tools!NewIframeIsUnknown, Tools!ChannelOf
  <1> QED
    BY <1>2, <1>3, ToolsParts DEF Tools!ToolsInv

(* A step that hears the first message of the wire, which answers no call and is no response.       *)
LEMMA ToolsHear ==
  ASSUME Tools!ToolsInv, Tools!TypeOK', Tools!CallsOK', x2 # <<>>, x2' = Tail(x2), x1' = x1,
         \A c \in ToolCall : ~ Tools!Answers(Head(x2), c), Head(x2).kind # "responded",
         x3'.disposed => x3'.channels = {},
         \A t \in x3'.tools : t \in x3.tools \/ (Head(x2).kind = "added" /\ t.frame = Head(x2).frame),
         \A c \in ToolCall : x4'[c].channel = x4[c].channel,
         StillWait(x4, x4'), Remembers(x4, x4', x1.running, x1.running, Tools!OnWire(x2'), x3, x3')
  PROVE  Tools!ToolsInv'
  <1>1. x2 \in Seq(Tools!Message) /\ x4 \in [ToolCall -> Tools!CallRecord] /\ x4' \in [ToolCall -> Tools!CallRecord]
    BY ToolsParts DEF Tools!TypeOK
  <1>2. /\ Tools!InOrder(x2') /\ Tools!OnWire(x2) = {Head(x2)} \cup Tools!OnWire(x2')
        /\ \A n \in Tools!OnWire(x2') : ~ Tools!Clash(Head(x2), n)
    BY <1>1, WireShrinks, ToolsParts
  <1>3. /\ Tools!AnswersAreDue(x4', Tools!OnWire(x2')) /\ Tools!Numbered(x4', Tools!OnWire(x2'), x1.invocations)
        /\ Tools!Distinct(x4', Tools!OnWire(x2'))
        /\ Tools!NoneIsLost(x4', Tools!OnWire(x2'), x1.running, x3')
    <2>1. \A c \in ToolCall : \A a : Tools!Answers(a, c) => (a \in Tools!OnWire(x2) <=> a \in Tools!OnWire(x2'))
      BY <1>2
    <2>2. \A a \in Tools!OnWire(x2) : a.kind = "responded" => a \in Tools!OnWire(x2')
      BY <1>2
    <2> QED
      BY <1>1, <2>1, <2>2, CallsMove, ToolsParts
  <1>4. Tools!NewIframeIsUnknown(x1, Tools!OnWire(x2'), x3', x4')
    <2>1. Tools!IframeIsNew(x1.hadIframe, Tools!OnWire(x2')) => Tools!IframeIsNew(x1.hadIframe, Tools!OnWire(x2))
      BY <1>2 DEF Tools!IframeIsNew
    <2>2. Tools!IframeIsNew(x1.hadIframe, Tools!OnWire(x2')) => ~ Tools!OfIframe(Head(x2))
      BY <1>2, ToolsParts DEF Tools!IframeIsNew, Tools!NewIframeIsUnknown, Tools!Clash
    <2> QED
      BY <1>2, <2>1, <2>2, ToolsParts DEF Tools!NewIframeIsUnknown, Tools!OfIframe
  <1> QED
    BY <1>2, <1>3, <1>4 DEF Tools!ToolsInv

(* A call ends for its execute as before: it rests, or its handoff has left it behind.            *)
LEMMA CallsGoOn ==
  ASSUME Tools!CallsOK, x5'.pc = x5.pc,
         \A d \in ToolCall :
           /\ Tools!CallOK(x4'[d])
           /\ \/ x4'[d] = x4[d]
              \/ ~ Tools!Rests(x4[d]) /\ x4'[d].handoff = x4[d].handoff
              \/ x4[d].handoff \in {"waiting", "leaving"}
  PROVE  Tools!CallsOK'
  <1>1. Tools!Rests(Tools!NoCall) /\ Tools!NoCall.handoff = "none"
    BY DEF Tools!Rests, Tools!NoCall
  <1>2. x5'.pc \in {"idle", "reporting"} => \A d \in ToolCall : Tools!IsOver(x4'[d])
    BY DEF Tools!CallsOK, Tools!IsOver
  <1>3. x5'.pc \in {"starting", "children"} =>
          \A d \in ToolCall : x4'[d] = Tools!NoCall \/ x4'[d].handoff = "left"
    BY <1>1 DEF Tools!CallsOK
  <1> QED
    BY <1>2, <1>3 DEF Tools!CallsOK

(* The calls stay as they are.                                              *)
LEMMA CallsStay ==
  ASSUME NEW k, NEW r, NEW r2, NEW m2, NEW o, NEW o2, r \subseteq r2,
         o2.channels \subseteq o.channels, o2.early = o.early, o2.dropped = o.dropped
  PROVE  StillWait(k, k) /\ Remembers(k, k, r, r2, m2, o, o2)
  BY DEF StillWait, Remembers

(* A message of an event, or of an answer to a channel.                                  *)
LEMMA EventIsMessage ==
  ASSUME NEW kind \in {"added", "removed", "navigated", "frameAttached", "frameDetached", "attached", "detached",
                      "crashed"}, NEW f \in Frame,
         NEW n \in Nat
  PROVE  /\ Tools!Event(kind, f, n) \in Tools!Message
         /\ Tools!Event(kind, f, n).kind = kind /\ Tools!Event(kind, f, n).frame = f
         /\ \A c \in ToolCall : ~ Tools!Answers(Tools!Event(kind, f, n), c)
  BY DEF Tools!Event, Tools!Message, Tools!ChannelOf, Tools!Channel, Tools!Answers

(* An event is sent on a channel that is enabled.                                       *)
LEMMA EmitIsSpoken ==
  ASSUME Tools!TypeOK, NEW kind \in {"added", "removed"}, NEW f \in Frame, NEW n \in Nat,
         x2' = Tools!Emit(f, <<Tools!Event(kind, f, n)>>)
  PROVE  \E s \in Seq(Tools!Message) :
           /\ x2' = x2 \o s /\ Tools!InOrder(s)
           /\ \A a \in Tools!OnWire(s) : a = Tools!Event(kind, f, n)
  <1>1. x2 \in Seq(Tools!Message)
    BY DEF Tools!TypeOK
  <1>2. Tools!Event(kind, f, n) \in Tools!Message
    BY EventIsMessage
  <1>3. CASE Tools!ChannelOf(f) \in x1.enabled
    <2>1. x2' = x2 \o <<Tools!Event(kind, f, n)>>
      BY <1>3 DEF Tools!Emit
    <2> QED
      BY <1>1, <1>2, <2>1, OneMessage
  <1>4. CASE Tools!ChannelOf(f) \notin x1.enabled
    <2>1. x2' = x2 \o <<>>
      BY <1>1, <1>4, NoMessage DEF Tools!Emit
    <2> QED
      BY <1>1, <2>1, NoMessage
  <1> QED
    BY <1>3, <1>4

(* Register keeps the invariant.                                              *)
LEMMA ToolsRegister ==
  ASSUME Tools!ToolsInv, NEW f \in Frame, Tools!Register(f)
  PROVE  Tools!ToolsInv'
  <1>1. PICK r \in Nat : /\ x1' = [x1 EXCEPT !.tool[f] = r, !.registrations = r]
                         /\ x2' = Tools!Emit(f, <<Tools!Event("added", f, r)>>)
    <2>1. x1.registrations + 1 \in Nat
      BY ToolsParts DEF Tools!TypeOK, Tools!PageRecord
    <2> QED
      BY <2>1 DEF Tools!Register
  <1>2. PICK s \in Seq(Tools!Message) :
           /\ x2' = x2 \o s /\ Tools!InOrder(s)
           /\ \A a \in Tools!OnWire(s) : a = Tools!Event("added", f, r)
    BY <1>1, EmitIsSpoken, ToolsParts
  <1>3. x3' = x3 /\ x4' = x4 /\ x5' = x5
    BY DEF Tools!Register
  <1>4. /\ x1'.running = x1.running /\ x1'.invocations = x1.invocations /\ x1'.hadIframe = x1.hadIframe
        /\ x1'.attached = x1.attached /\ x1'.tool = [x1.tool EXCEPT ![f] = r]
    BY <1>1, ToolsParts DEF Tools!TypeOK, Tools!PageRecord
  <1>5. Tools!TypeOK'
    <2>1. x2' \in Seq(Tools!Message)
      BY <1>2, ToolsParts DEF Tools!TypeOK
    <2>2. x1' \in Tools!PageRecord
      BY <1>1, ToolsParts DEF Tools!TypeOK, Tools!PageRecord
    <2> QED
      BY <1>3, <2>1, <2>2, ToolsParts DEF Tools!TypeOK
  <1>6. f = Iframe => x1.hadIframe
    BY ToolsParts, ToolsAssumption DEF Tools!Register, Tools!Alive, Tools!ChannelOf, Tools!NewIframeIsUnknown
  <1>7. ~ x1'.hadIframe => x1'.tool[Iframe] = 0 /\ Iframe \notin x1'.attached
    BY <1>4, <1>6, ToolsParts, ToolsAssumption DEF Tools!NewIframeIsUnknown, Tools!TypeOK, Tools!PageRecord
  <1>8. \A n \in Tools!OnWire(s) :
           /\ \A c \in ToolCall : ~ Tools!Answers(n, c)
           /\ n.kind = "attached" => ~ x1.hadIframe
           /\ Tools!OfIframe(n) => x1.hadIframe
    BY <1>2, <1>6, EventIsMessage DEF Tools!OfIframe
  <1>9. Tools!CallsOK'
    BY <1>3, ToolsParts DEF Tools!CallsOK
  <1> QED
    BY <1>2, <1>3, <1>4, <1>5, <1>7, <1>8, <1>9, CallsStay, ToolsSpeak, ToolsParts

(* Unregister keeps the invariant.                                              *)
LEMMA ToolsUnregister ==
  ASSUME Tools!ToolsInv, NEW f \in Frame, Tools!Unregister(f)
  PROVE  Tools!ToolsInv'
  <1>1. x1' = [x1 EXCEPT !.tool[f] = 0] /\ x2' = Tools!Emit(f, <<Tools!Event("removed", f, 0)>>)
    BY DEF Tools!Unregister
  <1>2. PICK s \in Seq(Tools!Message) :
           /\ x2' = x2 \o s /\ Tools!InOrder(s)
           /\ \A a \in Tools!OnWire(s) : a = Tools!Event("removed", f, 0)
    BY <1>1, EmitIsSpoken, ToolsParts
  <1>3. x3' = x3 /\ x4' = x4 /\ x5' = x5
    BY DEF Tools!Unregister
  <1>4. /\ x1'.running = x1.running /\ x1'.invocations = x1.invocations /\ x1'.hadIframe = x1.hadIframe
        /\ x1'.attached = x1.attached /\ x1'.tool = [x1.tool EXCEPT ![f] = 0]
    BY <1>1, ToolsParts DEF Tools!TypeOK, Tools!PageRecord
  <1>5. Tools!TypeOK'
    <2>1. x2' \in Seq(Tools!Message)
      BY <1>2, ToolsParts DEF Tools!TypeOK
    <2>2. x1' \in Tools!PageRecord
      BY <1>1, ToolsParts DEF Tools!TypeOK, Tools!PageRecord
    <2> QED
      BY <1>3, <2>1, <2>2, ToolsParts DEF Tools!TypeOK
  <1>7. ~ x1'.hadIframe => x1'.tool[Iframe] = 0 /\ Iframe \notin x1'.attached
    BY <1>4, ToolsParts, ToolsAssumption DEF Tools!NewIframeIsUnknown, Tools!TypeOK, Tools!PageRecord
  <1>8. \A n \in Tools!OnWire(s) :
           /\ \A c \in ToolCall : ~ Tools!Answers(n, c)
           /\ n.kind = "attached" => ~ x1.hadIframe
           /\ Tools!OfIframe(n) => x1.hadIframe
    BY <1>2, EventIsMessage DEF Tools!OfIframe
  <1>9. Tools!CallsOK'
    BY <1>3, ToolsParts DEF Tools!CallsOK
  <1> QED
    BY <1>2, <1>3, <1>4, <1>5, <1>7, <1>8, <1>9, CallsStay, ToolsSpeak, ToolsParts

(* The page changes and says so, perhaps also that the iframe is gone with what it lost.         *)
LEMMA ToolsPageChanges ==
  ASSUME Tools!ToolsInv, NEW e \in Tools!Message,
         e.kind \in {"navigated", "frameAttached", "frameDetached", "detached", "crashed"},
         NEW u \in {<<>>, <<Tools!Event("detached", Iframe, 0)>>}, x2' = (x2 \o <<e>>) \o u,
         x1' \in Tools!PageRecord, x1'.running = x1.running, x1'.invocations = x1.invocations,
         x1'.hadIframe = x1.hadIframe, x1'.attached \subseteq x1.attached, x1'.tool[Iframe] \in {0, x1.tool[Iframe]},
         UNCHANGED <<x3, x4, x5>>
  PROVE  Tools!ToolsInv'
  <1> DEFINE d == Tools!Event("detached", Iframe, 0)
             s == <<e>> \o u
  <1>1. d \in Tools!Message /\ d.kind = "detached" /\ \A c \in ToolCall : ~ Tools!Answers(d, c)
    BY EventIsMessage, ToolsAssumption
  <1>2. \A c \in ToolCall : ~ Tools!Answers(e, c)
    BY DEF Tools!Answers
  <1>3. u \in Seq(Tools!Message) /\ Tools!InOrder(u) /\ \A n \in Tools!OnWire(u) : n = d
    BY <1>1, OneMessage, NoMessage, ToolsParts DEF Tools!TypeOK
  <1> HIDE DEF d
  <1>4. /\ s \in Seq(Tools!Message) /\ Tools!InOrder(s) /\ Tools!OnWire(s) = {e} \cup Tools!OnWire(u)
    <2>1. <<e>> \in Seq(Tools!Message) /\ Tools!InOrder(<<e>>) /\ Tools!OnWire(<<e>>) = {e}
      BY OneMessage, ToolsParts DEF Tools!TypeOK
    <2>2. \A m \in Tools!OnWire(<<e>>), n \in Tools!OnWire(u) : ~ Tools!Clash(m, n)
      BY <1>1, <1>2, <1>3, <2>1 DEF Tools!Clash
    <2> QED
      BY <1>3, <2>1, <2>2, WireGrows
  <1>5. x2' = x2 \o s
    BY <1>3, ToolsParts DEF Tools!TypeOK
  <1> HIDE DEF s
  <1>6. Tools!TypeOK'
    <2>1. x2' \in Seq(Tools!Message)
      <3>1. x2 \in Seq(Tools!Message) /\ s \in Seq(Tools!Message)
        BY <1>4, ToolsParts DEF Tools!TypeOK
      <3>2. x2 \o s \in Seq(Tools!Message)
        BY <3>1
      <3> QED
        BY <1>5, <3>2
    <2> QED
      BY <2>1, ToolsParts DEF Tools!TypeOK
  <1>7. ~ x1'.hadIframe => x1'.tool[Iframe] = 0 /\ Iframe \notin x1'.attached
    BY ToolsParts DEF Tools!NewIframeIsUnknown
  <1>8. \A n \in Tools!OnWire(s) :
           /\ \A c \in ToolCall : ~ Tools!Answers(n, c)
           /\ n.kind = "attached" => ~ x1.hadIframe
           /\ Tools!OfIframe(n) => x1.hadIframe
    BY <1>1, <1>2, <1>3, <1>4 DEF Tools!OfIframe
  <1>9. Tools!CallsOK'
    BY ToolsParts DEF Tools!CallsOK
  <1> QED
    BY <1>4, <1>5, <1>6, <1>7, <1>8, <1>9, CallsStay, ToolsSpeak, ToolsParts

(* What goes with some frames.                                                          *)
LEMMA FramesGo ==
  ASSUME Tools!TypeOK, NEW gone \in SUBSET Frame
  PROVE  /\ Tools!Loses(gone) \in Tools!PageRecord
         /\ Tools!Loses(gone).running = x1.running /\ Tools!Loses(gone).invocations = x1.invocations
         /\ Tools!Loses(gone).hadIframe = x1.hadIframe /\ Tools!Loses(gone).attached \subseteq x1.attached
         /\ \A g \in Frame : Tools!Loses(gone).tool[g] \in {0, x1.tool[g]}
         /\ Tools!LosesIframe(gone) \in {<<>>, <<Tools!Event("detached", Iframe, 0)>>}
  <1> DEFINE tool == [g \in Frame |-> IF g \in gone THEN 0 ELSE x1.tool[g]]
             attached == IF Iframe \in gone THEN x1.attached \ {Iframe} ELSE x1.attached
  <1>1. tool \in [Frame -> Nat] /\ attached \in SUBSET Tools!Channel /\ attached \subseteq x1.attached
    BY DEF Tools!TypeOK, Tools!PageRecord
  <1>2. \A g \in Frame : tool[g] \in {0, x1.tool[g]}
    OBVIOUS
  <1>3. Tools!Loses(gone) = [x1 EXCEPT !.tool = tool, !.frames = x1.frames \ gone, !.attached = attached]
    BY DEF Tools!Loses, Tools!TypeOK, Tools!PageRecord
  <1> HIDE DEF tool, attached
  <1>4. Tools!Loses(gone) \in Tools!PageRecord
    BY <1>1, <1>3 DEF Tools!TypeOK, Tools!PageRecord
  <1>5. /\ Tools!Loses(gone).running = x1.running /\ Tools!Loses(gone).invocations = x1.invocations
        /\ Tools!Loses(gone).hadIframe = x1.hadIframe /\ Tools!Loses(gone).attached = attached
        /\ Tools!Loses(gone).tool = tool
    BY <1>3 DEF Tools!TypeOK, Tools!PageRecord
  <1>6. Tools!LosesIframe(gone) \in {<<>>, <<Tools!Event("detached", Iframe, 0)>>}
    BY DEF Tools!LosesIframe
  <1> QED
    BY <1>1, <1>2, <1>4, <1>5, <1>6

(* Frames of the page are frames.                                                         *)
LEMMA FamilyOfFrames ==
  ASSUME NEW frames, NEW f
  PROVE  Tools!Family(frames, f) \in SUBSET Frame
  BY DEF Tools!Family

(* Navigate keeps the invariant.                                              *)
LEMMA ToolsNavigate ==
  ASSUME Tools!ToolsInv, NEW f \in Frame, Tools!Navigate(f)
  PROVE  Tools!ToolsInv'
  <1> DEFINE e == Tools!Event("navigated", f, 0)
  <1>1. PICK gone \in SUBSET Frame :
          /\ x1' = [Tools!Loses(gone) EXCEPT !.frames = Tools!Loses(gone).frames \cup {f}, !.tool[f] = 0]
          /\ x2' = (x2 \o <<e>>) \o Tools!LosesIframe(gone)
    <2> DEFINE all == IF f = Main THEN Frame ELSE Tools!Family(x1.frames, f)
               inside == IF f = Iframe THEN all \ {f} ELSE all
    <2>1. inside \in SUBSET Frame
      BY FamilyOfFrames
    <2>2. /\ x1' = [Tools!Loses(inside) EXCEPT !.frames = @ \cup {f}, !.tool[f] = 0]
          /\ x2' = (x2 \o <<e>>) \o Tools!LosesIframe(inside)
      BY DEF Tools!Navigate
    <2>3. Tools!Loses(inside) \in Tools!PageRecord
      BY <2>1, FramesGo, ToolsParts
    <2> HIDE DEF inside
    <2>4. x1' = [Tools!Loses(inside) EXCEPT !.frames = Tools!Loses(inside).frames \cup {f}, !.tool[f] = 0]
      BY <2>2, <2>3 DEF Tools!PageRecord
    <2> QED
      BY <2>1, <2>2, <2>4
  <1>2. PICK p \in Tools!PageRecord :
          /\ p = Tools!Loses(gone) /\ p.running = x1.running /\ p.invocations = x1.invocations
          /\ p.hadIframe = x1.hadIframe /\ p.attached \subseteq x1.attached
          /\ \A g \in Frame : p.tool[g] \in {0, x1.tool[g]}
    BY FramesGo, ToolsParts
  <1>3. Tools!LosesIframe(gone) \in {<<>>, <<Tools!Event("detached", Iframe, 0)>>}
    BY FramesGo, ToolsParts
  <1>4. x1' = [p EXCEPT !.frames = p.frames \cup {f}, !.tool[f] = 0]
    BY <1>1, <1>2
  <1>5. /\ x1' \in Tools!PageRecord /\ x1'.running = p.running /\ x1'.invocations = p.invocations
        /\ x1'.hadIframe = p.hadIframe /\ x1'.attached = p.attached
    BY <1>4 DEF Tools!PageRecord
  <1>6. x1'.tool[Iframe] \in {0, x1.tool[Iframe]}
    BY <1>2, <1>4, ToolsAssumption DEF Tools!PageRecord
  <1>7. e \in Tools!Message /\ e.kind = "navigated"
    BY EventIsMessage
  <1>8. UNCHANGED <<x3, x4, x5>>
    BY DEF Tools!Navigate
  <1> HIDE DEF e
  <1> QED
    BY <1>1, <1>2, <1>3, <1>5, <1>6, <1>7, <1>8, ToolsPageChanges

(* AttachFrame keeps the invariant.                                              *)
LEMMA ToolsAttachFrame ==
  ASSUME Tools!ToolsInv, NEW f \in Frame, Tools!AttachFrame(f)
  PROVE  Tools!ToolsInv'
  <1> DEFINE e == Tools!Event("frameAttached", f, 0)
  <1>1. /\ x1' = [x1 EXCEPT !.frames = x1.frames \cup {f}] /\ x2' = Append(x2, e) /\ UNCHANGED <<x3, x4, x5>>
    BY ToolsParts DEF Tools!AttachFrame, Tools!TypeOK, Tools!PageRecord
  <1>2. e \in Tools!Message /\ e.kind = "frameAttached"
    BY EventIsMessage
  <1> HIDE DEF e
  <1>3. x2' = (x2 \o <<e>>) \o <<>>
    BY <1>1, <1>2, ToolsParts DEF Tools!TypeOK
  <1>4. /\ x1' \in Tools!PageRecord /\ x1'.running = x1.running /\ x1'.invocations = x1.invocations
        /\ x1'.hadIframe = x1.hadIframe /\ x1'.attached = x1.attached /\ x1'.tool = x1.tool
    BY <1>1, ToolsParts DEF Tools!TypeOK, Tools!PageRecord
  <1> QED
    BY <1>1, <1>2, <1>3, <1>4, ToolsPageChanges

(* DetachFrame keeps the invariant.                                              *)
LEMMA ToolsDetachFrame ==
  ASSUME Tools!ToolsInv, NEW f \in Frame, Tools!DetachFrame(f)
  PROVE  Tools!ToolsInv'
  <1> DEFINE e == Tools!Event("frameDetached", f, 0)
             gone == Tools!Family(x1.frames, f)
  <1>1. /\ x1' = Tools!Loses(gone) /\ x2' = (x2 \o <<e>>) \o Tools!LosesIframe(gone) /\ UNCHANGED <<x3, x4, x5>>
    BY DEF Tools!DetachFrame
  <1>2. e \in Tools!Message /\ e.kind = "frameDetached"
    BY EventIsMessage
  <1>3. gone \in SUBSET Frame
    BY FamilyOfFrames
  <1> HIDE DEF e, gone
  <1>4. /\ x1' \in Tools!PageRecord /\ x1'.running = x1.running /\ x1'.invocations = x1.invocations
        /\ x1'.hadIframe = x1.hadIframe /\ x1'.attached \subseteq x1.attached
        /\ x1'.tool[Iframe] \in {0, x1.tool[Iframe]}
        /\ Tools!LosesIframe(gone) \in {<<>>, <<Tools!Event("detached", Iframe, 0)>>}
    BY <1>1, <1>3, FramesGo, ToolsParts, ToolsAssumption
  <1> QED
    BY <1>1, <1>2, <1>4, ToolsPageChanges

(* AttachIframe keeps the invariant.                                              *)
LEMMA ToolsAttachIframe ==
  ASSUME Tools!ToolsInv, Tools!AttachIframe
  PROVE  Tools!ToolsInv'
  <1> DEFINE e == Tools!Event("attached", Iframe, 0)
  <1>1. /\ x1' = [x1 EXCEPT !.attached = x1.attached \cup {Iframe}, !.frames = x1.frames \cup {Iframe},
                            !.hadIframe = TRUE]
        /\ x2' = Append(x2, e) /\ ~ x1.hadIframe /\ x3' = x3 /\ x4' = x4 /\ x5' = x5
    BY ToolsParts DEF Tools!AttachIframe, Tools!TypeOK, Tools!PageRecord
  <1>2. e \in Tools!Message /\ e.kind = "attached" /\ \A c \in ToolCall : ~ Tools!Answers(e, c)
    BY EventIsMessage, ToolsAssumption
  <1> HIDE DEF e
  <1>3. /\ <<e>> \in Seq(Tools!Message) /\ x2' = x2 \o <<e>> /\ Tools!InOrder(<<e>>) /\ Tools!OnWire(<<e>>) = {e}
    BY <1>1, <1>2, OneMessage, ToolsParts DEF Tools!TypeOK
  <1>4. /\ x1'.running = x1.running /\ x1'.invocations = x1.invocations /\ x1'.hadIframe
    BY <1>1, ToolsParts DEF Tools!TypeOK, Tools!PageRecord
  <1>5. Tools!TypeOK'
    <2>1. x2' \in Seq(Tools!Message)
      BY <1>3, ToolsParts DEF Tools!TypeOK
    <2>2. x1' \in Tools!PageRecord
      BY <1>1, ToolsParts, ToolsAssumption DEF Tools!TypeOK, Tools!PageRecord, Tools!Channel
    <2> QED
      BY <1>1, <2>1, <2>2, ToolsParts DEF Tools!TypeOK
  <1>6. \A n \in Tools!OnWire(<<e>>) :
           /\ \A c \in ToolCall : ~ Tools!Answers(n, c)
           /\ n.kind = "attached" => ~ x1.hadIframe
           /\ Tools!OfIframe(n) => x1.hadIframe
    BY <1>1, <1>2, <1>3 DEF Tools!OfIframe
  <1>7. Tools!CallsOK'
    BY <1>1, ToolsParts DEF Tools!CallsOK
  <1>8. /\ StillWait(x4, x4') /\ Remembers(x4, x4', x1.running, x1'.running, Tools!OnWire(x2'), x3, x3')
        /\ x3'.disposed => x3'.channels = {}
    BY <1>1, <1>4, CallsStay, ToolsParts
  <1>9. x3'.tools \subseteq x3.tools /\ \A c \in ToolCall : x4'[c].channel = x4[c].channel
    BY <1>1
  <1> QED
    BY <1>3, <1>4, <1>5, <1>6, <1>7, <1>8, <1>9, ToolsSpeak

(* DetachIframe keeps the invariant.                                              *)
LEMMA ToolsDetachIframe ==
  ASSUME Tools!ToolsInv, NEW kind \in {"detached", "crashed"}, Tools!DetachIframe(kind)
  PROVE  Tools!ToolsInv'
  <1> DEFINE e == Tools!Event(kind, Iframe, 0)
  <1>1. /\ x1' = Tools!Loses({Iframe}) /\ x2' = Append(x2, e) /\ UNCHANGED <<x3, x4, x5>>
    BY DEF Tools!DetachIframe
  <1>2. e \in Tools!Message /\ e.kind = kind
    BY EventIsMessage, ToolsAssumption
  <1> HIDE DEF e
  <1>3. x2' = (x2 \o <<e>>) \o <<>>
    BY <1>1, <1>2, ToolsParts DEF Tools!TypeOK
  <1>4. /\ x1' \in Tools!PageRecord /\ x1'.running = x1.running /\ x1'.invocations = x1.invocations
        /\ x1'.hadIframe = x1.hadIframe /\ x1'.attached \subseteq x1.attached
        /\ x1'.tool[Iframe] \in {0, x1.tool[Iframe]}
    BY <1>1, FramesGo, ToolsParts, ToolsAssumption
  <1> QED
    BY <1>1, <1>2, <1>3, <1>4, ToolsPageChanges

(* Respond keeps the invariant.                                              *)
LEMMA ToolsRespond ==
  ASSUME Tools!ToolsInv, NEW i \in x1.running, Tools!Respond(i)
  PROVE  Tools!ToolsInv'
  <1> DEFINE e == [kind |-> "responded", channel |-> i.channel, number |-> i.id]
  <1>1. /\ x1' = [x1 EXCEPT !.running = x1.running \ {i}]
        /\ x2' = Append(x2, e) /\ x3' = x3 /\ x4' = x4 /\ x5' = x5
    BY ToolsParts DEF Tools!Respond, Tools!TypeOK, Tools!PageRecord
  <1>2. /\ e \in Tools!Message /\ e.kind = "responded" /\ \A c \in ToolCall : ~ Tools!Answers(e, c)
        /\ e.channel = i.channel /\ e.number = i.id
    BY ToolsParts DEF Tools!Answers, Tools!Message, Tools!TypeOK, Tools!PageRecord
  <1> HIDE DEF e
  <1>3. /\ <<e>> \in Seq(Tools!Message) /\ x2' = x2 \o <<e>> /\ Tools!InOrder(<<e>>) /\ Tools!OnWire(<<e>>) = {e}
    BY <1>1, <1>2, OneMessage, ToolsParts DEF Tools!TypeOK
  <1>4. /\ x1'.running = x1.running \ {i} /\ x1'.invocations = x1.invocations /\ x1'.hadIframe = x1.hadIframe
        /\ x1'.attached = x1.attached /\ x1'.tool = x1.tool
    BY <1>1, ToolsParts, ToolsAssumption DEF Tools!TypeOK, Tools!PageRecord
  <1>5. Tools!TypeOK'
    <2>1. x2' \in Seq(Tools!Message)
      BY <1>3, ToolsParts DEF Tools!TypeOK
    <2>2. x1' \in Tools!PageRecord
      BY <1>1, ToolsParts DEF Tools!TypeOK, Tools!PageRecord
    <2> QED
      BY <1>1, <2>1, <2>2, ToolsParts DEF Tools!TypeOK
  <1>6. \A n \in Tools!OnWire(<<e>>) :
           /\ \A c \in ToolCall : ~ Tools!Answers(n, c)
           /\ n.kind = "attached" => ~ x1.hadIframe
           /\ Tools!OfIframe(n) => x1.hadIframe
    BY <1>2, <1>3 DEF Tools!OfIframe
  <1>7. Tools!CallsOK'
    BY <1>1, ToolsParts DEF Tools!CallsOK
  <1>8. e \in Tools!OnWire(x2')
    BY <1>2, <1>3, LastOnWire, ToolsParts DEF Tools!TypeOK
  <1>9. StillWait(x4, x4') /\ Remembers(x4, x4', x1.running, x1'.running, Tools!OnWire(x2'), x3, x3')
    <2>1. \A c \in ToolCall, n \in Nat : [channel |-> x4[c].channel, id |-> n, by |-> c] \in x1.running =>
            \/ [channel |-> x4[c].channel, id |-> n, by |-> c] \in x1'.running
            \/ \E a \in Tools!OnWire(x2') : a.kind = "responded" /\ a.channel = x4[c].channel /\ a.number = n
      <3> SUFFICES ASSUME NEW c \in ToolCall, NEW n \in Nat,
                          [channel |-> x4[c].channel, id |-> n, by |-> c] = i
                   PROVE  \E a \in Tools!OnWire(x2') : a.kind = "responded" /\ a.channel = x4[c].channel /\ a.number = n
        BY <1>4
      <3>1. i.channel = x4[c].channel /\ i.id = n
        OBVIOUS
      <3> QED
        BY <1>2, <1>8, <3>1
    <2> QED
      BY <1>1, <2>1 DEF StillWait, Remembers
  <1>10. ~ x1'.hadIframe => x1'.tool[Iframe] = 0 /\ Iframe \notin x1'.attached
    BY <1>4, ToolsParts DEF Tools!NewIframeIsUnknown
  <1> QED
    BY <1>1, <1>3, <1>4, <1>5, <1>6, <1>7, <1>9, <1>10, ToolsSpeak, ToolsParts

(* An answer is a message.                                                    *)
LEMMA AnswerIsMessage ==
  ASSUME NEW who \in Tools!Channel \cup ToolCall \cup {"sync"}, NEW ok \in BOOLEAN, NEW n \in Nat
  PROVE  /\ Tools!Answer(who, ok, n) \in Tools!Message /\ Tools!Answer(who, ok, n).kind = "answer"
         /\ Tools!Answer(who, ok, n).who = who /\ Tools!Answer(who, ok, n).ok = ok
         /\ Tools!Answer(who, ok, n).number = n
  BY DEF Tools!Answer, Tools!Message

(* So is the answer with the frames of a channel.                                             *)
LEMMA TreeIsMessage ==
  ASSUME Tools!TypeOK, NEW who \in Tools!Channel \cup {"sync"}, NEW ch \in Tools!Channel, NEW ok \in BOOLEAN
  PROVE  /\ Tools!TreeAnswer(who, ch, ok) \in Tools!Message /\ Tools!TreeAnswer(who, ch, ok).kind = "answer"
         /\ \A c \in ToolCall : ~ Tools!Answers(Tools!TreeAnswer(who, ch, ok), c)
  <1> DEFINE F == IF ok THEN {f \in x1.frames : Tools!ChannelOf(f) = ch} ELSE {}
  <1>1. F \in SUBSET Frame
    BY DEF Tools!TypeOK, Tools!PageRecord
  <1>2. Tools!TreeAnswer(who, ch, ok) = [kind |-> "answer", who |-> who, ok |-> ok, number |-> 0, frames |-> F]
    BY DEF Tools!TreeAnswer, Tools!Answer
  <1> HIDE DEF F
  <1>3. Tools!TreeAnswer(who, ch, ok) \in Tools!Message
    BY <1>1, <1>2 DEF Tools!Message
  <1> QED
    BY <1>2, <1>3, ToolsAssumption DEF Tools!Answers, Tools!Channel

(* ServeSynchronize keeps the invariant.                                              *)
LEMMA ToolsServeSynchronize ==
  ASSUME Tools!ToolsInv, Tools!ServeSynchronize
  PROVE  Tools!ToolsInv'
  <1> DEFINE e == Tools!TreeAnswer("sync", Main, x1.alive)
  <1>1. /\ x5' = [x5 EXCEPT !.sync = "served"]
        /\ x2' = Append(x2, e) /\ x3' = x3 /\ x4' = x4 /\ x1' = x1
    BY DEF Tools!ServeSynchronize
  <1>2. e \in Tools!Message /\ e.kind = "answer" /\ \A c \in ToolCall : ~ Tools!Answers(e, c)
    <2>1. x1.alive \in BOOLEAN
      BY ToolsParts DEF Tools!TypeOK, Tools!PageRecord
    <2> QED
      BY <2>1, TreeIsMessage, ToolsParts DEF Tools!Channel
  <1> HIDE DEF e
  <1>3. /\ <<e>> \in Seq(Tools!Message) /\ x2' = x2 \o <<e>> /\ Tools!InOrder(<<e>>) /\ Tools!OnWire(<<e>>) = {e}
    BY <1>1, <1>2, OneMessage, ToolsParts DEF Tools!TypeOK
  <1>4. x5'.pc = x5.pc
    BY <1>1, ToolsParts DEF Tools!TypeOK
  <1>5. Tools!TypeOK'
    <2>1. x2' \in Seq(Tools!Message)
      BY <1>3, ToolsParts DEF Tools!TypeOK
    <2> QED
      BY <1>1, <2>1, ToolsParts DEF Tools!TypeOK
  <1>6. \A n \in Tools!OnWire(<<e>>) :
           /\ \A c \in ToolCall : ~ Tools!Answers(n, c)
           /\ n.kind = "attached" => ~ x1.hadIframe
           /\ Tools!OfIframe(n) => x1.hadIframe
    BY <1>2, <1>3 DEF Tools!OfIframe
  <1>7. Tools!CallsOK'
    BY <1>1, <1>4, ToolsParts DEF Tools!CallsOK
  <1>8. ~ x1'.hadIframe => x1'.tool[Iframe] = 0 /\ Iframe \notin x1'.attached
    BY <1>1, ToolsParts DEF Tools!NewIframeIsUnknown
  <1> QED
    BY <1>1, <1>3, <1>5, <1>6, <1>7, <1>8, CallsStay, ToolsSpeak, ToolsParts

(* ServeInitialization keeps the invariant.                                              *)
LEMMA ToolsServeInitialization ==
  ASSUME Tools!ToolsInv, NEW ch \in Tools!Channel, Tools!ServeInitialization(ch)
  PROVE  Tools!ToolsInv'
  <1> DEFINE fs == {g \in Frame : Tools!ChannelOf(g) = ch /\ x1.tool[g] # 0}
             S == {Tools!Event("added", f, x1.tool[f]) : f \in fs}
             u == Tools!SetToSeq(S)
             e == IF x3.initialization[ch].pc = "tree" THEN Tools!TreeAnswer(ch, ch, Tools!Alive(ch))
                  ELSE Tools!Answer(ch, Tools!Alive(ch), 0)
  <1>1. /\ x3' = [x3 EXCEPT !.initialization[ch].served = TRUE]
        /\ x2' \in {(x2 \o <<e>>) \o u, (x2 \o u) \o <<e>>, x2 \o <<e>>}
        /\ x4' = x4 /\ x5' = x5
    BY DEF Tools!ServeInitialization
  <1>2. \E E \in SUBSET Tools!Channel : x1' = [x1 EXCEPT !.enabled = E]
    <2>1. x1.enabled \in SUBSET Tools!Channel
      BY ToolsParts DEF Tools!TypeOK, Tools!PageRecord
    <2>2. x1.enabled \ {ch} \in SUBSET Tools!Channel /\ x1.enabled \cup {ch} \in SUBSET Tools!Channel
      BY <2>1
    <2> QED
      BY <2>1, <2>2 DEF Tools!ServeInitialization
  <1>3. /\ e \in Tools!Message /\ e.kind = "answer" /\ \A c \in ToolCall : ~ Tools!Answers(e, c)
    <2>1. Tools!Alive(ch) \in BOOLEAN
      BY ToolsParts DEF Tools!TypeOK, Tools!PageRecord, Tools!Alive
    <2> QED
      BY <2>1, AnswerIsMessage, TreeIsMessage, ToolsParts, ToolsAssumption DEF Tools!Answers, Tools!Channel
  <1>4. \A n \in S : /\ n \in Tools!Message /\ n.kind = "added" /\ \A c \in ToolCall : ~ Tools!Answers(n, c)
                     /\ Tools!OfIframe(n) => x1.hadIframe
    <2> SUFFICES ASSUME NEW f \in fs
                 PROVE  LET n == Tools!Event("added", f, x1.tool[f])
                        IN  /\ n \in Tools!Message /\ n.kind = "added" /\ \A c \in ToolCall : ~ Tools!Answers(n, c)
                            /\ Tools!OfIframe(n) => x1.hadIframe
      OBVIOUS
    <2>1. x1.tool[f] \in Nat /\ f \in Frame /\ (f = Iframe => x1.hadIframe)
      BY ToolsParts DEF Tools!TypeOK, Tools!PageRecord, Tools!NewIframeIsUnknown
    <2> QED
      BY <2>1, EventIsMessage DEF Tools!OfIframe
  <1>5. S \in SUBSET Tools!Message /\ IsFiniteSet(S) /\ \A m, n \in S : ~ Tools!Clash(m, n)
    <2>1. IsFiniteSet(fs)
      BY ToolsAssumption, FS_Subset
    <2>2. IsFiniteSet(S)
      <3> DEFINE h == [f \in fs |-> Tools!Event("added", f, x1.tool[f])]
      <3>1. h \in Surjection(fs, S)
        BY DEF Surjection
      <3> QED
        BY <2>1, <3>1, FS_Surjection DEF ExistsSurjection
    <2> QED
      BY <1>4, <2>2 DEF Tools!Clash
  <1> HIDE DEF S
  <1>6. /\ u \in Seq(Tools!Message) /\ Tools!InOrder(u) /\ Tools!OnWire(u) = S
    BY <1>5, SetOfMessages
  <1> HIDE DEF u, e
  <1>7. /\ <<e>> \in Seq(Tools!Message) /\ Tools!InOrder(<<e>>) /\ Tools!OnWire(<<e>>) = {e}
    BY <1>3, OneMessage, ToolsParts DEF Tools!TypeOK
  <1>8. \A n \in Tools!OnWire(u) : ~ Tools!Clash(n, e) /\ ~ Tools!Clash(e, n)
    BY <1>3, <1>4, <1>6 DEF Tools!Clash
  <1>9. PICK s \in Seq(Tools!Message) : /\ x2' = x2 \o s /\ Tools!InOrder(s) /\ Tools!OnWire(s) \subseteq {e} \cup S
    <2>0. /\ \A m \in Tools!OnWire(<<e>>), n \in Tools!OnWire(u) : ~ Tools!Clash(m, n)
          /\ \A m \in Tools!OnWire(u), n \in Tools!OnWire(<<e>>) : ~ Tools!Clash(m, n)
      BY <1>7, <1>8
    <2>1. /\ <<e>> \o u \in Seq(Tools!Message) /\ Tools!InOrder(<<e>> \o u)
          /\ Tools!OnWire(<<e>> \o u) = {e} \cup Tools!OnWire(u)
      BY <1>6, <1>7, <2>0, WireGrows
    <2>2. /\ u \o <<e>> \in Seq(Tools!Message) /\ Tools!InOrder(u \o <<e>>)
          /\ Tools!OnWire(u \o <<e>>) = Tools!OnWire(u) \cup {e}
      BY <1>6, <1>7, <2>0, WireGrows
    <2>3. x2' \in {x2 \o (<<e>> \o u), x2 \o (u \o <<e>>), x2 \o <<e>>}
      <3>1. (x2 \o <<e>>) \o u = x2 \o (<<e>> \o u)
        BY <1>6, <1>7, ToolsParts DEF Tools!TypeOK
      <3>2. (x2 \o u) \o <<e>> = x2 \o (u \o <<e>>)
        BY <1>6, <1>7, ToolsParts DEF Tools!TypeOK
      <3> QED
        BY <1>1, <3>1, <3>2
    <2> QED
      BY <1>6, <1>7, <2>1, <2>2, <2>3
  <1>10. /\ x1'.running = x1.running /\ x1'.invocations = x1.invocations /\ x1'.hadIframe = x1.hadIframe
         /\ x1'.attached = x1.attached /\ x1'.tool = x1.tool
    BY <1>2, ToolsParts, ToolsAssumption DEF Tools!TypeOK, Tools!PageRecord
  <1>11. /\ x3'.channels = x3.channels /\ x3'.early = x3.early /\ x3'.dropped = x3.dropped
         /\ x3'.tools = x3.tools /\ x3'.disposed = x3.disposed
    BY <1>1, ToolsParts DEF Tools!TypeOK, Tools!ObjectRecord
  <1>12. Tools!TypeOK'
    <2>1. x2' \in Seq(Tools!Message)
      BY <1>9, ToolsParts DEF Tools!TypeOK
    <2>2. x1' \in Tools!PageRecord
      BY <1>2, ToolsParts DEF Tools!TypeOK, Tools!PageRecord
    <2>3. x3' \in Tools!ObjectRecord
      <3>1. [x3.initialization EXCEPT ![ch].served = TRUE] \in
              [Tools!Channel -> [pc : {"none", "disable", "enable", "tree", "done"}, served : BOOLEAN]]
        BY ToolsParts DEF Tools!TypeOK, Tools!ObjectRecord
      <3>2. x3' = [x3 EXCEPT !.initialization = [x3.initialization EXCEPT ![ch].served = TRUE]]
        BY <1>1, ToolsParts DEF Tools!TypeOK, Tools!ObjectRecord
      <3> QED
        BY <3>1, <3>2, ToolsParts DEF Tools!TypeOK, Tools!ObjectRecord
    <2> QED
      BY <1>1, <2>1, <2>2, <2>3, ToolsParts DEF Tools!TypeOK
  <1>13. \A n \in Tools!OnWire(s) :
           /\ \A c \in ToolCall : ~ Tools!Answers(n, c)
           /\ n.kind = "attached" => ~ x1.hadIframe
           /\ Tools!OfIframe(n) => x1.hadIframe
    BY <1>3, <1>4, <1>9 DEF Tools!OfIframe
  <1>14. Tools!CallsOK'
    BY <1>1, ToolsParts DEF Tools!CallsOK
  <1>15. ~ x1'.hadIframe => x1'.tool[Iframe] = 0 /\ Iframe \notin x1'.attached
    BY <1>10, ToolsParts DEF Tools!NewIframeIsUnknown
  <1>16. StillWait(x4, x4') /\ Remembers(x4, x4', x1.running, x1'.running, Tools!OnWire(x2'), x3, x3')
    BY <1>1, <1>10, <1>11, CallsStay
  <1> QED
    BY <1>1, <1>9, <1>10, <1>11, <1>12, <1>13, <1>14, <1>15, <1>16, ToolsSpeak, ToolsParts

(* ServeCall keeps the invariant.                                              *)
LEMMA ToolsServeCall ==
  ASSUME Tools!ToolsInv, NEW c \in ToolCall, Tools!ServeCall(c)
  PROVE  Tools!ToolsInv'
  <1>1. PICK ch \in Tools!Channel, id \in Nat, found \in BOOLEAN, e \in Tools!Message :
           /\ ch = x4[c].channel /\ id = x1.invocations[ch] + 1
           /\ e.kind = "answer" /\ e.who = c /\ e.ok = found /\ e.number = id
           /\ x2' = x2 \o <<e>>
           /\ x1' = IF found THEN [x1 EXCEPT !.invocations[ch] = id,
                                             !.running = x1.running \cup {[channel |-> ch, id |-> id, by |-> c]}]
                    ELSE x1
    <2> DEFINE ch == x4[c].channel
               id == x1.invocations[ch] + 1
               found == Tools!Alive(ch) /\ x1.tool[x4[c].tool.frame] # 0
               e == Tools!Answer(c, found, id)
    <2>1. ch \in Tools!Channel /\ id \in Nat /\ found \in BOOLEAN
      <3>1. ch \in Tools!Channel
        BY ToolsParts DEF Tools!TypeOK, Tools!CallRecord
      <3>2. x1.invocations[ch] \in Nat
        BY <3>1, ToolsParts DEF Tools!TypeOK, Tools!PageRecord
      <3>3. found \in BOOLEAN
        BY ToolsParts DEF Tools!TypeOK, Tools!PageRecord, Tools!Alive
      <3> QED
        BY <3>1, <3>2, <3>3
    <2> HIDE DEF found, id
    <2>2. e \in Tools!Message /\ e.kind = "answer" /\ e.who = c /\ e.ok = found /\ e.number = id
      BY <2>1, AnswerIsMessage
    <2>3. x2' = Append(x2, e) /\ Append(x2, e) = x2 \o <<e>>
      BY <2>2, OneMessage, ToolsParts DEF Tools!ServeCall, Tools!TypeOK, found, id
    <2>4. x1' = IF found THEN [x1 EXCEPT !.invocations[ch] = id,
                                         !.running = x1.running \cup {[channel |-> ch, id |-> id, by |-> c]}]
                ELSE x1
      BY ToolsParts DEF Tools!ServeCall, Tools!TypeOK, Tools!PageRecord, found, id
    <2>5. ch = x4[c].channel /\ id = x1.invocations[ch] + 1
      BY DEF id
    <2> HIDE DEF e, ch
    <2> QED
      BY <2>1, <2>2, <2>3, <2>4, <2>5
  <1>2. /\ x3' = x3 /\ x5' = x5 /\ x4[c].pc = "sent"
        /\ x4' \in [ToolCall -> Tools!CallRecord] /\ x4'[c] = [x4[c] EXCEPT !.pc = "invoked"]
        /\ \A d \in ToolCall : d # c => x4'[d] = x4[d]
    <2>1. /\ x3' = x3 /\ x5' = x5 /\ x4[c].pc = "sent" /\ x4[c] \in Tools!CallRecord
          /\ x4' = [x4 EXCEPT ![c] = [x4[c] EXCEPT !.pc = "invoked"]]
      BY ToolsParts DEF Tools!ServeCall, Tools!TypeOK
    <2>2. [x4[c] EXCEPT !.pc = "invoked"] \in Tools!CallRecord
      BY <2>1 DEF Tools!CallRecord, Tools!Waiting
    <2> QED
      BY <2>1, <2>2, ToolsParts DEF Tools!TypeOK
  <1>3. /\ x4'[c].pc = "invoked" /\ x4'[c].id = x4[c].id /\ x4'[c].channel = ch /\ x4'[c].result = x4[c].result
        /\ x4'[c].cancelled = x4[c].cancelled /\ x4'[c].cancellation = x4[c].cancellation
        /\ x4'[c].handoff = x4[c].handoff
    BY <1>1, <1>2, ToolsParts DEF Tools!TypeOK, Tools!CallRecord
  <1>4. /\ x1'.hadIframe = x1.hadIframe /\ x1'.attached = x1.attached /\ x1'.tool = x1.tool
        /\ x1.running \subseteq x1'.running
        /\ x1'.invocations \in [Tools!Channel -> Nat]
        /\ \A g \in Tools!Channel : g # ch => x1'.invocations[g] = x1.invocations[g]
        /\ x1'.invocations[ch] \in {id, x1.invocations[ch]}
        /\ found => x1'.invocations[ch] = id /\ [channel |-> ch, id |-> id, by |-> c] \in x1'.running
    BY <1>1, ToolsParts DEF Tools!TypeOK, Tools!PageRecord
  <1>5. \A a \in Tools!OnWire(x2) : ~ Tools!Answers(a, c)
    BY <1>2, ToolsParts DEF Tools!AnswersAreDue
  <1>6. Tools!InOrder(x2') /\ Tools!OnWire(x2') = Tools!OnWire(x2) \cup {e}
    <2>1. /\ <<e>> \in Seq(Tools!Message) /\ Tools!InOrder(<<e>>) /\ Tools!OnWire(<<e>>) = {e}
      BY <1>1, OneMessage, ToolsParts DEF Tools!TypeOK
    <2>2. \A m \in Tools!OnWire(x2), n \in Tools!OnWire(<<e>>) : ~ Tools!Clash(m, n)
      BY <1>1, <1>5, <2>1 DEF Tools!Clash, Tools!Answers
    <2> QED
      BY <1>1, <2>1, <2>2, WireGrows, ToolsParts DEF Tools!TypeOK
  <1>7. Tools!TypeOK'
    <2>1. x2' \in Seq(Tools!Message)
      BY <1>1, ToolsParts DEF Tools!TypeOK
    <2>2. x1' \in Tools!PageRecord
      <3>1. /\ [x1.invocations EXCEPT ![ch] = id] \in [Tools!Channel -> Nat]
            /\ [channel |-> ch, id |-> id, by |-> c] \in [channel : Tools!Channel, id : Nat, by : ToolCall]
        BY ToolsParts DEF Tools!TypeOK, Tools!PageRecord
      <3> QED
        BY <1>1, <3>1, ToolsParts DEF Tools!TypeOK, Tools!PageRecord
    <2> QED
      BY <1>2, <2>1, <2>2, ToolsParts DEF Tools!TypeOK
  <1>8. Tools!CallsOK'
    <2>1. \A d \in ToolCall : Tools!CallOK(x4'[d])
      <3>1. Tools!CallOK(x4'[c])
        BY <1>1, <1>2, <1>3, ToolsParts DEF Tools!CallsOK, Tools!CallOK, Tools!Abandoned
      <3> QED
        BY <1>2, <3>1, ToolsParts DEF Tools!CallsOK
    <2>2. ~ Tools!Rests(x4[c])
      BY <1>2 DEF Tools!Rests
    <2> QED
      BY <1>2, <1>3, <2>1, <2>2, CallsGoOn, ToolsParts
  <1>9. ASSUME NEW d \in ToolCall, NEW n \in Nat, Tools!Waits(x4', Tools!OnWire(x2'), d, n)
        PROVE  /\ d # c => Tools!Waits(x4, Tools!OnWire(x2), d, n)
               /\ d = c => n = id /\ found
    <2>1. CASE d # c
      BY <1>1, <1>2, <1>6, <1>9, <2>1 DEF Tools!Waits, Tools!Tells, Tools!Answers
    <2>2. CASE d = c
      BY <1>1, <1>3, <1>5, <1>6, <1>9, <2>2 DEF Tools!Waits, Tools!Tells
    <2> QED
      BY <2>1, <2>2
  <1>10. Tools!AnswersAreDue(x4', Tools!OnWire(x2'))
    <2> SUFFICES ASSUME NEW d \in ToolCall
                 PROVE  x4'[d].pc = "invoked" <=> \E a \in Tools!OnWire(x2') : Tools!Answers(a, d)
      BY DEF Tools!AnswersAreDue
    <2>1. CASE d = c
      BY <1>1, <1>3, <1>6, <2>1 DEF Tools!Answers
    <2>2. CASE d # c
      BY <1>1, <1>2, <1>6, <2>2, ToolsParts DEF Tools!AnswersAreDue, Tools!Answers
    <2> QED
      BY <2>1, <2>2
  <1>11. Tools!Numbered(x4', Tools!OnWire(x2'), x1'.invocations)
    <2> SUFFICES ASSUME NEW d \in ToolCall, NEW n \in Nat, Tools!Waits(x4', Tools!OnWire(x2'), d, n)
                 PROVE  n \in 1 .. x1'.invocations[x4'[d].channel]
      BY DEF Tools!Numbered
    <2>1. CASE d = c
      BY <1>1, <1>3, <1>4, <1>9, <2>1, ToolsParts DEF Tools!TypeOK, Tools!PageRecord
    <2>2. CASE d # c
      <3>1. n \in 1 .. x1.invocations[x4[d].channel] /\ x4'[d] = x4[d]
        BY <1>2, <1>9, <2>2, ToolsParts DEF Tools!Numbered
      <3>2. x4[d].channel \in Tools!Channel /\ \A g \in Tools!Channel : x1.invocations[g] \in Nat
        BY ToolsParts DEF Tools!TypeOK, Tools!PageRecord, Tools!CallRecord
      <3> QED
        BY <1>1, <1>4, <3>1, <3>2
    <2> QED
      BY <2>1, <2>2
  <1>12. Tools!Distinct(x4', Tools!OnWire(x2'))
    <2>1. \A d \in ToolCall, n \in Nat :
            d # c /\ Tools!Waits(x4', Tools!OnWire(x2'), d, n) /\ x4'[d].channel = ch => n # id
      <3> SUFFICES ASSUME NEW d \in ToolCall, NEW n \in Nat, d # c, Tools!Waits(x4', Tools!OnWire(x2'), d, n),
                          x4'[d].channel = ch
                   PROVE  n # id
        OBVIOUS
      <3>1. n \in 1 .. x1.invocations[ch]
        BY <1>2, <1>9, ToolsParts DEF Tools!Numbered
      <3>2. x1.invocations[ch] \in Nat
        BY <1>1, ToolsParts DEF Tools!TypeOK, Tools!PageRecord
      <3> QED
        BY <1>1, <3>1, <3>2
    <2> SUFFICES ASSUME NEW d \in ToolCall, NEW b \in ToolCall, NEW n \in Nat,
                        Tools!Waits(x4', Tools!OnWire(x2'), d, n), Tools!Waits(x4', Tools!OnWire(x2'), b, n),
                        x4'[d].channel = x4'[b].channel
                 PROVE  d = b
      BY DEF Tools!Distinct
    <2>2. d = c => n = id
      BY <1>9
    <2>3. b = c => n = id
      BY <1>9
    <2>4. d # c /\ b # c => d = b
      <3> SUFFICES ASSUME d # c, b # c PROVE d = b
        OBVIOUS
      <3>1. Tools!Waits(x4, Tools!OnWire(x2), d, n)
        BY <1>9
      <3>2. Tools!Waits(x4, Tools!OnWire(x2), b, n)
        BY <1>9
      <3> QED
        BY <1>2, <3>1, <3>2, ToolsParts DEF Tools!Distinct
    <2> QED
      BY <1>3, <2>1, <2>2, <2>3, <2>4
  <1>13. Tools!NoneIsLost(x4', Tools!OnWire(x2'), x1'.running, x3')
    <2> SUFFICES ASSUME NEW d \in ToolCall, NEW n \in Nat, Tools!Waits(x4', Tools!OnWire(x2'), d, n),
                        x4'[d].channel \in x3.channels, ~ Tools!Abandoned(x4'[d])
                 PROVE  Tools!Kept(x4', Tools!OnWire(x2'), x1'.running, x3, d, n)
      BY <1>2 DEF Tools!NoneIsLost
    <2>1. CASE d = c
      BY <1>3, <1>4, <1>9, <2>1 DEF Tools!Kept
    <2>2. CASE d # c
      <3>1. Tools!Kept(x4, Tools!OnWire(x2), x1.running, x3, d, n)
        BY <1>2, <1>9, <2>2, ToolsParts DEF Tools!NoneIsLost
      <3> QED
        BY <1>2, <1>4, <1>6, <2>2, <3>1 DEF Tools!Kept
    <2> QED
      BY <2>1, <2>2
  <1>14. Tools!NewIframeIsUnknown(x1', Tools!OnWire(x2'), x3', x4')
    <2>1. e.kind # "attached" /\ ~ Tools!OfIframe(e)
      BY <1>1 DEF Tools!OfIframe
    <2>2. \A d \in ToolCall : x4'[d].channel = x4[d].channel
      BY <1>1, <1>2, <1>3
    <2> QED
      BY <1>2, <1>4, <1>6, <2>1, <2>2, ToolsParts DEF Tools!NewIframeIsUnknown, Tools!IframeIsNew
  <1>15. x3'.disposed => x3'.channels = {}
    BY <1>2, ToolsParts
  <1> QED
    BY <1>6, <1>7, <1>8, <1>10, <1>11, <1>12, <1>13, <1>14, <1>15 DEF Tools!ToolsInv

(* ServeCancel keeps the invariant.                                              *)
LEMMA ToolsServeCancel ==
  ASSUME Tools!ToolsInv, NEW c \in ToolCall, Tools!ServeCancel(c)
  PROVE  Tools!ToolsInv'
  <1>1. /\ x2' = x2 /\ x5' = x5 /\ x4[c].cancellation = "sent" /\ x4[c] \in Tools!CallRecord
        /\ Tools!CallOK(x4[c])
    BY ToolsParts DEF Tools!ServeCancel, Tools!TypeOK, Tools!CallsOK
  <1>2. x4[c].pc \in {"pending", "resolved", "finishing"}
    BY <1>1 DEF Tools!CallOK, Tools!CallRecord, Tools!Waiting
  <1>3. PICK r \in Tools!CallRecord :
          /\ x4' = [x4 EXCEPT ![c] = r]
          /\ r.pc \in {"resolved", "ended"} /\ r.cancellation = "done" /\ r.channel = x4[c].channel /\ r.id = x4[c].id
          /\ r.cancelled = x4[c].cancelled /\ r.result \in {{}, x4[c].result} /\ r.handoff = x4[c].handoff
    <2> DEFINE r == Tools!CancelIsServed(x4[c])
    <2>2. x4' = [x4 EXCEPT ![c] = r]
      BY DEF Tools!ServeCancel
    <2>3. /\ r \in Tools!CallRecord
          /\ r.pc \in {"resolved", "ended"} /\ r.cancellation = "done" /\ r.channel = x4[c].channel /\ r.id = x4[c].id
          /\ r.cancelled = x4[c].cancelled /\ r.result \in {{}, x4[c].result} /\ r.handoff = x4[c].handoff
      BY <1>1, <1>2 DEF Tools!CallRecord, Tools!Waiting, Tools!CancelIsServed
    <2> HIDE DEF r
    <2> QED
      BY <2>2, <2>3
  <1>4. x4'[c] = r /\ (\A d \in ToolCall : d # c => x4'[d] = x4[d]) /\ x4' \in [ToolCall -> Tools!CallRecord]
    BY <1>3, ToolsParts DEF Tools!TypeOK
  <1>5. /\ x1'.invocations = x1.invocations /\ x1'.hadIframe = x1.hadIframe /\ x1'.tool = x1.tool
        /\ x1'.attached = x1.attached
        /\ \A i \in x1.running : i \in x1'.running \/ i.by = c
        /\ x1' \in Tools!PageRecord
    BY ToolsParts DEF Tools!ServeCancel, Tools!TypeOK, Tools!PageRecord
  <1>6. /\ x3'.channels = x3.channels /\ x3'.dropped = x3.dropped /\ x3'.tools = x3.tools
        /\ x3'.disposed = x3.disposed /\ x3' \in Tools!ObjectRecord
        /\ x3'.early = x3.early \/ \A d \in ToolCall : ~ Tools!Issues(x4'[d])
    BY ToolsParts DEF Tools!ServeCancel, Tools!TypeOK, Tools!ObjectRecord, Tools!ForgetEarly
  <1>7. Tools!TypeOK'
    BY <1>1, <1>4, <1>5, <1>6, ToolsParts DEF Tools!TypeOK
  <1>8. Tools!CallsOK'
    <2>1. Tools!CallOK(r)
      BY <1>1, <1>3 DEF Tools!CallOK
    <2>2. ~ Tools!Rests(x4[c])
      BY <1>2 DEF Tools!Rests
    <2> QED
      BY <1>1, <1>3, <1>4, <2>1, <2>2, CallsGoOn, ToolsParts DEF Tools!CallsOK
  <1>9. StillWait(x4, x4')
    BY <1>2, <1>3, <1>4 DEF StillWait, Tools!Live
  <1>10. Remembers(x4, x4', x1.running, x1'.running, Tools!OnWire(x2), x3, x3')
    <2> SUFFICES ASSUME NEW d \in ToolCall, Tools!Live(x4'[d]), ~ Tools!Abandoned(x4'[d])
                 PROVE  /\ \A n \in Nat : [channel |-> x4[d].channel, id |-> n, by |-> d] \in x1.running =>
                               [channel |-> x4[d].channel, id |-> n, by |-> d] \in x1'.running
                        /\ x4'[d].channel = x4[d].channel /\ x3'.early = x3.early
      BY <1>6 DEF Remembers
    <2>1. d # c
      BY <1>3, <1>4 DEF Tools!Live
    <2>2. x3'.early = x3.early
      BY <1>6 DEF Tools!Live, Tools!Rests, Tools!Issues
    <2> QED
      BY <1>4, <1>5, <2>1, <2>2
  <1>11. \A d \in ToolCall : x4'[d].channel = x4[d].channel
    BY <1>3, <1>4
  <1>12. (x3'.disposed => x3'.channels = {}) /\ x3'.tools \subseteq x3.tools
    BY <1>6, ToolsParts
  <1> QED
    BY <1>1, <1>5, <1>7, <1>8, <1>9, <1>10, <1>11, <1>12, ToolsQuiet

(* What a change of the inventory leaves alone.                                           *)
SameEars(o, o2) ==
  /\ o2 \in Tools!ObjectRecord /\ o2.channels = o.channels /\ o2.early = o.early /\ o2.dropped = o.dropped
  /\ o2.disposed = o.disposed

(* RemoveWhere changes the inventory and nothing else.                                  *)
LEMMA RemoveWhereLeaves ==
  ASSUME NEW o \in Tools!ObjectRecord, NEW gone
  PROVE  SameEars(o, Tools!RemoveWhere(o, gone)) /\ Tools!RemoveWhere(o, gone).tools = o.tools \ gone
  <1>1. (o.changed \/ gone # {}) \in BOOLEAN /\ o.tools \ gone \in SUBSET [frame : Frame, registration : Nat]
    BY DEF Tools!ObjectRecord
  <1>2. Tools!RemoveWhere(o, gone) = [o EXCEPT !.tools = o.tools \ gone, !.changed = o.changed \/ gone # {}]
    BY DEF Tools!RemoveWhere
  <1> QED
    BY <1>1, <1>2 DEF SameEars, Tools!ObjectRecord

(* Changes marks the inventory and leaves the tools alone.                              *)
LEMMA ChangesLeaves ==
  ASSUME NEW o \in Tools!ObjectRecord
  PROVE  SameEars(o, Tools!Changes(o)) /\ Tools!Changes(o).tools = o.tools
  BY DEF SameEars, Tools!ObjectRecord, Tools!Changes

(* AddTool adds one tool at most.                                                       *)
LEMMA AddToolLeaves ==
  ASSUME NEW o \in Tools!ObjectRecord, NEW f \in Frame, NEW r \in Nat
  PROVE  SameEars(o, Tools!AddTool(o, f, r))
         /\ Tools!AddTool(o, f, r).tools \subseteq o.tools \cup {[frame |-> f, registration |-> r]}
  <1> DEFINE rest == Tools!RemoveWhere(o, Tools!OfFrame(o, f))
             hasty == IF o.initialization[Tools!ChannelOf(f)].pc # "disable" THEN rest.hasty \ {r} ELSE rest.hasty \cup {r}
             kept == [rest EXCEPT !.hasty = hasty]
             a == [kept EXCEPT !.omitted = TRUE]
             b == [kept EXCEPT !.tools = kept.tools \cup {[frame |-> f, registration |-> r]}]
  <1>0. SameEars(o, rest) /\ rest.tools \subseteq o.tools
    BY RemoveWhereLeaves
  <1>1. SameEars(o, kept) /\ kept.tools \subseteq o.tools
    <2>1. rest.hasty \in SUBSET Nat /\ rest \in Tools!ObjectRecord
      BY <1>0 DEF SameEars, Tools!ObjectRecord
    <2>2. hasty \in SUBSET Nat
      BY <2>1
    <2> HIDE DEF hasty, rest
    <2> QED
      BY <1>0, <2>1, <2>2 DEF SameEars, Tools!ObjectRecord
  <1>2. Tools!AddTool(o, f, r) \in {Tools!Changes(a), Tools!Changes(b)}
    <2>1. rest \in Tools!ObjectRecord
      BY <1>0 DEF SameEars
    <2>2. kept = [rest EXCEPT !.hasty = IF o.initialization[Tools!ChannelOf(f)].pc # "disable" THEN @ \ {r}
                                        ELSE @ \cup {r}]
      BY <2>1 DEF Tools!ObjectRecord
    <2>3. kept.tools \in SUBSET [frame : Frame, registration : Nat]
      BY <1>1 DEF SameEars, Tools!ObjectRecord
    <2>4. b = [kept EXCEPT !.tools = @ \cup {[frame |-> f, registration |-> r]}]
      BY <1>1 DEF SameEars, Tools!ObjectRecord
    <2> HIDE DEF a, b, kept
    <2> QED
      BY <2>2, <2>4 DEF Tools!AddTool, a, rest
  <1> HIDE DEF kept
  <1>3. SameEars(o, a) /\ a.tools \subseteq o.tools
    BY <1>1 DEF SameEars, Tools!ObjectRecord
  <1>4. SameEars(o, b) /\ b.tools \subseteq o.tools \cup {[frame |-> f, registration |-> r]}
    <2> DEFINE t == [frame |-> f, registration |-> r]
               tools == kept.tools \cup {t}
    <2>0. t \in [frame : Frame, registration : Nat]
      OBVIOUS
    <2>1. tools \in SUBSET [frame : Frame, registration : Nat] /\ tools \subseteq o.tools \cup {t}
      <3>1. kept.tools \in SUBSET [frame : Frame, registration : Nat]
        BY <1>1 DEF SameEars, Tools!ObjectRecord
      <3> HIDE DEF t
      <3> QED
        BY <1>1, <2>0, <3>1
    <2>2. b = [kept EXCEPT !.tools = tools]
      OBVIOUS
    <2> HIDE DEF b, tools
    <2>3. b \in Tools!ObjectRecord /\ b.tools = tools
      BY <1>1, <2>1, <2>2 DEF SameEars, Tools!ObjectRecord
    <2>4. /\ b.channels = kept.channels /\ b.early = kept.early /\ b.dropped = kept.dropped
          /\ b.disposed = kept.disposed
      BY <1>1, <2>2 DEF SameEars, Tools!ObjectRecord
    <2> QED
      BY <1>1, <2>1, <2>3, <2>4 DEF SameEars
  <1> HIDE DEF a, b
  <1>5. SameEars(o, Tools!Changes(a)) /\ Tools!Changes(a).tools = a.tools
    BY <1>3, ChangesLeaves DEF SameEars
  <1>6. SameEars(o, Tools!Changes(b)) /\ Tools!Changes(b).tools = b.tools
    BY <1>4, ChangesLeaves DEF SameEars
  <1> QED
    BY <1>2, <1>3, <1>4, <1>5, <1>6

(* Other frames change nothing that is heard.                                               *)
LEMMA FramesLeave ==
  ASSUME NEW o \in Tools!ObjectRecord, NEW frames \in SUBSET Frame
  PROVE  LET o2 == [o EXCEPT !.frames = frames] IN SameEars(o, o2) /\ o2.tools = o.tools
  BY DEF SameEars, Tools!ObjectRecord

(* Frames that go add no tool.                                                           *)
LEMMA InvalidateFrameLeaves ==
  ASSUME NEW o \in Tools!ObjectRecord, NEW f
  PROVE  SameEars(o, Tools!InvalidateFrame(o, f)) /\ Tools!InvalidateFrame(o, f).tools \subseteq o.tools
  <1> DEFINE removed == Tools!Family(o.frames, f)
             a == Tools!RemoveWhere(o, {t \in o.tools : t.frame \in removed})
             b == [a EXCEPT !.frames = a.frames \ removed]
  <1>1. SameEars(o, a) /\ a.tools \subseteq o.tools
    BY RemoveWhereLeaves
  <1>2. a \in Tools!ObjectRecord /\ a.frames \ removed \in SUBSET Frame
    BY <1>1 DEF SameEars, Tools!ObjectRecord
  <1>3. Tools!InvalidateFrame(o, f) = b
    BY <1>2 DEF Tools!InvalidateFrame, Tools!ObjectRecord
  <1> HIDE DEF a, removed
  <1> QED
    BY <1>1, <1>2, <1>3, FramesLeave DEF SameEars

(* A navigation adds no tool.                                                           *)
LEMMA NavigatedLeaves ==
  ASSUME NEW o \in Tools!ObjectRecord, NEW f \in Frame
  PROVE  SameEars(o, Tools!Navigated(o, f)) /\ Tools!Navigated(o, f).tools \subseteq o.tools
  <1> DEFINE all == [Tools!RemoveWhere(o, o.tools) EXCEPT !.frames = {}, !.omitted = FALSE]
             left == IF f = Main THEN all ELSE Tools!InvalidateFrame(o, f)
             b == [left EXCEPT !.frames = left.frames \cup {f}]
  <1>1. SameEars(o, all) /\ all.tools \subseteq o.tools
    <2> DEFINE a == Tools!RemoveWhere(o, o.tools)
    <2>1. SameEars(o, a) /\ a.tools \subseteq o.tools
      BY RemoveWhereLeaves
    <2>2. all = [a EXCEPT !.frames = {}, !.omitted = FALSE]
      OBVIOUS
    <2> HIDE DEF a, all
    <2> QED
      BY <2>1, <2>2 DEF SameEars, Tools!ObjectRecord
  <1>2. SameEars(o, left) /\ left.tools \subseteq o.tools
    BY <1>1, InvalidateFrameLeaves
  <1>3. left \in Tools!ObjectRecord /\ left.frames \cup {f} \in SUBSET Frame
    BY <1>2 DEF SameEars, Tools!ObjectRecord
  <1>4. Tools!Navigated(o, f) = Tools!Changes(b)
    <2>1. b = [left EXCEPT !.frames = @ \cup {f}]
      BY <1>3 DEF Tools!ObjectRecord
    <2> HIDE DEF b
    <2> QED
      BY <2>1 DEF Tools!Navigated
  <1> HIDE DEF left
  <1>5. SameEars(o, b) /\ b.tools \subseteq o.tools
    BY <1>2, <1>3, FramesLeave DEF SameEars
  <1> HIDE DEF b
  <1> QED
    BY <1>4, <1>5, ChangesLeaves DEF SameEars

(* What is delivered is a message, and the rest of the wire are messages.                          *)
LEMMA Heard ==
  ASSUME Tools!ToolsInv, NEW kind, Tools!Delivered(kind)
  PROVE  /\ x2 # <<>> /\ x2' = Tail(x2) /\ Head(x2).kind = kind /\ Tools!Next1 = Head(x2)
         /\ Head(x2) \in Tools!Message /\ x2' \in Seq(Tools!Message)
         /\ Tools!OnWire(x2) = {Head(x2)} \cup Tools!OnWire(x2')
         /\ \A n \in Tools!OnWire(x2') : ~ Tools!Clash(Head(x2), n)
         /\ Tools!InOrder(x2')
  <1>1. x2 # <<>> /\ x2' = Tail(x2) /\ Head(x2).kind = kind /\ Tools!Next1 = Head(x2)
    BY DEF Tools!Delivered, Tools!Next1
  <1> QED
    BY <1>1, WireShrinks, ToolsParts DEF Tools!TypeOK

(* A message that is only about the inventory keeps the invariant.                            *)
LEMMA ToolsInventory ==
  ASSUME Tools!ToolsInv, NEW kind \in {"added", "removed", "navigated", "frameAttached", "frameDetached", "answer"}, Tools!Delivered(kind),
         \A c \in ToolCall : ~ Tools!Answers(Head(x2), c),
         x1' = x1, x4' = x4, x5' \in [pc : {x5.pc}, sync : {"none", "asked", "served", "done"}, count : Nat],
         SameEars(x3, x3'),
         \A t \in x3'.tools : t \in x3.tools \/ (Head(x2).kind = "added" /\ t.frame = Head(x2).frame)
  PROVE  Tools!ToolsInv'
  <1>1. x2 # <<>> /\ x2' = Tail(x2) /\ Head(x2).kind # "responded" /\ x2' \in Seq(Tools!Message)
    BY Heard
  <1>2. x5.pc \in {"idle", "starting", "children", "script", "settling", "reporting"}
    BY ToolsParts DEF Tools!TypeOK
  <1>3. Tools!TypeOK'
    BY <1>1, <1>2, ToolsParts DEF Tools!TypeOK, SameEars
  <1>4. Tools!CallsOK'
    BY ToolsParts DEF Tools!CallsOK
  <1>5. StillWait(x4, x4') /\ Remembers(x4, x4', x1.running, x1.running, Tools!OnWire(x2'), x3, x3')
    BY CallsStay DEF SameEars
  <1>6. x3'.disposed => x3'.channels = {}
    BY ToolsParts DEF SameEars
  <1>7. \A c \in ToolCall : x4'[c].channel = x4[c].channel
    OBVIOUS
  <1> QED
    BY <1>1, <1>3, <1>4, <1>5, <1>6, <1>7, ToolsHear

(* ToolsAdded keeps the invariant.                                                *)
LEMMA ToolsToolsAdded ==
  ASSUME Tools!ToolsInv, Tools!ToolsAdded
  PROVE  Tools!ToolsInv'
  <1>1. Tools!Delivered("added") /\ x1' = x1 /\ x4' = x4 /\ x5' = x5
    BY DEF Tools!ToolsAdded
  <1>2. Head(x2).frame \in Frame /\ Head(x2).number \in Nat /\ Tools!Next1 = Head(x2) /\ Head(x2).kind = "added"
    BY <1>1, Heard DEF Tools!Message
  <1>3. \A c \in ToolCall : ~ Tools!Answers(Head(x2), c)
    BY <1>2 DEF Tools!Answers
  <1>4. x3 \in Tools!ObjectRecord
        /\ x5' \in [pc : {x5.pc}, sync : {"none", "asked", "served", "done"}, count : Nat]
    BY <1>1, ToolsParts DEF Tools!TypeOK
  <1>5. x3' = x3 \/ x3' = Tools!AddTool(x3, Head(x2).frame, Head(x2).number)
    BY <1>2 DEF Tools!ToolsAdded
  <1>6. SameEars(x3, x3') /\ x3'.tools \subseteq x3.tools \cup {[frame |-> Head(x2).frame, registration |-> Head(x2).number]}
    <2>1. CASE x3' = x3
      BY <1>4, <2>1 DEF SameEars
    <2>2. CASE x3' = Tools!AddTool(x3, Head(x2).frame, Head(x2).number)
      BY <1>2, <1>4, <2>2, AddToolLeaves
    <2> QED
      BY <1>5, <2>1, <2>2
  <1>7. \A t \in x3'.tools : t \in x3.tools \/ (Head(x2).kind = "added" /\ t.frame = Head(x2).frame)
    BY <1>2, <1>6
  <1> QED
    BY <1>1, <1>3, <1>4, <1>6, <1>7, ToolsInventory

(* ToolsRemoved keeps the invariant.                                                *)
LEMMA ToolsToolsRemoved ==
  ASSUME Tools!ToolsInv, Tools!ToolsRemoved
  PROVE  Tools!ToolsInv'
  <1>1. Tools!Delivered("removed") /\ x1' = x1 /\ x4' = x4 /\ x5' = x5
    BY DEF Tools!ToolsRemoved
  <1>2. Head(x2).kind = "removed" /\ x3 \in Tools!ObjectRecord
        /\ x5' \in [pc : {x5.pc}, sync : {"none", "asked", "served", "done"}, count : Nat]
    BY <1>1, Heard, ToolsParts DEF Tools!TypeOK
  <1>3. \A c \in ToolCall : ~ Tools!Answers(Head(x2), c)
    BY <1>2 DEF Tools!Answers
  <1>4. SameEars(x3, x3') /\ x3'.tools \subseteq x3.tools
    <2>1. CASE x3' = x3
      BY <1>2, <2>1 DEF SameEars
    <2>2. CASE x3' = Tools!RemoveWhere(x3, Tools!OfFrame(x3, Tools!Next1.frame))
      BY <1>2, <2>2, RemoveWhereLeaves
    <2> QED
      BY <2>1, <2>2 DEF Tools!ToolsRemoved
  <1> QED
    BY <1>1, <1>2, <1>3, <1>4, ToolsInventory

(* FrameNavigated keeps the invariant.                                                *)
LEMMA ToolsFrameNavigated ==
  ASSUME Tools!ToolsInv, Tools!FrameNavigated
  PROVE  Tools!ToolsInv'
  <1>1. Tools!Delivered("navigated") /\ x1' = x1 /\ x4' = x4 /\ x5' = x5
    BY DEF Tools!FrameNavigated
  <1>2. Head(x2).kind = "navigated" /\ x3 \in Tools!ObjectRecord /\ Tools!Next1.frame \in Frame
        /\ x5' \in [pc : {x5.pc}, sync : {"none", "asked", "served", "done"}, count : Nat]
    BY <1>1, Heard, ToolsParts DEF Tools!TypeOK, Tools!Message
  <1>3. \A c \in ToolCall : ~ Tools!Answers(Head(x2), c)
    BY <1>2 DEF Tools!Answers
  <1>4. SameEars(x3, x3') /\ x3'.tools \subseteq x3.tools
    <2>1. CASE x3' = x3
      BY <1>2, <2>1 DEF SameEars
    <2>2. CASE x3' = Tools!Navigated(x3, Tools!Next1.frame)
      BY <1>2, <2>2, NavigatedLeaves
    <2> QED
      BY <2>1, <2>2 DEF Tools!FrameNavigated
  <1> QED
    BY <1>1, <1>2, <1>3, <1>4, ToolsInventory

(* FrameAttached keeps the invariant.                                                *)
LEMMA ToolsFrameAttached ==
  ASSUME Tools!ToolsInv, Tools!FrameAttached
  PROVE  Tools!ToolsInv'
  <1>1. Tools!Delivered("frameAttached") /\ x1' = x1 /\ x4' = x4 /\ x5' = x5
    BY DEF Tools!FrameAttached
  <1>2. Head(x2).kind = "frameAttached" /\ x3 \in Tools!ObjectRecord /\ Tools!Next1.frame \in Frame
        /\ x5' \in [pc : {x5.pc}, sync : {"none", "asked", "served", "done"}, count : Nat]
    BY <1>1, Heard, ToolsParts DEF Tools!TypeOK, Tools!Message
  <1>3. \A c \in ToolCall : ~ Tools!Answers(Head(x2), c)
    BY <1>2 DEF Tools!Answers
  <1>4. SameEars(x3, x3') /\ x3'.tools \subseteq x3.tools
    <2>1. CASE x3' = x3
      BY <1>2, <2>1 DEF SameEars
    <2>2. CASE x3' = [x3 EXCEPT !.frames = x3.frames \cup {Tools!Next1.frame}]
      <3>1. x3.frames \cup {Tools!Next1.frame} \in SUBSET Frame
        BY <1>2 DEF Tools!ObjectRecord
      <3> QED
        BY <1>2, <2>2, <3>1, FramesLeave
    <2>3. x3' = x3 \/ x3' = [x3 EXCEPT !.frames = x3.frames \cup {Tools!Next1.frame}]
      BY <1>2 DEF Tools!FrameAttached, Tools!ObjectRecord
    <2> QED
      BY <2>1, <2>2, <2>3
  <1> QED
    BY <1>1, <1>2, <1>3, <1>4, ToolsInventory

(* FrameDetached keeps the invariant.                                                *)
LEMMA ToolsFrameDetached ==
  ASSUME Tools!ToolsInv, Tools!FrameDetached
  PROVE  Tools!ToolsInv'
  <1>1. Tools!Delivered("frameDetached") /\ x1' = x1 /\ x4' = x4 /\ x5' = x5
    BY DEF Tools!FrameDetached
  <1>2. Head(x2).kind = "frameDetached" /\ x3 \in Tools!ObjectRecord /\ Tools!Next1.frame \in Frame
        /\ x5' \in [pc : {x5.pc}, sync : {"none", "asked", "served", "done"}, count : Nat]
    BY <1>1, Heard, ToolsParts DEF Tools!TypeOK, Tools!Message
  <1>3. \A c \in ToolCall : ~ Tools!Answers(Head(x2), c)
    BY <1>2 DEF Tools!Answers
  <1>4. SameEars(x3, x3') /\ x3'.tools \subseteq x3.tools
    <2>1. CASE x3' = x3
      BY <1>2, <2>1 DEF SameEars
    <2>2. CASE x3' = Tools!InvalidateFrame(x3, Tools!Next1.frame)
      BY <1>2, <2>2, InvalidateFrameLeaves
    <2> QED
      BY <2>1, <2>2 DEF Tools!FrameDetached
  <1> QED
    BY <1>1, <1>2, <1>3, <1>4, ToolsInventory

(* Initialize keeps the invariant.                                                *)
LEMMA ToolsInitialize ==
  ASSUME Tools!ToolsInv, Tools!Initialize
  PROVE  Tools!ToolsInv'
  <1>1. Tools!Delivered("answer") /\ x1' = x1 /\ x4' = x4 /\ x5' = x5 /\ Tools!Next1.who \in Tools!Channel
    BY DEF Tools!Initialize
  <1>2. Head(x2).kind = "answer" /\ x3 \in Tools!ObjectRecord /\ Head(x2).who \in Tools!Channel
        /\ x5' \in [pc : {x5.pc}, sync : {"none", "asked", "served", "done"}, count : Nat]
    BY <1>1, Heard, ToolsParts DEF Tools!TypeOK
  <1>3. \A c \in ToolCall : ~ Tools!Answers(Head(x2), c)
    BY <1>2, ToolsAssumption DEF Tools!Answers, Tools!Channel
  <1> DEFINE ch == Head(x2).who
             frames == x3.frames \cup (IF x3.disposed THEN {} ELSE Head(x2).frames)
             moves(pc) == [x3 EXCEPT !.initialization[ch] = [pc |-> pc, served |-> FALSE], !.frames = frames]
             opens == [moves("done") EXCEPT !.status = "available"]
  <1>4. \/ x3' = x3 \/ \E pc \in {"done", "enable", "tree"} : x3' = moves(pc)
        \/ x3' = Tools!Changes(moves("done")) \/ x3' = Tools!Changes(opens)
    <2> DEFINE told1 == IF x3.disposed THEN {} ELSE Head(x2).frames
               m2(pc) == [x3 EXCEPT !.initialization[ch] = [pc |-> pc, served |-> FALSE], !.frames = @ \cup told1]
    <2>1. \A pc \in {"done", "enable", "tree"} : m2(pc) = moves(pc)
      BY <1>2 DEF Tools!ObjectRecord
    <2>2. \/ x3' = x3 \/ \E pc \in {"done", "enable", "tree"} : x3' = m2(pc)
          \/ x3' = Tools!Changes(m2("done")) \/ x3' = Tools!Changes([m2("done") EXCEPT !.status = "available"])
      BY <1>1, Heard DEF Tools!Initialize
    <2> HIDE DEF m2, moves
    <2> QED
      BY <2>1, <2>2
  <1>9. frames \in SUBSET Frame
    BY <1>1, <1>2, Heard DEF Tools!ObjectRecord, Tools!Message
  <1> HIDE DEF frames
  <1>5. \A pc \in {"done", "enable", "tree"} : SameEars(x3, moves(pc)) /\ moves(pc).tools = x3.tools
    <2> SUFFICES ASSUME NEW pc \in {"done", "enable", "tree"}
                 PROVE  SameEars(x3, moves(pc)) /\ moves(pc).tools = x3.tools
      OBVIOUS
    <2>1. [x3.initialization EXCEPT ![ch] = [pc |-> pc, served |-> FALSE]] \in
            [Tools!Channel -> [pc : {"none", "disable", "enable", "tree", "done"}, served : BOOLEAN]]
      BY <1>2 DEF Tools!ObjectRecord
    <2>2. moves(pc) = [x3 EXCEPT !.initialization = [x3.initialization EXCEPT ![ch] = [pc |-> pc, served |-> FALSE]],
                                 !.frames = frames]
      BY <1>2 DEF Tools!ObjectRecord
    <2> QED
      BY <1>2, <1>9, <2>1, <2>2 DEF SameEars, Tools!ObjectRecord
  <1>6. SameEars(x3, opens) /\ opens.tools = x3.tools
    <2>1. SameEars(x3, moves("done")) /\ moves("done").tools = x3.tools
      BY <1>5
    <2> HIDE DEF moves
    <2> QED
      BY <2>1 DEF SameEars, Tools!ObjectRecord
  <1> HIDE DEF moves, opens
  <1>7. /\ SameEars(x3, Tools!Changes(moves("done"))) /\ Tools!Changes(moves("done")).tools = x3.tools
        /\ SameEars(x3, Tools!Changes(opens)) /\ Tools!Changes(opens).tools = x3.tools
    BY <1>5, <1>6, ChangesLeaves DEF SameEars
  <1>8. SameEars(x3, x3') /\ x3'.tools \subseteq x3.tools
    <2>1. CASE x3' = x3
      BY <1>2, <2>1 DEF SameEars
    <2> QED
      BY <1>4, <1>5, <1>7, <2>1
  <1> QED
    BY <1>1, <1>2, <1>3, <1>8, ToolsInventory

(* Synchronized keeps the invariant.                                                *)
LEMMA ToolsSynchronized ==
  ASSUME Tools!ToolsInv, Tools!Synchronized
  PROVE  Tools!ToolsInv'
  <1>1. /\ Tools!Delivered("answer") /\ x1' = x1 /\ x4' = x4 /\ x5' = [x5 EXCEPT !.sync = "done"]
        /\ Tools!Next1.who = "sync"
    BY DEF Tools!Synchronized
  <1>2. Head(x2).kind = "answer" /\ x3 \in Tools!ObjectRecord /\ Head(x2).who = "sync"
        /\ x5' \in [pc : {x5.pc}, sync : {"none", "asked", "served", "done"}, count : Nat]
    BY <1>1, Heard, ToolsParts DEF Tools!TypeOK
  <1>3. \A c \in ToolCall : ~ Tools!Answers(Head(x2), c)
    BY <1>2, ToolsAssumption DEF Tools!Answers
  <1> DEFINE a == [x3 EXCEPT !.status = "unavailable"]
  <1>4. SameEars(x3, a) /\ a.tools = x3.tools
    BY <1>2 DEF SameEars, Tools!ObjectRecord
  <1> DEFINE b == [x3 EXCEPT !.frames = x3.frames \cup Head(x2).frames]
  <1>5. x3' = x3 \/ x3' = b \/ x3' = Tools!Changes(a)
    BY <1>1, <1>2, Heard DEF Tools!Synchronized, Tools!ObjectRecord
  <1>8. SameEars(x3, b) /\ b.tools = x3.tools
    <2>1. x3.frames \cup Head(x2).frames \in SUBSET Frame
      BY <1>1, <1>2, Heard DEF Tools!ObjectRecord, Tools!Message
    <2> QED
      BY <1>2, <2>1, FramesLeave
  <1> HIDE DEF a, b
  <1>6. SameEars(x3, Tools!Changes(a)) /\ Tools!Changes(a).tools = x3.tools
    BY <1>4, ChangesLeaves DEF SameEars
  <1>7. SameEars(x3, x3) 
    BY <1>2 DEF SameEars
  <1> QED
    BY <1>1, <1>2, <1>3, <1>5, <1>6, <1>7, <1>8, ToolsInventory

(* Enabling a channel leaves the rest of the object alone.                               *)
LEMMA EnableLeaves ==
  ASSUME NEW o \in Tools!ObjectRecord, NEW ch \in Tools!Channel
  PROVE  LET o2 == Tools!Enable(o, ch)
         IN  /\ o2 \in Tools!ObjectRecord /\ o2.channels \subseteq o.channels \cup {ch} /\ o2.early = o.early
             /\ o2.dropped = o.dropped /\ o2.disposed = o.disposed /\ o2.tools = o.tools
  <1>1. CASE o.initialization[ch].pc # "none"
    BY <1>1 DEF Tools!Enable
  <1>2. CASE o.initialization[ch].pc = "none"
    <2> DEFINE i == [o.initialization EXCEPT ![ch] = [pc |-> "disable", served |-> FALSE]]
               o2 == [o EXCEPT !.channels = o.channels \cup {ch}, !.initialization = i]
    <2>1. i \in [Tools!Channel -> [pc : {"none", "disable", "enable", "tree", "done"}, served : BOOLEAN]]
          /\ o.channels \cup {ch} \in SUBSET Tools!Channel
      BY DEF Tools!ObjectRecord
    <2>2. Tools!Enable(o, ch) = o2
      BY <1>2 DEF Tools!Enable, Tools!ObjectRecord
    <2> HIDE DEF i
    <2> QED
      BY <2>1, <2>2 DEF Tools!ObjectRecord
  <1> QED
    BY <1>1, <1>2

(* AttachedToTarget keeps the invariant.                                                *)
LEMMA ToolsAttachedToTarget ==
  ASSUME Tools!ToolsInv, Tools!AttachedToTarget
  PROVE  Tools!ToolsInv'
  <1>1. Tools!Delivered("attached") /\ x1' = x1 /\ x4' = x4 /\ x5' = x5
    BY DEF Tools!AttachedToTarget
  <1>2. /\ x2 # <<>> /\ x2' = Tail(x2) /\ Head(x2).kind = "attached" /\ x2' \in Seq(Tools!Message)
        /\ Head(x2) \in Tools!OnWire(x2)
    BY <1>1, Heard
  <1>3. \A c \in ToolCall : ~ Tools!Answers(Head(x2), c)
    BY <1>2 DEF Tools!Answers
  <1>4. /\ x3' \in Tools!ObjectRecord /\ x3'.channels \subseteq x3.channels \cup {Iframe} /\ x3'.early = x3.early
        /\ x3'.dropped = x3.dropped /\ x3'.disposed = x3.disposed /\ x3'.tools = x3.tools
        /\ x3.disposed => x3' = x3
    <2>1. Iframe \in Tools!Channel /\ x3 \in Tools!ObjectRecord
      BY ToolsParts DEF Tools!Channel, Tools!TypeOK
    <2> QED
      BY <2>1, EnableLeaves DEF Tools!AttachedToTarget
  <1>5. \A c \in ToolCall : x4[c].channel # Iframe
    BY <1>2, ToolsParts DEF Tools!NewIframeIsUnknown, Tools!IframeIsNew
  <1>6. Tools!TypeOK'
    BY <1>1, <1>2, <1>4, ToolsParts DEF Tools!TypeOK
  <1>7. Tools!CallsOK'
    BY <1>1, ToolsParts DEF Tools!CallsOK
  <1>8. StillWait(x4, x4') /\ Remembers(x4, x4', x1.running, x1.running, Tools!OnWire(x2'), x3, x3')
    BY <1>1, <1>4, <1>5 DEF StillWait, Remembers
  <1>9. x3'.disposed => x3'.channels = {}
    BY <1>4, ToolsParts
  <1> QED
    BY <1>1, <1>2, <1>3, <1>4, <1>6, <1>7, <1>8, <1>9, ToolsHear

(* A call that fails has no result, and its cancellation is awaited.                                  *)
LEMMA FailsEndsTheCall ==
  ASSUME Tools!TypeOK, Tools!CallsOK, NEW c \in ToolCall, x4[c].cancellation # "done" \/ x4[c].pc = "resolved"
  PROVE  LET r == Tools!Fails(c)
         IN  /\ r \in Tools!CallRecord /\ r.pc \in {"finishing", "ended"} /\ r.channel = x4[c].channel
             /\ r.id = x4[c].id /\ Tools!CallOK(r) /\ r.result = {} /\ r.handoff = x4[c].handoff
             /\ x4[c].cancellation # "sent" => r.pc = "ended"
  <1>1. x4[c] \in Tools!CallRecord /\ Tools!CallOK(x4[c])
    BY DEF Tools!TypeOK, Tools!CallsOK
  <1>2. PICK p \in {"finishing", "ended"} :
          /\ Tools!Fails(c) = [x4[c] EXCEPT !.pc = p, !.result = {}]
          /\ p = "finishing" <=> x4[c].cancellation = "sent"
    <2>1. Tools!Fails(c) = [x4[c] EXCEPT !.pc = IF x4[c].cancellation = "sent" THEN "finishing" ELSE "ended",
                                        !.result = {}]
      BY <1>1 DEF Tools!Fails, Tools!EndsAfterCancel, Tools!CallRecord
    <2> QED
      BY <2>1
  <1> QED
    BY <1>1, <1>2 DEF Tools!CallRecord, Tools!CallOK

(* The calls that wait in a channel fail with it; the others stay as they are.                              *)
LEMMA FailPendingEnds ==
  ASSUME Tools!TypeOK, Tools!CallsOK, NEW channels, NEW k2, k2 = Tools!FailPending(channels)
  PROVE  /\ k2 \in [ToolCall -> Tools!CallRecord] /\ StillWait(x4, k2)
         /\ \A c \in ToolCall : Tools!CallOK(k2[c]) /\ (k2[c] = x4[c] \/ ~ Tools!Rests(x4[c]))
         /\ \A c \in ToolCall : k2[c].channel = x4[c].channel
         /\ \A c \in ToolCall : k2[c] = x4[c] \/ (~ Tools!Live(k2[c]) /\ x4[c].pc = "pending")
         /\ \A c \in ToolCall : x4[c].pc = "pending" /\ x4[c].channel \in channels => ~ Tools!Live(k2[c])
         /\ \A c \in ToolCall : k2[c].handoff = x4[c].handoff /\ k2[c].id = x4[c].id
         /\ \A c \in ToolCall : k2[c].result \in {{}, x4[c].result}
  <1>1. \A c \in ToolCall : k2[c] = IF x4[c].pc = "pending" /\ x4[c].channel \in channels THEN Tools!Fails(c) ELSE x4[c]
    BY DEF Tools!FailPending
  <1>2. ASSUME NEW c \in ToolCall, x4[c].pc = "pending" /\ x4[c].channel \in channels
        PROVE  /\ k2[c] \in Tools!CallRecord /\ k2[c].pc \in {"finishing", "ended"} /\ k2[c].channel = x4[c].channel
               /\ k2[c].id = x4[c].id /\ k2[c].result = {}
               /\ Tools!CallOK(k2[c]) /\ k2[c].handoff = x4[c].handoff
    <2>1. x4[c].cancellation # "done"
      BY <1>2 DEF Tools!CallsOK, Tools!CallOK
    <2> QED
      BY <1>1, <1>2, <2>1, FailsEndsTheCall
  <1>3. \A c \in ToolCall : x4[c] \in Tools!CallRecord /\ Tools!CallOK(x4[c])
    BY DEF Tools!TypeOK, Tools!CallsOK
  <1>4. \A c \in ToolCall : /\ k2[c] \in Tools!CallRecord /\ Tools!CallOK(k2[c])
                            /\ k2[c].channel = x4[c].channel
                            /\ \/ k2[c] = x4[c]
                               \/ /\ k2[c].pc \in {"finishing", "ended"} /\ x4[c].pc = "pending"
                                  /\ k2[c].handoff = x4[c].handoff
    BY <1>1, <1>2, <1>3
  <1>5. k2 \in [ToolCall -> Tools!CallRecord]
    <2>1. k2 = [c \in ToolCall |-> k2[c]]
      BY DEF Tools!FailPending
    <2> QED
      BY <1>4, <2>1
  <1>6. \A c \in ToolCall : k2[c] = x4[c] \/ ~ Tools!Rests(x4[c])
    BY <1>4 DEF Tools!Rests
  <1>7. StillWait(x4, k2)
    BY <1>4 DEF StillWait, Tools!Live
  <1>8. \A c \in ToolCall : x4[c].pc = "pending" /\ x4[c].channel \in channels => ~ Tools!Live(k2[c])
    BY <1>2 DEF Tools!Live
  <1>9. \A c \in ToolCall : /\ k2[c].handoff = x4[c].handoff /\ k2[c].id = x4[c].id
                            /\ k2[c].result \in {{}, x4[c].result}
    BY <1>1, <1>2
  <1> QED
    BY <1>4, <1>5, <1>6, <1>7, <1>8, <1>9 DEF Tools!Live

(* So it is when nothing else happens to them.                                              *)
LEMMA FailPendingMoves ==
  ASSUME Tools!TypeOK, Tools!CallsOK, NEW channels, x4' = Tools!FailPending(channels), x5' = x5
  PROVE  /\ x4' \in [ToolCall -> Tools!CallRecord] /\ Tools!CallsOK' /\ StillWait(x4, x4')
         /\ \A c \in ToolCall : x4'[c].channel = x4[c].channel
         /\ \A c \in ToolCall : x4'[c] = x4[c] \/ (~ Tools!Live(x4'[c]) /\ x4[c].pc = "pending")
  <1>1. /\ x4' \in [ToolCall -> Tools!CallRecord] /\ StillWait(x4, x4')
        /\ \A c \in ToolCall : Tools!CallOK(x4'[c]) /\ (x4'[c] = x4[c] \/ ~ Tools!Rests(x4[c]))
        /\ \A c \in ToolCall : x4'[c].channel = x4[c].channel
        /\ \A c \in ToolCall : x4'[c] = x4[c] \/ (~ Tools!Live(x4'[c]) /\ x4[c].pc = "pending")
        /\ \A c \in ToolCall : x4'[c].handoff = x4[c].handoff
    BY FailPendingEnds
  <1>2. Tools!CallsOK'
    BY <1>1, CallsGoOn
  <1> QED
    BY <1>1, <1>2

(* Responses are kept as long as a call is under way.                                          *)
LEMMA ForgetEarlyLeaves ==
  ASSUME NEW o \in Tools!ObjectRecord, NEW k
  PROVE  LET o2 == Tools!ForgetEarly(o, k)
         IN  /\ o2 \in Tools!ObjectRecord /\ o2.channels = o.channels /\ o2.dropped = o.dropped
             /\ o2.disposed = o.disposed /\ o2.tools = o.tools
             /\ o2.early = o.early \/ \A c \in ToolCall : ~ Tools!Issues(k[c])
  <1>1. CASE \A c \in ToolCall : ~ Tools!Issues(k[c])
    BY <1>1 DEF Tools!ForgetEarly, Tools!ObjectRecord
  <1>2. CASE ~ \A c \in ToolCall : ~ Tools!Issues(k[c])
    <2>1. Tools!ForgetEarly(o, k) = o
      BY <1>2 DEF Tools!ForgetEarly
    <2> QED
      BY <2>1
  <1> QED
    BY <1>1, <1>2

(* DetachedFromTarget keeps the invariant.                                                *)
LEMMA ToolsDetachedFromTarget ==
  ASSUME Tools!ToolsInv, Tools!DetachedFromTarget
  PROVE  Tools!ToolsInv'
  <1>1. Tools!Delivered("detached") /\ x1' = x1 /\ x5' = x5
    BY DEF Tools!DetachedFromTarget
  <1>2. x2 # <<>> /\ x2' = Tail(x2) /\ Head(x2).kind = "detached" /\ x2' \in Seq(Tools!Message)
    BY <1>1, Heard
  <1>3. \A c \in ToolCall : ~ Tools!Answers(Head(x2), c)
    BY <1>2 DEF Tools!Answers
  <1>4. x3 \in Tools!ObjectRecord /\ Tools!TypeOK /\ Tools!CallsOK
    BY ToolsParts DEF Tools!TypeOK
  <1>5. CASE x3.disposed
    <2>1. x3' = x3 /\ x4' = x4
      BY <1>5 DEF Tools!DetachedFromTarget, Tools!Unheard
    <2>2. Tools!TypeOK' /\ Tools!CallsOK'
      BY <1>1, <1>2, <2>1, ToolsParts DEF Tools!TypeOK, Tools!CallsOK
    <2>3. StillWait(x4, x4') /\ Remembers(x4, x4', x1.running, x1.running, Tools!OnWire(x2'), x3, x3')
      BY <2>1, CallsStay
    <2> QED
      BY <1>1, <1>2, <1>3, <2>1, <2>2, <2>3, ToolsHear, ToolsParts
  <1>6. CASE ~ x3.disposed
    <2> DEFINE gone == Tools!OfChannel(x3, Iframe)
               a == Tools!RemoveWhere(x3, gone)
               b == [a EXCEPT !.channels = a.channels \ {Iframe}, !.initialization[Iframe] = Tools!NotStarted]
    <2>1. x4' = Tools!FailPending({Iframe}) /\ x3' = Tools!ForgetEarly(b, x4')
      BY <1>6 DEF Tools!DetachedFromTarget
    <2>2. SameEars(x3, a) /\ a.tools \subseteq x3.tools
      BY <1>4, RemoveWhereLeaves
    <2> HIDE DEF a
    <2>3. /\ b \in Tools!ObjectRecord /\ b.channels = x3.channels \ {Iframe} /\ b.early = x3.early
          /\ b.dropped = x3.dropped /\ b.disposed = x3.disposed /\ b.tools \subseteq x3.tools
      <3> DEFINE i == [a.initialization EXCEPT ![Iframe] = Tools!NotStarted]
      <3>1. i \in [Tools!Channel -> [pc : {"none", "disable", "enable", "tree", "done"}, served : BOOLEAN]]
        BY <2>2 DEF SameEars, Tools!ObjectRecord, Tools!NotStarted
      <3>2. b = [a EXCEPT !.channels = a.channels \ {Iframe}, !.initialization = i]
        BY <2>2 DEF SameEars, Tools!ObjectRecord
      <3> HIDE DEF i
      <3> QED
        BY <2>2, <3>1, <3>2 DEF SameEars, Tools!ObjectRecord
    <2> HIDE DEF b
    <2>4. /\ x3' \in Tools!ObjectRecord /\ x3'.channels = x3.channels \ {Iframe}
          /\ x3'.dropped = x3.dropped /\ x3'.disposed = x3.disposed /\ x3'.tools \subseteq x3.tools
          /\ x3'.early = x3.early \/ \A c \in ToolCall : ~ Tools!Issues(x4'[c])
      BY <2>1, <2>3, ForgetEarlyLeaves
    <2>5. /\ x4' \in [ToolCall -> Tools!CallRecord] /\ Tools!CallsOK' /\ StillWait(x4, x4')
          /\ \A c \in ToolCall : x4'[c].channel = x4[c].channel
          /\ \A c \in ToolCall : x4'[c] = x4[c] \/ (~ Tools!Live(x4'[c]) /\ x4[c].pc = "pending")
      BY <1>1, <1>4, <2>1, FailPendingMoves
    <2>6. Tools!TypeOK'
      BY <1>1, <1>2, <2>4, <2>5, ToolsParts DEF Tools!TypeOK
    <2>7. Remembers(x4, x4', x1.running, x1.running, Tools!OnWire(x2'), x3, x3')
      BY <2>4, <2>5 DEF Remembers, Tools!Live, Tools!Issues, Tools!Rests
    <2>8. x3'.disposed => x3'.channels = {}
      BY <2>4, ToolsParts
    <2> QED
      BY <1>1, <1>2, <1>3, <2>4, <2>5, <2>6, <2>7, <2>8, ToolsHear
  <1> QED
    BY <1>5, <1>6

(* IframeCrashed keeps the invariant.                                                *)
LEMMA ToolsIframeCrashed ==
  ASSUME Tools!ToolsInv, Tools!IframeCrashed
  PROVE  Tools!ToolsInv'
  <1>1. Tools!Delivered("crashed") /\ x1' = x1 /\ x5' = x5
    BY DEF Tools!IframeCrashed
  <1>2. x2 # <<>> /\ x2' = Tail(x2) /\ Head(x2).kind = "crashed" /\ x2' \in Seq(Tools!Message)
    BY <1>1, Heard
  <1>3. \A c \in ToolCall : ~ Tools!Answers(Head(x2), c)
    BY <1>2 DEF Tools!Answers
  <1>4. x3 \in Tools!ObjectRecord /\ Tools!TypeOK /\ Tools!CallsOK
    BY ToolsParts DEF Tools!TypeOK
  <1>5. CASE x3.disposed
    <2>1. x3' = x3 /\ x4' = x4
      BY <1>5 DEF Tools!IframeCrashed, Tools!Unheard
    <2>2. Tools!TypeOK' /\ Tools!CallsOK'
      BY <1>1, <1>2, <2>1, ToolsParts DEF Tools!TypeOK, Tools!CallsOK
    <2>3. StillWait(x4, x4') /\ Remembers(x4, x4', x1.running, x1.running, Tools!OnWire(x2'), x3, x3')
      BY <2>1, CallsStay
    <2> QED
      BY <1>1, <1>2, <1>3, <2>1, <2>2, <2>3, ToolsHear, ToolsParts
  <1>6. CASE ~ x3.disposed
    <2> DEFINE a == Tools!RemoveWhere(x3, Tools!OfChannel(x3, Iframe))
    <2>1. x4' = Tools!FailPending({Iframe}) /\ x3' = Tools!ForgetEarly(a, x4')
      BY <1>6 DEF Tools!IframeCrashed
    <2>2. SameEars(x3, a) /\ a.tools \subseteq x3.tools
      BY <1>4, RemoveWhereLeaves
    <2> HIDE DEF a
    <2>4. /\ x3' \in Tools!ObjectRecord /\ x3'.channels = x3.channels
          /\ x3'.dropped = x3.dropped /\ x3'.disposed = x3.disposed /\ x3'.tools \subseteq x3.tools
          /\ x3'.early = x3.early \/ \A c \in ToolCall : ~ Tools!Issues(x4'[c])
      BY <2>1, <2>2, ForgetEarlyLeaves DEF SameEars
    <2>5. /\ x4' \in [ToolCall -> Tools!CallRecord] /\ Tools!CallsOK' /\ StillWait(x4, x4')
          /\ \A c \in ToolCall : x4'[c].channel = x4[c].channel
          /\ \A c \in ToolCall : x4'[c] = x4[c] \/ (~ Tools!Live(x4'[c]) /\ x4[c].pc = "pending")
      BY <1>1, <1>4, <2>1, FailPendingMoves
    <2>6. Tools!TypeOK'
      BY <1>1, <1>2, <2>4, <2>5, ToolsParts DEF Tools!TypeOK
    <2>7. Remembers(x4, x4', x1.running, x1.running, Tools!OnWire(x2'), x3, x3')
      BY <2>4, <2>5 DEF Remembers, Tools!Live, Tools!Issues, Tools!Rests
    <2>8. x3'.disposed => x3'.channels = {}
      BY <2>4, ToolsParts
    <2> QED
      BY <1>1, <1>2, <1>3, <2>4, <2>5, <2>6, <2>7, <2>8, ToolsHear
  <1> QED
    BY <1>5, <1>6

(* A disposed object hears of nothing.                                                 *)
LEMMA DisposeLeaves ==
  ASSUME NEW o \in Tools!ObjectRecord
  PROVE  LET o2 == Tools!Dispose(o)
         IN  o2 \in Tools!ObjectRecord /\ o2.disposed /\ o2.channels = {} /\ o2.tools = {}
  BY DEF Tools!Dispose, Tools!ObjectRecord, Tools!NewObject, Tools!NotStarted

(* ToolResponded keeps the invariant.                                                *)
LEMMA ToolsToolResponded ==
  ASSUME Tools!ToolsInv, Tools!ToolResponded
  PROVE  Tools!ToolsInv'
  <1> DEFINE m == Head(x2)
             key == [channel |-> m.channel, id |-> m.number]
             waiting == {c \in ToolCall : x4[c].pc = "pending" /\ Tools!IsInvocation(c, m)}
  <1>1. Tools!Delivered("responded") /\ x1' = x1 /\ x5' = x5
    BY DEF Tools!ToolResponded
  <1>2. /\ x2 # <<>> /\ x2' = Tail(x2) /\ m.kind = "responded" /\ x2' \in Seq(Tools!Message) /\ Tools!Next1 = m
        /\ Tools!OnWire(x2) = {m} \cup Tools!OnWire(x2') /\ Tools!InOrder(x2')
        /\ m.channel \in Tools!Channel /\ m.number \in Nat
    BY <1>1, Heard DEF Tools!Message
  <1> HIDE DEF m
  <1>3. x3 \in Tools!ObjectRecord /\ x4 \in [ToolCall -> Tools!CallRecord] /\ Tools!CallsOK
    BY ToolsParts DEF Tools!TypeOK
  <1>4. \A c \in ToolCall : \A a : Tools!Answers(a, c) => (a \in Tools!OnWire(x2) <=> a \in Tools!OnWire(x2'))
    BY <1>2 DEF Tools!Answers
  <1>5. \/ ~ Tools!Followed /\ x3' = x3 /\ x4' = x4
        \/ \E c \in waiting : x4' = [x4 EXCEPT ![c].pc = "resolved", ![c].result = {key}] /\ x3' = x3
        \/ /\ waiting = {} /\ x4' = x4
           /\ \/ x3' = x3 /\ Tools!Issuing = {}
              \/ x3' = [x3 EXCEPT !.dropped = TRUE]
              \/ x3' = [x3 EXCEPT !.early = x3.early \cup {key}]
    <2>1. CASE ~ Tools!Followed
      BY <2>1 DEF Tools!ToolResponded, Tools!Unheard
    <2>2. CASE Tools!Followed /\ waiting # {}
      <3> DEFINE c == CHOOSE y \in waiting : TRUE
      <3>1. c \in waiting
        BY <2>2
      <3>2. x4' = [x4 EXCEPT ![c].pc = "resolved", ![c].result = {key}] /\ x3' = x3
        BY <1>2, <2>2 DEF Tools!ToolResponded
      <3> QED
        BY <3>1, <3>2
    <2>3. CASE Tools!Followed /\ waiting = {}
      BY <1>2, <1>3, <2>3 DEF Tools!ToolResponded, Tools!ObjectRecord
    <2> QED
      BY <2>1, <2>2, <2>3
  <1> HIDE DEF key, waiting
  <1>6. \/ x4' = x4
        \/ \E c \in waiting : /\ x3' = x3 /\ x4'[c].pc = "resolved" /\ x4'[c].channel = x4[c].channel
                              /\ x4'[c] \in Tools!CallRecord /\ Tools!CallOK(x4'[c])
                              /\ x4'[c].handoff = x4[c].handoff
                              /\ \A d \in ToolCall : d # c => x4'[d] = x4[d]
                              /\ x4' \in [ToolCall -> Tools!CallRecord]
    <2> SUFFICES ASSUME NEW c \in waiting, x4' = [x4 EXCEPT ![c].pc = "resolved", ![c].result = {key}], x3' = x3
                 PROVE  /\ x3' = x3 /\ x4'[c].pc = "resolved" /\ x4'[c].channel = x4[c].channel
                        /\ x4'[c] \in Tools!CallRecord /\ Tools!CallOK(x4'[c])
                        /\ x4'[c].handoff = x4[c].handoff
                        /\ \A d \in ToolCall : d # c => x4'[d] = x4[d]
                        /\ x4' \in [ToolCall -> Tools!CallRecord]
      BY <1>5
    <2> DEFINE r == [x4[c] EXCEPT !.pc = "resolved", !.result = {key}]
    <2>1. /\ c \in ToolCall /\ x4[c] \in Tools!CallRecord /\ Tools!CallOK(x4[c]) /\ x4[c].pc = "pending"
          /\ x4[c].channel = m.channel /\ x4[c].id = m.number
      BY <1>3 DEF waiting, Tools!IsInvocation, Tools!CallsOK
    <2>2. key \in [channel : Tools!Channel, id : Nat] /\ key = [channel |-> x4[c].channel, id |-> x4[c].id]
      BY <1>2, <2>1 DEF key
    <2>3. /\ r \in Tools!CallRecord /\ Tools!CallOK(r) /\ r.pc = "resolved" /\ r.channel = x4[c].channel
          /\ r.handoff = x4[c].handoff
      BY <2>1, <2>2 DEF Tools!CallRecord, Tools!CallOK
    <2>4. x4' = [x4 EXCEPT ![c] = r]
      BY <1>3, <2>1
    <2> HIDE DEF r
    <2> QED
      BY <1>3, <2>1, <2>3, <2>4
  <1>7. x4' \in [ToolCall -> Tools!CallRecord] /\ \A c \in ToolCall : x4'[c].channel = x4[c].channel
    BY <1>3, <1>6 DEF waiting
  <1>8. Tools!CallsOK'
    <2>1. CASE x4' = x4
      BY <1>1, <1>3, <2>1 DEF Tools!CallsOK
    <2>2. CASE \E c \in waiting : /\ Tools!CallOK(x4'[c]) /\ x4'[c].handoff = x4[c].handoff
                                  /\ \A d \in ToolCall : d # c => x4'[d] = x4[d]
      <3>1. PICK c \in waiting : /\ Tools!CallOK(x4'[c]) /\ x4'[c].handoff = x4[c].handoff
                                 /\ \A d \in ToolCall : d # c => x4'[d] = x4[d]
        BY <2>2
      <3>2. c \in ToolCall /\ ~ Tools!Rests(x4[c])
        BY DEF waiting, Tools!Rests
      <3>3. \A d \in ToolCall : Tools!CallOK(x4'[d])
        BY <1>3, <3>1 DEF Tools!CallsOK
      <3> QED
        BY <1>1, <1>3, <3>1, <3>2, <3>3, CallsGoOn
    <2> QED
      BY <1>6, <2>1, <2>2
  <1>9. /\ x3' \in Tools!ObjectRecord /\ x3'.channels = x3.channels /\ x3'.disposed = x3.disposed
        /\ x3'.tools = x3.tools /\ x3.early \subseteq x3'.early /\ (x3.dropped => x3'.dropped)
        /\ Tools!Followed => \/ waiting = {} /\ (Tools!Issuing = {} \/ x3'.dropped \/ key \in x3'.early)
                             \/ \E d \in waiting : x4'[d].pc = "resolved"
    <2>1. key \in [channel : Tools!Channel, id : Nat]
      BY <1>2 DEF key
    <2>2. CASE ~ Tools!Followed /\ x3' = x3
      BY <1>3, <2>2
    <2>3. CASE \E c \in waiting : x4' = [x4 EXCEPT ![c].pc = "resolved", ![c].result = {key}] /\ x3' = x3
      <3>1. \E c \in waiting : x4'[c].pc = "resolved"
        BY <1>3, <2>3 DEF Tools!CallRecord, waiting
      <3> QED
        BY <1>3, <2>3, <3>1
    <2>4. CASE waiting = {} /\ x3' = x3 /\ Tools!Issuing = {}
      BY <1>3, <2>4
    <2>5. CASE waiting = {} /\ x3' = [x3 EXCEPT !.dropped = TRUE]
      BY <1>3, <2>5 DEF Tools!ObjectRecord
    <2>6. CASE waiting = {} /\ x3' = [x3 EXCEPT !.early = x3.early \cup {key}]
      BY <1>3, <2>1, <2>6 DEF Tools!ObjectRecord
    <2> QED
      BY <1>5, <2>2, <2>3, <2>4, <2>5, <2>6
  <1>10. Tools!TypeOK'
    BY <1>1, <1>2, <1>7, <1>9, ToolsParts DEF Tools!TypeOK
  <1>11. StillWait(x4, x4')
    BY <1>6 DEF StillWait, Tools!Live, waiting
  <1>12. /\ Tools!AnswersAreDue(x4', Tools!OnWire(x2')) /\ Tools!Numbered(x4', Tools!OnWire(x2'), x1.invocations)
         /\ Tools!Distinct(x4', Tools!OnWire(x2'))
         /\ \A c \in ToolCall, n \in Nat : Tools!Waits(x4', Tools!OnWire(x2'), c, n) =>
              /\ Tools!Waits(x4, Tools!OnWire(x2), c, n) /\ Tools!Live(x4'[c])
              /\ x4'[c].pc = x4[c].pc /\ x4'[c].channel = x4[c].channel
              /\ x4[c].cancellation = "sent" => x4'[c].cancellation = "sent"
              /\ Tools!Abandoned(x4[c]) => Tools!Abandoned(x4'[c])
    BY <1>3, <1>4, <1>7, <1>11, StillWaits, ToolsParts
  <1>13. Tools!NoneIsLost(x4', Tools!OnWire(x2'), x1.running, x3')
    <2> SUFFICES ASSUME NEW c \in ToolCall, NEW n \in Nat, Tools!Waits(x4', Tools!OnWire(x2'), c, n),
                        x4'[c].channel \in x3'.channels, ~ Tools!Abandoned(x4'[c])
                 PROVE  Tools!Kept(x4', Tools!OnWire(x2'), x1.running, x3', c, n)
      BY DEF Tools!NoneIsLost
    <2>1. /\ Tools!Waits(x4, Tools!OnWire(x2), c, n) /\ Tools!Live(x4'[c]) /\ ~ Tools!Abandoned(x4[c])
          /\ x4'[c].pc = x4[c].pc /\ x4'[c].channel = x4[c].channel /\ x4[c].channel \in x3.channels
          /\ x4[c].cancellation = "sent" => x4'[c].cancellation = "sent"
      BY <1>9, <1>12
    <2>2. Tools!Kept(x4, Tools!OnWire(x2), x1.running, x3, c, n)
      BY <2>1, ToolsParts DEF Tools!NoneIsLost
    <2>3. CASE m.channel = x4[c].channel /\ m.number = n
      <3>1. Tools!Followed
        BY <1>2, <2>1, <2>3, ToolsParts DEF Tools!Followed
      <3>2. CASE waiting = {} /\ (Tools!Issuing = {} \/ x3'.dropped \/ key \in x3'.early)
        <4>1. c \in Tools!Issuing
          BY <2>1 DEF Tools!Issuing, Tools!Issues, Tools!Rests, Tools!Live
        <4>2. x4[c].pc # "pending"
          <5> SUFFICES ASSUME x4[c].pc = "pending" PROVE FALSE
            OBVIOUS
          <5>1. x4[c].id = n
            BY <2>1, ToolsParts DEF Tools!Waits, Tools!AnswersAreDue, Tools!Tells
          <5>2. c \in waiting
            BY <2>3, <5>1 DEF waiting, Tools!IsInvocation
          <5> QED
            BY <3>2, <5>2
        <4> QED
          BY <2>1, <2>3, <3>2, <4>1, <4>2 DEF Tools!Kept, Tools!Key, key
      <3>3. CASE \E d \in waiting : x4'[d].pc = "resolved"
        <4>1. PICK d \in waiting : x4'[d].pc = "resolved"
          BY <3>3
        <4>2. Tools!Waits(x4, Tools!OnWire(x2), d, n) /\ x4[d].channel = x4[c].channel
          BY <2>3 DEF waiting, Tools!IsInvocation, Tools!Waits
        <4>3. d = c
          BY <2>1, <4>2, ToolsParts DEF Tools!Distinct, waiting
        <4> QED
          BY <2>1, <4>1, <4>3 DEF Tools!Live
      <3> QED
        BY <1>9, <3>1, <3>2, <3>3
    <2>4. CASE ~ (m.channel = x4[c].channel /\ m.number = n)
      BY <1>2, <1>9, <2>1, <2>2, <2>4 DEF Tools!Kept
    <2> QED
      BY <2>3, <2>4
  <1>14. Tools!NewIframeIsUnknown(x1', Tools!OnWire(x2'), x3', x4')
    BY <1>1, <1>2, <1>7, <1>9, ToolsParts DEF Tools!NewIframeIsUnknown, Tools!IframeIsNew
  <1>15. x3'.disposed => x3'.channels = {}
    BY <1>9, ToolsParts
  <1> QED
    BY <1>1, <1>2, <1>8, <1>10, <1>12, <1>13, <1>14, <1>15 DEF Tools!ToolsInv

(* Answered keeps the invariant.                                                *)
LEMMA ToolsAnswered ==
  ASSUME Tools!ToolsInv, Tools!Answered
  PROVE  Tools!ToolsInv'
  <1> DEFINE m == Head(x2)
  <1>1. Tools!Delivered("answer") /\ Tools!Next1.who \in ToolCall /\ x1' = x1 /\ x5' = x5
        /\ x3' = Tools!ForgetEarly(x3, x4')
    BY DEF Tools!Answered
  <1>2. PICK c \in ToolCall :
          /\ x2 # <<>> /\ x2' = Tail(x2) /\ m.kind = "answer" /\ x2' \in Seq(Tools!Message) /\ Tools!Next1 = m
          /\ Tools!OnWire(x2) = {m} \cup Tools!OnWire(x2') /\ Tools!InOrder(x2')
          /\ m.who = c /\ m.ok \in BOOLEAN /\ m.number \in Nat
          /\ \A a \in Tools!OnWire(x2') : ~ Tools!Clash(m, a)
    BY <1>1, Heard DEF Tools!Message
  <1>3. x3 \in Tools!ObjectRecord /\ x4 \in [ToolCall -> Tools!CallRecord] /\ Tools!CallsOK /\ Tools!TypeOK
    BY ToolsParts DEF Tools!TypeOK
  <1>4. x4[c].pc = "invoked" /\ x4[c] \in Tools!CallRecord /\ Tools!CallOK(x4[c])
    BY <1>2, <1>3, ToolsParts DEF Tools!AnswersAreDue, Tools!Answers, Tools!CallsOK
  <1>5. PICK r \in Tools!CallRecord :
          /\ x4' = [x4 EXCEPT ![c] = r] /\ r.channel = x4[c].channel /\ Tools!CallOK(r)
          /\ r.cancellation = x4[c].cancellation /\ r.handoff = x4[c].handoff
          /\ m.ok => r.pc = "answered" /\ r.id = m.number
          /\ ~ m.ok => r.pc = "ended"
    <2> DEFINE a == [x4[c] EXCEPT !.pc = "answered", !.id = m.number]
    <2>1. x4' = [x4 EXCEPT ![c] = IF m.ok THEN a ELSE Tools!Fails(c)]
      BY <1>2 DEF Tools!Answered
    <2>2. a \in Tools!CallRecord /\ a.channel = x4[c].channel /\ Tools!CallOK(a) /\ a.pc = "answered" /\ a.id = m.number
          /\ a.cancellation = x4[c].cancellation /\ a.handoff = x4[c].handoff
      BY <1>2, <1>4 DEF Tools!Abandoned, Tools!CallRecord, Tools!Waiting, Tools!CallOK
    <2>3. x4[c].cancellation = "none"
      BY <1>4 DEF Tools!CallOK
    <2>4. /\ Tools!Fails(c) \in Tools!CallRecord /\ Tools!Fails(c).channel = x4[c].channel
          /\ Tools!CallOK(Tools!Fails(c)) /\ Tools!Fails(c).pc = "ended" /\ Tools!Fails(c).handoff = x4[c].handoff
      BY <1>3, <2>3, FailsEndsTheCall
    <2>5. Tools!Fails(c).cancellation = x4[c].cancellation
      BY <1>4 DEF Tools!Fails, Tools!EndsAfterCancel, Tools!CallRecord
    <2> HIDE DEF a, m
    <2>6. CASE m.ok
      BY <2>1, <2>2, <2>6
    <2>7. CASE ~ m.ok
      BY <2>1, <2>4, <2>5, <2>7
    <2> QED
      BY <2>6, <2>7
  <1> HIDE DEF m
  <1>6. /\ x4'[c] = r /\ x4' \in [ToolCall -> Tools!CallRecord]
        /\ \A d \in ToolCall : d # c => x4'[d] = x4[d]
        /\ \A d \in ToolCall : /\ x4'[d].channel = x4[d].channel /\ x4'[d].cancellation = x4[d].cancellation
                              /\ x4'[d].handoff = x4[d].handoff
    BY <1>3, <1>5
  <1>7. /\ x3' \in Tools!ObjectRecord /\ x3'.channels = x3.channels /\ x3'.dropped = x3.dropped
        /\ x3'.disposed = x3.disposed /\ x3'.tools = x3.tools
        /\ x3'.early = x3.early \/ \A d \in ToolCall : ~ Tools!Issues(x4'[d])
    BY <1>1, <1>3, ForgetEarlyLeaves
  <1>8. Tools!TypeOK'
    BY <1>1, <1>2, <1>6, <1>7, ToolsParts DEF Tools!TypeOK
  <1>9. Tools!CallsOK'
    <2>1. ~ Tools!Rests(x4[c])
      BY <1>4 DEF Tools!Rests
    <2>2. \A d \in ToolCall : Tools!CallOK(x4'[d])
      BY <1>3, <1>5, <1>6 DEF Tools!CallsOK
    <2> QED
      BY <1>1, <1>3, <1>5, <1>6, <2>1, <2>2, CallsGoOn
  <1>10. /\ \A a \in Tools!OnWire(x2') : ~ Tools!Answers(a, c)
         /\ \A d \in ToolCall : d # c => ~ Tools!Answers(m, d)
    BY <1>2 DEF Tools!Clash, Tools!Answers
  <1>11. Tools!AnswersAreDue(x4', Tools!OnWire(x2'))
    <2> SUFFICES ASSUME NEW d \in ToolCall
                 PROVE  x4'[d].pc = "invoked" <=> \E a \in Tools!OnWire(x2') : Tools!Answers(a, d)
      BY DEF Tools!AnswersAreDue
    <2>1. CASE d = c
      BY <1>2, <1>5, <1>6, <1>10, <2>1
    <2>2. CASE d # c
      BY <1>2, <1>6, <1>10, <2>2, ToolsParts DEF Tools!AnswersAreDue
    <2> QED
      BY <2>1, <2>2
  <1>12. ASSUME NEW d \in ToolCall, NEW n \in Nat, Tools!Waits(x4', Tools!OnWire(x2'), d, n)
         PROVE  /\ Tools!Waits(x4, Tools!OnWire(x2), d, n)
                /\ x4'[d].pc = x4[d].pc \/ x4'[d].pc = "answered"
                /\ x4'[d].pc \notin {"idle", "ended", "confirming"}
    <2>1. CASE d = c
      <3>1. x4'[c].pc = "answered" /\ m.ok /\ n = m.number
        BY <1>2, <1>5, <1>6, <1>10, <1>12, <2>1 DEF Tools!Waits, Tools!Tells
      <3>2. Tools!Tells(m, c, n) /\ m \in Tools!OnWire(x2)
        BY <1>2, <3>1 DEF Tools!Tells, Tools!Answers
      <3> QED
        BY <2>1, <3>1, <3>2 DEF Tools!Waits
    <2>2. CASE d # c
      <3>1. x4'[d].pc \notin {"idle", "ended", "confirming"}
        BY <1>11, <1>12 DEF Tools!Waits, Tools!AnswersAreDue, Tools!Tells
      <3>2. x4'[d] = x4[d]
        BY <1>6, <2>2
      <3>3. Tools!Waits(x4, Tools!OnWire(x2), d, n)
        BY <1>2, <1>12, <3>2 DEF Tools!Waits
      <3> QED
        BY <3>1, <3>2, <3>3
    <2> QED
      BY <2>1, <2>2
  <1>13. Tools!Numbered(x4', Tools!OnWire(x2'), x1.invocations)
    <2> SUFFICES ASSUME NEW d \in ToolCall, NEW n \in Nat, Tools!Waits(x4', Tools!OnWire(x2'), d, n)
                 PROVE  n \in 1 .. x1.invocations[x4'[d].channel]
      BY DEF Tools!Numbered
    <2>1. Tools!Waits(x4, Tools!OnWire(x2), d, n)
      BY <1>12
    <2> QED
      BY <1>6, <2>1, ToolsParts DEF Tools!Numbered
  <1>14. Tools!Distinct(x4', Tools!OnWire(x2'))
    <2> SUFFICES ASSUME NEW d \in ToolCall, NEW b \in ToolCall, NEW n \in Nat,
                        Tools!Waits(x4', Tools!OnWire(x2'), d, n), Tools!Waits(x4', Tools!OnWire(x2'), b, n),
                        x4'[d].channel = x4'[b].channel
                 PROVE  d = b
      BY DEF Tools!Distinct
    <2>1. Tools!Waits(x4, Tools!OnWire(x2), d, n)
      BY <1>12
    <2>2. Tools!Waits(x4, Tools!OnWire(x2), b, n)
      BY <1>12
    <2> QED
      BY <1>6, <2>1, <2>2, ToolsParts DEF Tools!Distinct
  <1>15. Tools!NoneIsLost(x4', Tools!OnWire(x2'), x1.running, x3')
    <2> SUFFICES ASSUME NEW d \in ToolCall, NEW n \in Nat, Tools!Waits(x4', Tools!OnWire(x2'), d, n),
                        x4'[d].channel \in x3'.channels, ~ Tools!Abandoned(x4'[d])
                 PROVE  Tools!Kept(x4', Tools!OnWire(x2'), x1.running, x3', d, n)
      BY DEF Tools!NoneIsLost
    <2>1. /\ Tools!Waits(x4, Tools!OnWire(x2), d, n) /\ x4'[d].pc \notin {"idle", "ended", "confirming"}
          /\ x4'[d].pc = x4[d].pc \/ x4'[d].pc = "answered"
      BY <1>12
    <2>2. Tools!Kept(x4, Tools!OnWire(x2), x1.running, x3, d, n)
      BY <1>6, <1>7, <2>1, ToolsParts DEF Tools!NoneIsLost, Tools!Abandoned
    <2>3. x3'.early = x3.early
      BY <1>7, <2>1 DEF Tools!Issues, Tools!Rests
    <2> QED
      BY <1>2, <1>6, <1>7, <2>1, <2>2, <2>3 DEF Tools!Kept
  <1>16. Tools!NewIframeIsUnknown(x1', Tools!OnWire(x2'), x3', x4')
    BY <1>1, <1>2, <1>6, <1>7, ToolsParts DEF Tools!NewIframeIsUnknown, Tools!IframeIsNew
  <1>17. x3'.disposed => x3'.channels = {}
    BY <1>7, ToolsParts
  <1> QED
    BY <1>1, <1>2, <1>8, <1>9, <1>11, <1>13, <1>14, <1>15, <1>16, <1>17 DEF Tools!ToolsInv

(* Cancel keeps the invariant.                                                *)
LEMMA ToolsCancel ==
  ASSUME Tools!ToolsInv, NEW c \in ToolCall, Tools!Cancel(c)
  PROVE  Tools!ToolsInv'
  <1>1. /\ x1' = x1 /\ x2' = x2 /\ x3' = x3 /\ x5' = x5 /\ x4[c] \in Tools!CallRecord /\ Tools!CallOK(x4[c])
        /\ x4[c].pc \in Tools!Waiting \cup {"resolved"} /\ ~ x4[c].cancelled
    BY ToolsParts DEF Tools!Cancel, Tools!TypeOK, Tools!CallsOK
  <1>2. PICK r \in Tools!CallRecord :
          /\ x4' = [x4 EXCEPT ![c] = r] /\ r.pc = x4[c].pc /\ r.channel = x4[c].channel /\ r.id = x4[c].id
          /\ Tools!CallOK(r) /\ x4[c].cancellation = "none" /\ r.handoff = x4[c].handoff
    <2> DEFINE q == [x4[c] EXCEPT !.cancelled = TRUE]
               r == IF x4[c].pc \in {"pending", "resolved"} THEN Tools!SendCancel(q) ELSE q
    <2>1. x4' = [x4 EXCEPT ![c] = r]
      BY DEF Tools!Cancel
    <2>2. x4[c].cancellation = "none"
      BY <1>1 DEF Tools!CallOK
    <2>3. /\ r \in Tools!CallRecord /\ r.pc = x4[c].pc /\ r.channel = x4[c].channel /\ r.id = x4[c].id
          /\ Tools!CallOK(r) /\ r.handoff = x4[c].handoff
      BY <1>1, <2>2 DEF Tools!SendCancel, Tools!CallRecord, Tools!CallOK, Tools!Waiting, Tools!Abandoned
    <2> HIDE DEF r
    <2> QED
      BY <2>1, <2>2, <2>3
  <1>3. /\ x4'[c] = r /\ x4' \in [ToolCall -> Tools!CallRecord]
        /\ \A d \in ToolCall : d # c => x4'[d] = x4[d]
        /\ \A d \in ToolCall : /\ x4'[d].channel = x4[d].channel /\ x4'[d].pc = x4[d].pc /\ x4'[d].id = x4[d].id
                              /\ x4'[d].handoff = x4[d].handoff
    BY <1>2, ToolsParts DEF Tools!TypeOK
  <1>4. Tools!TypeOK'
    BY <1>1, <1>3, ToolsParts DEF Tools!TypeOK
  <1>5. Tools!CallsOK'
    <2>1. ~ Tools!Rests(x4[c])
      BY <1>1 DEF Tools!Rests, Tools!Waiting
    <2>2. \A d \in ToolCall : Tools!CallOK(x4'[d])
      BY <1>2, <1>3, ToolsParts DEF Tools!CallsOK
    <2> QED
      BY <1>1, <1>3, <2>1, <2>2, CallsGoOn, ToolsParts
  <1>6. StillWait(x4, x4') /\ Remembers(x4, x4', x1.running, x1'.running, Tools!OnWire(x2), x3, x3')
    BY <1>1, <1>2, <1>3 DEF StillWait, Remembers, Tools!Abandoned
  <1>7. x3'.disposed => x3'.channels = {}
    BY <1>1, ToolsParts
  <1> QED
    BY <1>1, <1>3, <1>4, <1>5, <1>6, <1>7, ToolsQuiet

(* Return keeps the invariant.                                                *)
LEMMA ToolsReturn ==
  ASSUME Tools!ToolsInv, NEW c \in ToolCall, Tools!Return(c)
  PROVE  Tools!ToolsInv'
  <1>1. /\ x1' = x1 /\ x2' = x2 /\ x5' = x5 /\ x4[c] \in Tools!CallRecord /\ Tools!CallOK(x4[c])
        /\ x4[c].pc = "resolved" /\ x3' = Tools!ForgetEarly(x3, x4') /\ x3 \in Tools!ObjectRecord
        /\ x4' = [x4 EXCEPT ![c] = Tools!Returns(c)]
    BY ToolsParts DEF Tools!Return, Tools!TypeOK, Tools!CallsOK
  <1>2. PICK r \in Tools!CallRecord :
          /\ x4' = [x4 EXCEPT ![c] = r] /\ r.pc \in {"finishing", "ended"} /\ r.channel = x4[c].channel
          /\ Tools!CallOK(r) /\ r.handoff = x4[c].handoff
    <2> DEFINE e == [x4[c] EXCEPT !.pc = "ended"]
    <2>1. CASE x4[c].cancelled
      <3>1. Tools!Returns(c) = Tools!Fails(c)
        BY <2>1 DEF Tools!Returns
      <3> QED
        BY <1>1, <3>1, FailsEndsTheCall, ToolsParts
    <2>2. CASE ~ x4[c].cancelled
      <3>1. Tools!Returns(c) = e
        BY <2>2 DEF Tools!Returns
      <3>2. e \in Tools!CallRecord /\ e.pc = "ended" /\ e.channel = x4[c].channel /\ Tools!CallOK(e)
            /\ e.handoff = x4[c].handoff
        BY <1>1, <2>2 DEF Tools!CallRecord, Tools!CallOK
      <3> HIDE DEF e
      <3> QED
        BY <1>1, <3>1, <3>2
    <2> QED
      BY <2>1, <2>2
  <1>3. /\ x4'[c] = r /\ x4' \in [ToolCall -> Tools!CallRecord]
        /\ \A d \in ToolCall : d # c => x4'[d] = x4[d]
        /\ \A d \in ToolCall : x4'[d].channel = x4[d].channel
    BY <1>2, ToolsParts DEF Tools!TypeOK
  <1>4. /\ x3' \in Tools!ObjectRecord /\ x3'.channels = x3.channels /\ x3'.dropped = x3.dropped
        /\ x3'.disposed = x3.disposed /\ x3'.tools = x3.tools
        /\ x3'.early = x3.early \/ \A d \in ToolCall : ~ Tools!Issues(x4'[d])
    BY <1>1, ForgetEarlyLeaves
  <1>5. Tools!TypeOK'
    BY <1>1, <1>3, <1>4, ToolsParts DEF Tools!TypeOK
  <1>6. Tools!CallsOK'
    <2>1. ~ Tools!Rests(x4[c])
      BY <1>1 DEF Tools!Rests
    <2>2. \A d \in ToolCall : Tools!CallOK(x4'[d])
      BY <1>2, <1>3, ToolsParts DEF Tools!CallsOK
    <2> QED
      BY <1>1, <1>2, <1>3, <2>1, <2>2, CallsGoOn, ToolsParts
  <1>7. StillWait(x4, x4')
    BY <1>1, <1>2, <1>3 DEF StillWait, Tools!Live
  <1>8. Remembers(x4, x4', x1.running, x1'.running, Tools!OnWire(x2), x3, x3')
    BY <1>1, <1>3, <1>4 DEF Remembers, Tools!Live, Tools!Issues, Tools!Rests
  <1>9. (x3'.disposed => x3'.channels = {}) /\ x3'.tools \subseteq x3.tools
    BY <1>4, ToolsParts
  <1> QED
    BY <1>1, <1>3, <1>5, <1>6, <1>7, <1>8, <1>9, ToolsQuiet

(* RegisterInvocation keeps the invariant.                                                *)
LEMMA ToolsRegisterInvocation ==
  ASSUME Tools!ToolsInv, NEW c \in ToolCall, Tools!RegisterInvocation(c)
  PROVE  Tools!ToolsInv'
  <1> DEFINE key == [channel |-> x4[c].channel, id |-> x4[c].id]
             disposed == x3.disposed \/ Tools!Abandoned(x4[c])
             o == IF disposed THEN x3 ELSE [x3 EXCEPT !.early = x3.early \ {key}]
  <1>1. /\ x1' = x1 /\ x2' = x2 /\ x5' = x5 /\ x4[c] \in Tools!CallRecord /\ Tools!CallOK(x4[c])
        /\ x4[c].pc = "answered" /\ x3' = Tools!ForgetEarly(o, x4') /\ x3 \in Tools!ObjectRecord
        /\ x4[c].cancellation = "none"
    <2>1. x3 \in Tools!ObjectRecord /\ x4[c] \in Tools!CallRecord /\ Tools!CallOK(x4[c]) /\ x4[c].pc = "answered"
      BY ToolsParts DEF Tools!RegisterInvocation, Tools!TypeOK, Tools!CallsOK
    <2>2. [x3 EXCEPT !.early = @ \ {key}] = [x3 EXCEPT !.early = x3.early \ {key}]
      BY <2>1 DEF Tools!ObjectRecord
    <2>3. x3' = Tools!ForgetEarly(o, x4')
      BY <2>2 DEF Tools!RegisterInvocation
    <2>4. x4[c].cancellation = "none"
      BY <2>1 DEF Tools!CallOK
    <2> QED
      BY <2>1, <2>3, <2>4 DEF Tools!RegisterInvocation
  <1>2. PICK r \in Tools!CallRecord :
          /\ x4' = [x4 EXCEPT ![c] = r] /\ r.channel = x4[c].channel /\ r.id = x4[c].id /\ Tools!CallOK(r)
          /\ r.pc \in {"ended", "resolved", "pending"} /\ r.handoff = x4[c].handoff
          /\ r.pc = "pending" => key \notin x3.early
    <2> DEFINE q == IF key \in x3.early THEN [x4[c] EXCEPT !.pc = "resolved", !.result = {key}]
                    ELSE [x4[c] EXCEPT !.pc = "pending"]
               r == IF disposed THEN Tools!Fails(c) ELSE IF x4[c].cancelled THEN Tools!SendCancel(q) ELSE q
    <2>1. x4' = [x4 EXCEPT ![c] = r]
      BY DEF Tools!RegisterInvocation
    <2>2. CASE disposed
      BY <1>1, <2>1, <2>2, FailsEndsTheCall, ToolsParts
    <2>3. CASE ~ disposed
      <3>1. q \in Tools!CallRecord /\ q.handoff = x4[c].handoff /\ q.channel = x4[c].channel /\ q.id = x4[c].id
            /\ q.pc \in {"resolved", "pending"} /\ (q.pc = "pending" => key \notin x3.early)
            /\ q.cancelled = x4[c].cancelled /\ q.cancellation = "none"
            /\ Tools!CallOK(q)
        <4>1. key \in [channel : Tools!Channel, id : Nat]
          BY <1>1 DEF Tools!CallRecord
        <4>2. CASE key \in x3.early
          BY <1>1, <4>1, <4>2 DEF Tools!CallRecord, Tools!CallOK, Tools!Abandoned
        <4>3. CASE key \notin x3.early
          BY <1>1, <2>3, <4>3 DEF Tools!CallRecord, Tools!CallOK, Tools!Waiting, Tools!Abandoned
        <4> QED
          BY <4>2, <4>3
      <3> HIDE DEF q
      <3>2. /\ Tools!SendCancel(q) \in Tools!CallRecord /\ Tools!SendCancel(q).channel = q.channel
            /\ Tools!SendCancel(q).id = q.id /\ Tools!SendCancel(q).pc = q.pc
            /\ Tools!SendCancel(q).handoff = q.handoff
            /\ q.cancelled => Tools!CallOK(Tools!SendCancel(q))
        BY <3>1 DEF Tools!SendCancel, Tools!CallRecord, Tools!CallOK, Tools!Abandoned
      <3> QED
        BY <2>1, <2>3, <3>1, <3>2
    <2> QED
      BY <2>2, <2>3
  <1>3. /\ x4'[c] = r /\ x4' \in [ToolCall -> Tools!CallRecord]
        /\ \A d \in ToolCall : d # c => x4'[d] = x4[d]
        /\ \A d \in ToolCall : x4'[d].channel = x4[d].channel
    BY <1>2, ToolsParts DEF Tools!TypeOK
  <1>4. /\ o \in Tools!ObjectRecord /\ o.channels = x3.channels /\ o.dropped = x3.dropped
        /\ o.disposed = x3.disposed /\ o.tools = x3.tools /\ o.early \in {x3.early, x3.early \ {key}}
    BY <1>1 DEF Tools!ObjectRecord
  <1> HIDE DEF o, disposed
  <1>5. /\ x3' \in Tools!ObjectRecord /\ x3'.channels = x3.channels /\ x3'.dropped = x3.dropped
        /\ x3'.disposed = x3.disposed /\ x3'.tools = x3.tools
        /\ x3'.early \in {x3.early, x3.early \ {key}} \/ \A d \in ToolCall : ~ Tools!Issues(x4'[d])
    BY <1>1, <1>4, ForgetEarlyLeaves
  <1>6. Tools!TypeOK'
    BY <1>1, <1>3, <1>5, ToolsParts DEF Tools!TypeOK
  <1>7. Tools!CallsOK'
    <2>1. ~ Tools!Rests(x4[c])
      BY <1>1 DEF Tools!Rests
    <2>2. \A d \in ToolCall : Tools!CallOK(x4'[d])
      BY <1>2, <1>3, ToolsParts DEF Tools!CallsOK
    <2> QED
      BY <1>1, <1>2, <1>3, <2>1, <2>2, CallsGoOn, ToolsParts
  <1>8. Tools!AnswersAreDue(x4', Tools!OnWire(x2))
    <2> SUFFICES ASSUME NEW d \in ToolCall
                 PROVE  x4'[d].pc = "invoked" <=> \E a \in Tools!OnWire(x2) : Tools!Answers(a, d)
      BY DEF Tools!AnswersAreDue
    <2>1. x4[d].pc = "invoked" <=> \E a \in Tools!OnWire(x2) : Tools!Answers(a, d)
      BY ToolsParts DEF Tools!AnswersAreDue
    <2>2. x4'[d].pc = "invoked" <=> x4[d].pc = "invoked"
      BY <1>1, <1>2, <1>3
    <2> QED
      BY <2>1, <2>2
  <1>9. ASSUME NEW d \in ToolCall, NEW n \in Nat, Tools!Waits(x4', Tools!OnWire(x2), d, n)
        PROVE  /\ Tools!Waits(x4, Tools!OnWire(x2), d, n) /\ x4'[d].pc \notin {"idle", "ended", "confirming"}
               /\ d = c => x4'[c].pc = "pending" /\ n = x4[c].id
    <2>1. x4'[d].pc \notin {"idle", "ended", "confirming"}
      BY <1>8, <1>9 DEF Tools!Waits, Tools!AnswersAreDue, Tools!Tells
    <2>2. CASE d = c
      <3>1. \A a \in Tools!OnWire(x2) : ~ Tools!Answers(a, c)
        BY <1>1, ToolsParts DEF Tools!AnswersAreDue
      <3>2. x4'[c].pc = "pending" /\ n = x4[c].id
        BY <1>2, <1>3, <1>9, <2>2, <3>1 DEF Tools!Waits, Tools!Tells
      <3> QED
        BY <1>1, <2>1, <2>2, <3>2 DEF Tools!Waits
    <2>3. CASE d # c
      BY <1>3, <1>9, <2>1, <2>3 DEF Tools!Waits
    <2> QED
      BY <2>2, <2>3
  <1>10. Tools!Numbered(x4', Tools!OnWire(x2), x1.invocations)
    <2> SUFFICES ASSUME NEW d \in ToolCall, NEW n \in Nat, Tools!Waits(x4', Tools!OnWire(x2), d, n)
                 PROVE  n \in 1 .. x1.invocations[x4'[d].channel]
      BY DEF Tools!Numbered
    <2>1. Tools!Waits(x4, Tools!OnWire(x2), d, n)
      BY <1>9
    <2> QED
      BY <1>3, <2>1, ToolsParts DEF Tools!Numbered
  <1>11. Tools!Distinct(x4', Tools!OnWire(x2))
    <2> SUFFICES ASSUME NEW d \in ToolCall, NEW b \in ToolCall, NEW n \in Nat,
                        Tools!Waits(x4', Tools!OnWire(x2), d, n), Tools!Waits(x4', Tools!OnWire(x2), b, n),
                        x4'[d].channel = x4'[b].channel
                 PROVE  d = b
      BY DEF Tools!Distinct
    <2>1. Tools!Waits(x4, Tools!OnWire(x2), d, n)
      BY <1>9
    <2>2. Tools!Waits(x4, Tools!OnWire(x2), b, n)
      BY <1>9
    <2> QED
      BY <1>3, <2>1, <2>2, ToolsParts DEF Tools!Distinct
  <1>12. Tools!NoneIsLost(x4', Tools!OnWire(x2), x1.running, x3')
    <2> SUFFICES ASSUME NEW d \in ToolCall, NEW n \in Nat, Tools!Waits(x4', Tools!OnWire(x2), d, n),
                        x4'[d].channel \in x3'.channels, ~ Tools!Abandoned(x4'[d])
                 PROVE  Tools!Kept(x4', Tools!OnWire(x2), x1.running, x3', d, n)
      BY DEF Tools!NoneIsLost
    <2>1. /\ Tools!Waits(x4, Tools!OnWire(x2), d, n) /\ x4'[d].pc \notin {"idle", "ended", "confirming"}
          /\ d = c => x4'[c].pc = "pending" /\ n = x4[c].id
      BY <1>9
    <2>2. Tools!Kept(x4, Tools!OnWire(x2), x1.running, x3, d, n)
      BY <1>2, <1>3, <1>5, <2>1, ToolsParts DEF Tools!NoneIsLost, Tools!Abandoned
    <2>3. CASE d = c
      <3>1. Tools!Key(x4[c].channel, n) \notin x3.early
        BY <1>2, <1>3, <2>1, <2>3 DEF Tools!Key
      <3> QED
        BY <1>1, <1>3, <1>5, <2>2, <2>3, <3>1 DEF Tools!Kept
    <2>4. CASE d # c
      <3>1. x4'[d] = x4[d] /\ x3'.early \in {x3.early, x3.early \ {key}}
        BY <1>3, <1>5, <2>1, <2>4 DEF Tools!Issues, Tools!Rests
      <3>2. Tools!Key(x4[d].channel, n) # key
        <4> SUFFICES ASSUME Tools!Key(x4[d].channel, n) = key PROVE FALSE
          OBVIOUS
        <4>1. x4[d].channel = x4[c].channel /\ n = x4[c].id
          BY DEF Tools!Key
        <4>2. Tools!Waits(x4, Tools!OnWire(x2), c, n)
          BY <1>1, <4>1 DEF Tools!Waits
        <4> QED
          BY <2>1, <2>4, <4>1, <4>2, ToolsParts DEF Tools!Distinct
      <3> HIDE DEF key
      <3> QED
        BY <1>5, <2>2, <3>1, <3>2 DEF Tools!Kept
    <2> QED
      BY <2>3, <2>4
  <1>13. Tools!NewIframeIsUnknown(x1', Tools!OnWire(x2), x3', x4')
    BY <1>1, <1>3, <1>5, ToolsParts DEF Tools!NewIframeIsUnknown
  <1>14. x3'.disposed => x3'.channels = {}
    BY <1>5, ToolsParts
  <1> QED
    BY <1>1, <1>6, <1>7, <1>8, <1>10, <1>11, <1>12, <1>13, <1>14, ToolsParts DEF Tools!ToolsInv

(* Start keeps the invariant.                                                *)
LEMMA ToolsStart ==
  ASSUME Tools!ToolsInv, Tools!Start
  PROVE  Tools!ToolsInv'
  <1>1. /\ x1' = x1 /\ x2' = x2 /\ x5' = [x5 EXCEPT !.pc = "starting", !.count = x5.count + 1] /\ x5.pc = "idle"
        /\ x4' = [d \in ToolCall |-> IF Tools!Rests(x4[d]) THEN Tools!NoCall ELSE x4[d]] /\ x3 \in Tools!ObjectRecord
    BY ToolsParts DEF Tools!Start, Tools!TypeOK
  <1>2. Tools!NoCall \in Tools!CallRecord /\ Tools!CallOK(Tools!NoCall) /\ ~ Tools!Live(Tools!NoCall)
        /\ Tools!NoCall.channel = Main
    BY ToolsAssumption
    DEF Tools!NoCall, Tools!CallRecord, Tools!CallOK, Tools!Live, Tools!NoTool, Tools!Channel, Tools!Waiting,
        Tools!Abandoned
  <1>9. \A d \in ToolCall : \/ Tools!Rests(x4[d]) /\ x4'[d] = Tools!NoCall
                            \/ x4[d].handoff = "left" /\ x4'[d] = x4[d]
    BY <1>1, ToolsParts DEF Tools!CallsOK, Tools!IsOver
  <1>3. x4' \in [ToolCall -> Tools!CallRecord]
    <2>1. x4 \in [ToolCall -> Tools!CallRecord]
      BY ToolsParts DEF Tools!TypeOK
    <2>2. \A d \in ToolCall : (IF Tools!Rests(x4[d]) THEN Tools!NoCall ELSE x4[d]) \in Tools!CallRecord
      BY <1>2, <2>1
    <2> QED
      BY <1>1, <2>2
  <1>4. /\ x3' \in Tools!ObjectRecord /\ (x3'.disposed => x3'.channels = {}) /\ x3'.tools \subseteq x3.tools
    <2> DEFINE fresh == x3.disposed \/ x3.status = "unavailable"
               n == Tools!NewObject
    <2>1. x3' = IF fresh THEN Tools!Enable(n, Main) ELSE x3
      BY DEF Tools!Start
    <2>2. n \in Tools!ObjectRecord /\ ~ n.disposed /\ n.tools = {}
      BY DEF Tools!NewObject, Tools!ObjectRecord, Tools!NotStarted
    <2> HIDE DEF n
    <2>3. Main \in Tools!Channel
      BY DEF Tools!Channel
    <2>4. CASE fresh
      BY <2>1, <2>2, <2>3, <2>4, EnableLeaves
    <2>5. CASE ~ fresh
      BY <1>1, <2>1, <2>5, ToolsParts
    <2> QED
      BY <2>4, <2>5
  <1>5. Tools!TypeOK'
    <2>1. x5' \in [pc : {"idle", "starting", "children", "script", "settling", "reporting"},
                   sync : {"none", "asked", "served", "done"}, count : Nat]
      <3>1. /\ x5 \in [pc : {"idle", "starting", "children", "script", "settling", "reporting"},
                       sync : {"none", "asked", "served", "done"}, count : Nat]
            /\ x5.count + 1 \in Nat
        BY ToolsParts DEF Tools!TypeOK
      <3>2. x5' = [pc |-> "starting", sync |-> x5.sync, count |-> x5.count + 1]
        BY <1>1, <3>1
      <3>3. x5.sync \in {"none", "asked", "served", "done"}
        BY <3>1
      <3> QED
        BY <3>1, <3>2, <3>3
    <2> QED
      BY <1>1, <1>3, <1>4, <2>1, ToolsParts DEF Tools!TypeOK
  <1>6. Tools!CallsOK'
    <2>1. x5'.pc = "starting"
      BY <1>1, ToolsParts DEF Tools!TypeOK
    <2>2. \A d \in ToolCall : Tools!CallOK(x4'[d]) /\ (x4'[d] = Tools!NoCall \/ x4'[d].handoff = "left")
      BY <1>2, <1>9, ToolsParts DEF Tools!CallsOK
    <2> QED
      BY <2>1, <2>2 DEF Tools!CallsOK
  <1>7. StillWait(x4, x4') /\ Remembers(x4, x4', x1.running, x1'.running, Tools!OnWire(x2), x3, x3')
    <2>1. StillWait(x4, x4')
      BY <1>2, <1>9 DEF StillWait, Tools!Rests
    <2>2. \A d \in ToolCall : ~ (Tools!Live(x4'[d]) /\ ~ Tools!Abandoned(x4'[d]))
      BY <1>2, <1>9 DEF Tools!Abandoned
    <2> QED
      BY <2>1, <2>2 DEF Remembers
  <1>8. \A d \in ToolCall : x4'[d].channel = x4[d].channel \/ x4'[d].channel = Main
    BY <1>2, <1>9
  <1> QED
    BY <1>1, <1>4, <1>5, <1>6, <1>7, <1>8, ToolsQuiet

(* Stop keeps the invariant.                                                *)
LEMMA ToolsStop ==
  ASSUME Tools!ToolsInv, Tools!Stop
  PROVE  Tools!ToolsInv'
  <1> DEFINE S == {m \in Tools!OnWire(x2) : m.kind = "answer"}
  <1>1. /\ x1' = [x1 EXCEPT !.enabled = x1.enabled \ x3.channels] /\ x2' = Tools!SetToSeq(S) /\ x3' = Tools!Dispose(x3)
        /\ x4' = x4 /\ x5' = x5
    BY ToolsParts DEF Tools!Stop, Tools!TypeOK, Tools!PageRecord
  <1>2. /\ x1' \in Tools!PageRecord /\ x1'.hadIframe = x1.hadIframe /\ x1'.tool = x1.tool
        /\ x1'.attached = x1.attached /\ x1'.invocations = x1.invocations
    BY <1>1, ToolsParts DEF Tools!TypeOK, Tools!PageRecord
  <1>3. /\ x3' \in Tools!ObjectRecord /\ x3'.channels = {} /\ x3'.tools = {}
    BY <1>1, DisposeLeaves, ToolsParts DEF Tools!TypeOK
  <1>4. /\ x2' \in Seq(Tools!Message) /\ Tools!OnWire(x2') = S /\ Tools!InOrder(x2')
    <2>1. PICK p \in Nat : p = Len(x2) /\ DOMAIN x2 = 1 .. p /\ \A i \in 1 .. p : x2[i] \in Tools!Message
      BY ToolsParts DEF Tools!TypeOK
    <2>2. Tools!OnWire(x2) \subseteq Tools!Message /\ IsFiniteSet(Tools!OnWire(x2))
      <3> DEFINE h == [i \in 1 .. p |-> x2[i]]
      <3>1. h \in Surjection(1 .. p, Tools!OnWire(x2))
        BY <2>1 DEF Surjection, Tools!OnWire
      <3>2. IsFiniteSet(1 .. p)
        BY FS_Interval
      <3>3. IsFiniteSet(Tools!OnWire(x2))
        BY <3>1, <3>2, FS_Surjection
      <3> QED
        BY <2>1, <3>3 DEF Tools!OnWire
    <2>3. S \in SUBSET Tools!Message /\ IsFiniteSet(S)
      BY <2>2, FS_Subset
    <2>4. ASSUME NEW m \in S, NEW n \in S, m # n PROVE ~ Tools!Clash(m, n)
      <3>1. PICK i \in 1 .. p, j \in 1 .. p : m = x2[i] /\ n = x2[j]
        BY <2>1 DEF Tools!OnWire
      <3>2. i < j \/ j < i
        BY <2>4, <3>1
      <3>3. ~ Tools!Clash(m, n) \/ ~ Tools!Clash(n, m)
        BY <2>1, <3>1, <3>2, ToolsParts DEF Tools!InOrder
      <3> QED
        BY <3>3 DEF Tools!Clash, Tools!OfIframe
    <2> HIDE DEF S
    <2> QED
      BY <1>1, <2>3, <2>4, SetOfMessages
  <1>5. Tools!TypeOK' /\ Tools!CallsOK'
    BY <1>1, <1>2, <1>3, <1>4, ToolsParts DEF Tools!TypeOK, Tools!CallsOK
  <1>6. \A c \in ToolCall : \A a : Tools!Answers(a, c) => (a \in Tools!OnWire(x2) <=> a \in Tools!OnWire(x2'))
    BY <1>4 DEF Tools!Answers
  <1>7. StillWait(x4, x4')
    BY <1>1 DEF StillWait
  <1>8. /\ Tools!AnswersAreDue(x4', Tools!OnWire(x2')) /\ Tools!Numbered(x4', Tools!OnWire(x2'), x1'.invocations)
        /\ Tools!Distinct(x4', Tools!OnWire(x2'))
    BY <1>1, <1>2, <1>6, <1>7, StillWaits, ToolsParts DEF Tools!TypeOK
  <1>9. Tools!NoneIsLost(x4', Tools!OnWire(x2'), x1'.running, x3')
    BY <1>3 DEF Tools!NoneIsLost
  <1>10. Tools!NewIframeIsUnknown(x1', Tools!OnWire(x2'), x3', x4')
    <2>1. \A a \in Tools!OnWire(x2') : a \in Tools!OnWire(x2) /\ a.kind = "answer"
      BY <1>4
    <2> QED
      BY <1>1, <1>2, <1>3, <2>1, ToolsParts DEF Tools!NewIframeIsUnknown, Tools!IframeIsNew
  <1> QED
    BY <1>3, <1>4, <1>5, <1>8, <1>9, <1>10 DEF Tools!ToolsInv

(* Invalidate keeps the invariant.                                                *)
LEMMA ToolsInvalidate ==
  ASSUME Tools!ToolsInv, NEW dead \in BOOLEAN, Tools!Invalidate(dead)
  PROVE  Tools!ToolsInv'
  <1>1. /\ x1' = [x1 EXCEPT !.alive = x1.alive /\ ~ dead] /\ x2' = x2 /\ x3' = Tools!Dispose(x3)
        /\ x4' = Tools!FailPending(Tools!Channel) /\ x5' = x5
    BY DEF Tools!Invalidate
  <1>2. /\ x1' \in Tools!PageRecord /\ x1'.hadIframe = x1.hadIframe /\ x1'.tool = x1.tool
        /\ x1'.attached = x1.attached /\ x1'.running = x1.running /\ x1'.invocations = x1.invocations
    <2>1. (x1.alive /\ ~ dead) \in BOOLEAN
      OBVIOUS
    <2> QED
      BY <1>1, <2>1, ToolsParts DEF Tools!TypeOK, Tools!PageRecord
  <1>3. /\ x3' \in Tools!ObjectRecord /\ x3'.channels = {} /\ x3'.tools = {}
    BY <1>1, DisposeLeaves, ToolsParts DEF Tools!TypeOK
  <1>4. /\ x4' \in [ToolCall -> Tools!CallRecord] /\ Tools!CallsOK' /\ StillWait(x4, x4')
        /\ \A c \in ToolCall : x4'[c].channel = x4[c].channel
    BY <1>1, FailPendingMoves, ToolsParts
  <1>5. Tools!TypeOK'
    BY <1>1, <1>2, <1>3, <1>4, ToolsParts DEF Tools!TypeOK
  <1>6. Remembers(x4, x4', x1.running, x1'.running, Tools!OnWire(x2), x3, x3')
    BY <1>2, <1>3 DEF Remembers
  <1> QED
    BY <1>1, <1>2, <1>3, <1>4, <1>5, <1>6, ToolsQuiet


(* A step of the execute that makes or ends no call keeps the invariant.                          *)
LEMMA ToolsOfExecute ==
  ASSUME Tools!ToolsInv, x1' = x1, x2' = x2, x4' = x4,
         NEW p \in {"idle", "starting", "children", "script", "settling", "reporting"},
         NEW s \in {"none", "asked", "served", "done"}, x5' = [pc |-> p, sync |-> s, count |-> x5.count],
         p \in {"starting", "children"} => x5.pc \in {"starting", "children"},
         p \in {"idle", "reporting"} => \A c \in ToolCall : Tools!IsOver(x4[c]),
         SameEars(x3, x3'), x3'.tools = x3.tools
  PROVE  Tools!ToolsInv'
  <1>1. Tools!TypeOK'
    BY ToolsParts DEF Tools!TypeOK, SameEars
  <1>2. x5'.pc = p
    OBVIOUS
  <1>3. Tools!CallsOK'
    BY <1>2, ToolsParts DEF Tools!CallsOK
  <1>4. StillWait(x4, x4') /\ Remembers(x4, x4', x1.running, x1'.running, Tools!OnWire(x2), x3, x3')
    BY CallsStay DEF SameEars
  <1>5. x3'.disposed => x3'.channels = {}
    BY ToolsParts DEF SameEars
  <1>6. \A c \in ToolCall : x4'[c].channel = x4[c].channel
    OBVIOUS
  <1> QED
    BY <1>1, <1>3, <1>4, <1>5, <1>6, ToolsQuiet

(* The execute, in its fields.                                                *)
LEMMA Executes ==
  ASSUME Tools!ToolsInv
  PROVE  /\ x5.pc \in {"idle", "starting", "children", "script", "settling", "reporting"}
         /\ x5.sync \in {"none", "asked", "served", "done"} /\ x3 \in Tools!ObjectRecord
         /\ x5 = [pc |-> x5.pc, sync |-> x5.sync, count |-> x5.count]
         /\ SameEars(x3, x3)
  <1>1. x5 \in [pc : {"idle", "starting", "children", "script", "settling", "reporting"},
                sync : {"none", "asked", "served", "done"}, count : Nat] /\ x3 \in Tools!ObjectRecord
    BY ToolsParts DEF Tools!TypeOK
  <1> QED
    BY <1>1 DEF SameEars

(* StartChildren keeps the invariant.                                                *)
LEMMA ToolsStartChildren ==
  ASSUME Tools!ToolsInv, Tools!StartChildren
  PROVE  Tools!ToolsInv'
  <1>1. /\ x1' = x1 /\ x2' = x2 /\ x4' = x4 /\ x5' = [x5 EXCEPT !.pc = "children"] /\ x5.pc = "starting"
        /\ x3 \in Tools!ObjectRecord
        /\ x3' = x3 \/ (~ x3.disposed /\ x3' = Tools!Enable(x3, Iframe))
    BY ToolsParts DEF Tools!StartChildren, Tools!TypeOK
  <1>2. x5' = [pc |-> "children", sync |-> x5.sync, count |-> x5.count]
    BY <1>1, Executes
  <1>3. x5'.pc = "children" /\ x5'.sync = x5.sync /\ x5'.count = x5.count
    BY <1>2
  <1>4. /\ x3' \in Tools!ObjectRecord /\ (x3'.disposed => x3'.channels = {}) /\ x3'.tools = x3.tools
    <2>1. Iframe \in Tools!Channel
      BY DEF Tools!Channel
    <2>2. CASE x3' = x3
      BY <1>1, <2>2, ToolsParts
    <2>3. CASE ~ x3.disposed /\ x3' = Tools!Enable(x3, Iframe)
      BY <1>1, <2>1, <2>3, EnableLeaves
    <2> QED
      BY <1>1, <2>2, <2>3
  <1>5. Tools!TypeOK'
    <2>1. x5' \in [pc : {"idle", "starting", "children", "script", "settling", "reporting"},
                   sync : {"none", "asked", "served", "done"}, count : Nat]
      BY <1>2, ToolsParts DEF Tools!TypeOK
    <2> QED
      BY <1>1, <1>4, <2>1, ToolsParts DEF Tools!TypeOK
  <1>6. \A c \in ToolCall : x4[c] = Tools!NoCall \/ x4[c].handoff = "left"
    BY <1>1, ToolsParts DEF Tools!CallsOK
  <1>7. Tools!CallsOK'
    BY <1>1, <1>3, <1>6, ToolsParts DEF Tools!CallsOK
  <1>8. \A c \in ToolCall : ~ (Tools!Live(x4'[c]) /\ ~ Tools!Abandoned(x4'[c])) /\ x4'[c].channel = x4[c].channel
    BY <1>1, <1>6 DEF Tools!NoCall, Tools!Live, Tools!Abandoned
  <1>9. StillWait(x4, x4') /\ Remembers(x4, x4', x1.running, x1'.running, Tools!OnWire(x2), x3, x3')
    BY <1>1, <1>8 DEF StillWait, Remembers
  <1> QED
    BY <1>1, <1>4, <1>5, <1>7, <1>8, <1>9, ToolsQuiet

(* Started keeps the invariant.                                                *)
LEMMA ToolsStarted ==
  ASSUME Tools!ToolsInv, Tools!Started
  PROVE  Tools!ToolsInv'
  <1>1. x1' = x1 /\ x2' = x2 /\ x3' = x3 /\ x4' = x4 /\ x5' = [x5 EXCEPT !.pc = "script"]
    BY DEF Tools!Started
  <1>2. x5' = [pc |-> "script", sync |-> x5.sync, count |-> x5.count]
    BY <1>1, Executes
  <1> QED
    BY <1>1, <1>2, Executes, ToolsOfExecute

(* ScriptEnds keeps the invariant.                                                *)
LEMMA ToolsScriptEnds ==
  ASSUME Tools!ToolsInv, Tools!ScriptEnds
  PROVE  Tools!ToolsInv'
  <1>1. x1' = x1 /\ x2' = x2 /\ x3' = x3 /\ x4' = x4 /\ x5' = [x5 EXCEPT !.pc = "settling"]
    BY DEF Tools!ScriptEnds
  <1>2. x5' = [pc |-> "settling", sync |-> x5.sync, count |-> x5.count]
    BY <1>1, Executes
  <1> QED
    BY <1>1, <1>2, Executes, ToolsOfExecute

(* Synchronize keeps the invariant.                                                *)
LEMMA ToolsSynchronize ==
  ASSUME Tools!ToolsInv, Tools!Synchronize
  PROVE  Tools!ToolsInv'
  <1> DEFINE p == IF x5.pc = "settling" THEN "reporting" ELSE x5.pc
             s == IF Tools!AsksThePage THEN "asked" ELSE "done"
  <1>1. /\ x1' = x1 /\ x2' = x2 /\ x3' = x3 /\ x4' = x4 /\ x5' = [x5 EXCEPT !.sync = s, !.pc = p]
        /\ x5.pc = "script" \/ (x5.pc = "settling" /\ Tools!Settles)
    BY DEF Tools!Synchronize
  <1>2. /\ s \in {"none", "asked", "served", "done"}
        /\ p = "script" \/ (p = "reporting" /\ \A c \in ToolCall : Tools!IsOver(x4[c]))
    BY <1>1 DEF Tools!Settles
  <1> HIDE DEF p, s
  <1>3. x5' = [pc |-> p, sync |-> s, count |-> x5.count]
    BY <1>1, Executes
  <1> QED
    BY <1>1, <1>2, <1>3, Executes, ToolsOfExecute

(* List keeps the invariant.                                                *)
LEMMA ToolsList ==
  ASSUME Tools!ToolsInv, Tools!List
  PROVE  Tools!ToolsInv'
  <1>1. /\ x1' = x1 /\ x2' = x2 /\ x3' = [x3 EXCEPT !.requested = TRUE] /\ x4' = x4
        /\ x5' = [x5 EXCEPT !.sync = "none"] /\ x5.pc \in {"script", "settling"}
    BY DEF Tools!List
  <1>2. x5' = [pc |-> x5.pc, sync |-> "none", count |-> x5.count]
    BY <1>1, Executes
  <1>3. SameEars(x3, x3') /\ x3'.tools = x3.tools
    BY <1>1, Executes DEF SameEars, Tools!ObjectRecord
  <1> QED
    BY <1>1, <1>2, <1>3, Executes, ToolsOfExecute

(* Report keeps the invariant.                                                *)
LEMMA ToolsReport ==
  ASSUME Tools!ToolsInv, Tools!Report
  PROVE  Tools!ToolsInv'
  <1>1. /\ x1' = x1 /\ x2' = x2 /\ x3' = [x3 EXCEPT !.changed = FALSE, !.requested = FALSE] /\ x4' = x4
        /\ x5' = [x5 EXCEPT !.pc = "idle", !.sync = "none"] /\ x5.pc = "reporting"
    BY DEF Tools!Report
  <1>2. x5' = [pc |-> "idle", sync |-> "none", count |-> x5.count]
    BY <1>1, Executes
  <1>3. SameEars(x3, x3') /\ x3'.tools = x3.tools
    BY <1>1, Executes DEF SameEars, Tools!ObjectRecord
  <1>4. \A c \in ToolCall : Tools!IsOver(x4[c])
    BY <1>1, ToolsParts DEF Tools!CallsOK
  <1> QED
    BY <1>1, <1>2, <1>3, <1>4, Executes, ToolsOfExecute

(* Invoke keeps the invariant.                                                *)
LEMMA ToolsInvoke ==
  ASSUME Tools!ToolsInv, NEW c \in ToolCall, NEW t \in x3.tools, NEW confirm \in BOOLEAN, Tools!Invoke(c, t, confirm)
  PROVE  Tools!ToolsInv'
  <1> DEFINE p == IF confirm THEN "confirming" ELSE "sent"
             h == IF confirm THEN "waiting" ELSE "none"
             r == [Tools!NoCall EXCEPT !.pc = p, !.handoff = h, !.tool = t, !.channel = Tools!ChannelOf(t.frame)]
  <1>1. /\ x1' = x1 /\ x2' = x2 /\ x3' = x3 /\ x5' = x5 /\ x4' = [x4 EXCEPT ![c] = r]
        /\ x5.pc = "script" /\ x4[c].pc = "idle"
    BY DEF Tools!Invoke
  <1>2. t \in [frame : Frame, registration : Nat]
    BY ToolsParts DEF Tools!TypeOK, Tools!ObjectRecord
  <1>3. /\ r \in Tools!CallRecord /\ r.pc \in {"confirming", "sent"} /\ Tools!CallOK(r)
        /\ r.channel = Tools!ChannelOf(t.frame)
    <2>1. Tools!ChannelOf(t.frame) \in Tools!Channel
      BY DEF Tools!ChannelOf, Tools!Channel
    <2>2. Tools!NoCall \in Tools!CallRecord /\ ~ Tools!NoCall.cancelled /\ Tools!NoCall.cancellation = "none"
          /\ Tools!NoCall.result = {}
      BY ToolsAssumption DEF Tools!NoCall, Tools!CallRecord, Tools!NoTool, Tools!Channel, Tools!Waiting
    <2>4. p \in {"confirming", "sent"} /\ h \in {"waiting", "none"}
      OBVIOUS
    <2> HIDE DEF p, h
    <2>3. /\ r \in Tools!CallRecord /\ r.pc = p /\ r.channel = Tools!ChannelOf(t.frame) /\ r.handoff = h
          /\ ~ r.cancelled /\ r.cancellation = "none" /\ r.result = {}
      BY <1>2, <2>1, <2>2, <2>4 DEF Tools!CallRecord, Tools!Waiting
    <2> HIDE DEF r
    <2> QED
      BY <2>3, <2>4 DEF Tools!CallOK, Tools!Abandoned
  <1> HIDE DEF r, p, h
  <1>4. /\ x4'[c] = r /\ x4' \in [ToolCall -> Tools!CallRecord] /\ \A d \in ToolCall : d # c => x4'[d] = x4[d]
    BY <1>1, <1>3, ToolsParts DEF Tools!TypeOK
  <1>5. Tools!TypeOK'
    BY <1>1, <1>4, ToolsParts DEF Tools!TypeOK
  <1>6. Tools!CallsOK'
    BY <1>1, <1>3, <1>4, ToolsParts DEF Tools!CallsOK
  <1>7. ~ Tools!Live(r)
    BY <1>3 DEF Tools!Live
  <1>8. StillWait(x4, x4')
    BY <1>1, <1>4, <1>7 DEF StillWait
  <1>9. Remembers(x4, x4', x1.running, x1'.running, Tools!OnWire(x2), x3, x3')
    BY <1>1, <1>4, <1>7 DEF Remembers
  <1>10. \A d \in ToolCall : x4'[d].channel = x4[d].channel \/ \E u \in x3.tools : x4'[d].channel = Tools!ChannelOf(u.frame)
    BY <1>3, <1>4
  <1>11. x3'.disposed => x3'.channels = {}
    BY <1>1, ToolsParts
  <1> QED
    BY <1>1, <1>5, <1>6, <1>8, <1>9, <1>10, <1>11, ToolsQuiet

(* StartAction keeps the invariant.                                                *)
LEMMA ToolsStartAction ==
  ASSUME Tools!ToolsInv, NEW c \in ToolCall, Tools!StartAction(c)
  PROVE  Tools!ToolsInv'
  <1>1. PICK p \in {"sent", "ended"} : x4' = [x4 EXCEPT ![c].pc = p]
    BY DEF Tools!StartAction
  <1>2. /\ x1' = x1 /\ x2' = x2 /\ x3' = x3 /\ x5' = x5 /\ x4[c].pc = "confirming"
        /\ x4[c] \in Tools!CallRecord /\ Tools!CallOK(x4[c]) /\ x4 \in [ToolCall -> Tools!CallRecord]
    BY ToolsParts DEF Tools!StartAction, Tools!TypeOK, Tools!CallsOK
  <1> DEFINE r == [x4[c] EXCEPT !.pc = p]
  <1>3. /\ r \in Tools!CallRecord /\ r.pc = p /\ r.channel = x4[c].channel /\ r.handoff = x4[c].handoff
        /\ Tools!CallOK(r)
    BY <1>2 DEF Tools!CallRecord, Tools!Waiting, Tools!CallOK
  <1>4. x4' = [x4 EXCEPT ![c] = r]
    BY <1>1, <1>2
  <1> HIDE DEF r
  <1>5. x4'[c] = r /\ x4' \in [ToolCall -> Tools!CallRecord] /\ \A d \in ToolCall : d # c => x4'[d] = x4[d]
    BY <1>2, <1>3, <1>4
  <1>6. Tools!TypeOK'
    BY <1>2, <1>5, ToolsParts DEF Tools!TypeOK
  <1>7. Tools!CallsOK'
    <2>1. ~ Tools!Rests(x4[c])
      BY <1>2 DEF Tools!Rests
    <2>2. \A d \in ToolCall : Tools!CallOK(x4'[d])
      BY <1>3, <1>5, ToolsParts DEF Tools!CallsOK
    <2> QED
      BY <1>2, <1>3, <1>5, <2>1, <2>2, CallsGoOn, ToolsParts
  <1>8. ~ Tools!Live(r)
    BY <1>3 DEF Tools!Live
  <1>9. StillWait(x4, x4') /\ Remembers(x4, x4', x1.running, x1'.running, Tools!OnWire(x2), x3, x3')
    BY <1>2, <1>5, <1>8 DEF StillWait, Remembers
  <1>10. \A d \in ToolCall : x4'[d].channel = x4[d].channel
    BY <1>3, <1>5
  <1>11. x3'.disposed => x3'.channels = {}
    BY <1>2, ToolsParts
  <1> QED
    BY <1>2, <1>6, <1>7, <1>9, <1>10, <1>11, ToolsQuiet

(* HandoffReturns keeps the invariant.                                                *)
LEMMA ToolsHandoffReturns ==
  ASSUME Tools!ToolsInv, NEW c \in ToolCall, Tools!HandoffReturns(c)
  PROVE  Tools!ToolsInv'
  <1> DEFINE p == IF x4[c].pc = "confirming" THEN "ended" ELSE x4[c].pc
             r == [x4[c] EXCEPT !.handoff = "none", !.pc = p]
  <1>1. /\ x1' = x1 /\ x2' = x2 /\ x3' = x3 /\ x5' = x5 /\ x4[c].handoff = "waiting"
        /\ x4[c] \in Tools!CallRecord /\ Tools!CallOK(x4[c]) /\ x4 \in [ToolCall -> Tools!CallRecord]
    BY ToolsParts DEF Tools!HandoffReturns, Tools!TypeOK, Tools!CallsOK
  <1>2. x4' = [x4 EXCEPT ![c] = r]
    BY <1>1 DEF Tools!HandoffReturns, Tools!CallRecord
  <1>3. /\ r \in Tools!CallRecord /\ r.pc = p /\ r.channel = x4[c].channel /\ r.id = x4[c].id
        /\ r.cancellation = x4[c].cancellation /\ r.handoff = "none" /\ Tools!CallOK(r)
    BY <1>1 DEF Tools!CallRecord, Tools!Waiting, Tools!CallOK, Tools!Abandoned
  <1> HIDE DEF r
  <1>4. x4'[c] = r /\ x4' \in [ToolCall -> Tools!CallRecord] /\ \A d \in ToolCall : d # c => x4'[d] = x4[d]
    BY <1>1, <1>2, <1>3
  <1>5. Tools!TypeOK'
    BY <1>1, <1>4, ToolsParts DEF Tools!TypeOK
  <1>6. Tools!CallsOK'
    <2>1. \A d \in ToolCall : Tools!CallOK(x4'[d])
      BY <1>3, <1>4, ToolsParts DEF Tools!CallsOK
    <2> QED
      BY <1>1, <1>4, <2>1, CallsGoOn, ToolsParts
  <1>7. \/ r.pc = x4[c].pc
        \/ ~ Tools!Live(r) /\ x4[c].pc # "invoked"
    BY <1>3 DEF Tools!Live
  <1>8. ~ Tools!Abandoned(x4[c])
    BY <1>1 DEF Tools!Abandoned
  <1>9. StillWait(x4, x4') /\ Remembers(x4, x4', x1.running, x1'.running, Tools!OnWire(x2), x3, x3')
    BY <1>1, <1>3, <1>4, <1>7, <1>8 DEF StillWait, Remembers
  <1>10. \A d \in ToolCall : x4'[d].channel = x4[d].channel
    BY <1>3, <1>4
  <1>11. x3'.disposed => x3'.channels = {}
    BY <1>1, ToolsParts
  <1> QED
    BY <1>1, <1>5, <1>6, <1>9, <1>10, <1>11, ToolsQuiet

(* HandoffLeaves keeps the invariant.                                                *)
LEMMA ToolsHandoffLeaves ==
  ASSUME Tools!ToolsInv, NEW c \in ToolCall, Tools!HandoffLeaves(c)
  PROVE  Tools!ToolsInv'
  <1>1. /\ x1' = x1 /\ x2' = x2 /\ x5' = x5 /\ x4[c].handoff = "waiting" /\ ~ Tools!Rests(x4[c])
        /\ x4[c].pc # "confirming" /\ x3 \in Tools!ObjectRecord /\ x4 \in [ToolCall -> Tools!CallRecord]
        /\ x3' = IF x3.disposed THEN x3 ELSE Tools!Dispose(x3)
    BY ToolsParts DEF Tools!HandoffLeaves, Tools!TypeOK
  <1>2. PICK k \in [ToolCall -> Tools!CallRecord] :
          /\ x4' = [k EXCEPT ![c].handoff = "leaving"] /\ StillWait(x4, k)
          /\ \A d \in ToolCall : Tools!CallOK(k[d]) /\ (k[d] = x4[d] \/ ~ Tools!Rests(x4[d]))
          /\ \A d \in ToolCall : k[d].channel = x4[d].channel /\ k[d].handoff = x4[d].handoff
          /\ \A d \in ToolCall : k[d] = x4[d] \/ (~ Tools!Live(k[d]) /\ x4[d].pc = "pending")
          /\ \A d \in ToolCall : x4[d].pc = "pending" /\ x4[d].channel \in Tools!Channel => ~ Tools!Live(k[d])
          /\ k[c].pc \in {x4[c].pc, "finishing", "ended"}
    <2> DEFINE k == Tools!FailPending(Tools!Channel)
    <2>1. x4' = [k EXCEPT ![c].handoff = "leaving"]
      BY DEF Tools!HandoffLeaves
    <2>2. k[c].pc \in {x4[c].pc, "finishing", "ended"}
      <3>1. k[c] = IF x4[c].pc = "pending" /\ x4[c].channel \in Tools!Channel THEN Tools!Fails(c) ELSE x4[c]
        BY DEF Tools!FailPending
      <3>2. x4[c].pc = "pending" => Tools!Fails(c).pc \in {"finishing", "ended"}
        <4> SUFFICES ASSUME x4[c].pc = "pending" PROVE Tools!Fails(c).pc \in {"finishing", "ended"}
          OBVIOUS
        <4>1. x4[c].cancellation # "done"
          BY ToolsParts DEF Tools!CallsOK, Tools!CallOK
        <4> QED
          BY <4>1, FailsEndsTheCall, ToolsParts
      <3> QED
        BY <3>1, <3>2
    <2>3. /\ k \in [ToolCall -> Tools!CallRecord] /\ StillWait(x4, k)
          /\ \A d \in ToolCall : Tools!CallOK(k[d]) /\ (k[d] = x4[d] \/ ~ Tools!Rests(x4[d]))
          /\ \A d \in ToolCall : k[d].channel = x4[d].channel /\ k[d].handoff = x4[d].handoff
          /\ \A d \in ToolCall : k[d] = x4[d] \/ (~ Tools!Live(k[d]) /\ x4[d].pc = "pending")
          /\ \A d \in ToolCall : x4[d].pc = "pending" /\ x4[d].channel \in Tools!Channel => ~ Tools!Live(k[d])
      BY FailPendingEnds, ToolsParts
    <2> HIDE DEF k
    <2> QED
      BY <2>1, <2>2, <2>3
  <1> DEFINE r == [k[c] EXCEPT !.handoff = "leaving"]
  <1>3. k[c].pc \notin {"confirming", "pending"}
    <2>1. x4[c].channel \in Tools!Channel
      BY <1>1 DEF Tools!CallRecord
    <2> QED
      BY <1>1, <1>2, <2>1 DEF Tools!Live
  <1>4. /\ r \in Tools!CallRecord /\ r.pc = k[c].pc /\ r.channel = k[c].channel /\ r.id = k[c].id
        /\ r.cancellation = k[c].cancellation /\ r.handoff = "leaving" /\ Tools!CallOK(r)
    BY <1>2, <1>3 DEF Tools!CallRecord, Tools!CallOK
  <1>5. x4' = [k EXCEPT ![c] = r]
    BY <1>2
  <1> HIDE DEF r
  <1>6. x4'[c] = r /\ x4' \in [ToolCall -> Tools!CallRecord] /\ \A d \in ToolCall : d # c => x4'[d] = k[d]
    BY <1>2, <1>4, <1>5
  <1>7. x3' \in Tools!ObjectRecord /\ x3'.channels = {} /\ x3'.tools \subseteq x3.tools
    BY <1>1, DisposeLeaves, ToolsParts
  <1>8. Tools!TypeOK'
    BY <1>1, <1>6, <1>7, ToolsParts DEF Tools!TypeOK
  <1>9. Tools!CallsOK'
    <2>1. \A d \in ToolCall : Tools!CallOK(x4'[d])
      BY <1>2, <1>4, <1>6
    <2>2. \A d \in ToolCall : d # c => x4'[d] = x4[d] \/ (~ Tools!Rests(x4[d]) /\ x4'[d].handoff = x4[d].handoff)
      BY <1>2, <1>6
    <2> QED
      BY <1>1, <2>1, <2>2, CallsGoOn, ToolsParts
  <1>10. StillWait(x4, x4')
    <2>1. Tools!Abandoned(r)
      BY <1>4 DEF Tools!Abandoned
    <2> QED
      BY <1>2, <1>4, <1>6, <2>1 DEF StillWait, Tools!Live
  <1>11. Remembers(x4, x4', x1.running, x1'.running, Tools!OnWire(x2), x3, x3')
    BY <1>1, <1>7 DEF Remembers
  <1>12. \A d \in ToolCall : x4'[d].channel = x4[d].channel
    BY <1>2, <1>4, <1>6
  <1> QED
    BY <1>1, <1>7, <1>8, <1>9, <1>10, <1>11, <1>12, ToolsQuiet

(* Disconnected keeps the invariant.                                                *)
LEMMA ToolsDisconnected ==
  ASSUME Tools!ToolsInv, NEW c \in ToolCall, Tools!Disconnected(c)
  PROVE  Tools!ToolsInv'
  <1> DEFINE r == [x4[c] EXCEPT !.handoff = "left"]
  <1>1. /\ x1' = x1 /\ x2' = x2 /\ x3' = x3 /\ x5' = x5 /\ x4[c].handoff = "leaving"
        /\ x4[c] \in Tools!CallRecord /\ Tools!CallOK(x4[c]) /\ x4 \in [ToolCall -> Tools!CallRecord]
    BY ToolsParts DEF Tools!Disconnected, Tools!TypeOK, Tools!CallsOK
  <1>2. x4' = [x4 EXCEPT ![c] = r]
    BY <1>1 DEF Tools!Disconnected
  <1>3. /\ r \in Tools!CallRecord /\ r.pc = x4[c].pc /\ r.channel = x4[c].channel /\ r.id = x4[c].id
        /\ r.cancellation = x4[c].cancellation /\ r.handoff = "left" /\ Tools!CallOK(r)
    BY <1>1 DEF Tools!CallRecord, Tools!CallOK, Tools!Abandoned
  <1> HIDE DEF r
  <1>4. x4'[c] = r /\ x4' \in [ToolCall -> Tools!CallRecord] /\ \A d \in ToolCall : d # c => x4'[d] = x4[d]
    BY <1>1, <1>2, <1>3
  <1>5. Tools!TypeOK'
    BY <1>1, <1>4, ToolsParts DEF Tools!TypeOK
  <1>6. Tools!CallsOK'
    <2>1. \A d \in ToolCall : Tools!CallOK(x4'[d])
      BY <1>3, <1>4, ToolsParts DEF Tools!CallsOK
    <2> QED
      BY <1>1, <1>4, <2>1, CallsGoOn, ToolsParts
  <1>8. Tools!Abandoned(r)
    BY <1>3 DEF Tools!Abandoned
  <1>9. StillWait(x4, x4') /\ Remembers(x4, x4', x1.running, x1'.running, Tools!OnWire(x2), x3, x3')
    BY <1>1, <1>3, <1>4, <1>8 DEF StillWait, Remembers
  <1>10. \A d \in ToolCall : x4'[d].channel = x4[d].channel
    BY <1>3, <1>4
  <1>11. x3'.disposed => x3'.channels = {}
    BY <1>1, ToolsParts
  <1> QED
    BY <1>1, <1>5, <1>6, <1>9, <1>10, <1>11, ToolsQuiet

(* The first state has the invariant.                                                *)
LEMMA ToolsInitially == Tools!Init => Tools!ToolsInv
  <1> SUFFICES ASSUME Tools!Init PROVE Tools!ToolsInv
    OBVIOUS
  <1>1. PICK declared \in {{}, {Main}, {Main, Iframe}} : x1 = Tools!NewPage(declared)
    BY DEF Tools!Init
  <1>2. /\ x2 = <<>> /\ x3 = [Tools!NewObject EXCEPT !.disposed = TRUE]
        /\ x4 = [c \in ToolCall |-> Tools!NoCall]
        /\ x5 = [pc |-> "idle", sync |-> "none", count |-> 0]
    BY DEF Tools!Init
  <1>3. /\ x1 \in Tools!PageRecord /\ x1.hadIframe = (Iframe \in declared)
        /\ Iframe \notin declared => x1.tool[Iframe] = 0 /\ Iframe \notin x1.attached
    <2>1. [f \in Frame |-> IF f \notin declared THEN 0 ELSE IF f = Main THEN 1 ELSE 2] \in [Frame -> Nat]
      OBVIOUS
    <2>2. {Main} \cup (declared \cap {Iframe}) \in SUBSET Tools!Channel
      BY DEF Tools!Channel
    <2>3. [ch \in Tools!Channel |-> 0] \in [Tools!Channel -> Nat]
      OBVIOUS
    <2>4. (IF declared = {} THEN 0 ELSE 2) \in Nat /\ (Iframe \in declared) \in BOOLEAN
      OBVIOUS
    <2>7. Frame \ ({Iframe} \ declared) \in SUBSET Frame
      OBVIOUS
    <2>5. x1 \in Tools!PageRecord
      BY <1>1, <2>1, <2>2, <2>3, <2>4, <2>7 DEF Tools!NewPage, Tools!PageRecord
    <2>6. x1.hadIframe = (Iframe \in declared) /\ x1.attached = {Main} \cup (declared \cap {Iframe})
          /\ x1.tool = [f \in Frame |-> IF f \notin declared THEN 0 ELSE IF f = Main THEN 1 ELSE 2]
      BY <1>1 DEF Tools!NewPage
    <2> QED
      BY <2>5, <2>6, ToolsAssumption
  <1>4. /\ x3 \in Tools!ObjectRecord /\ x3.channels = {} /\ x3.tools = {}
    BY <1>2 DEF Tools!NewObject, Tools!ObjectRecord, Tools!NotStarted
  <1>5. x2 \in Seq(Tools!Message) /\ Tools!OnWire(x2) = {} /\ Tools!InOrder(x2)
    <2>1. x2 \in Seq(Tools!Message) /\ DOMAIN x2 = {}
      BY <1>2
    <2> QED
      BY <2>1 DEF Tools!OnWire, Tools!InOrder
  <1>6. /\ Tools!NoCall \in Tools!CallRecord /\ Tools!CallOK(Tools!NoCall) /\ Tools!NoCall.pc = "idle"
        /\ Tools!NoCall.channel = Main /\ Tools!IsOver(Tools!NoCall)
    BY ToolsAssumption
    DEF Tools!NoCall, Tools!CallRecord, Tools!CallOK, Tools!NoTool, Tools!Channel, Tools!Waiting, Tools!Abandoned,
        Tools!IsOver, Tools!Rests
  <1>7. Tools!TypeOK
    BY <1>2, <1>3, <1>4, <1>5, <1>6 DEF Tools!TypeOK
  <1>8. Tools!CallsOK
    BY <1>2, <1>6 DEF Tools!CallsOK
  <1>9. \A c \in ToolCall, n \in Nat : ~ Tools!Waits(x4, Tools!OnWire(x2), c, n)
    BY <1>2, <1>5, <1>6 DEF Tools!Waits
  <1>10. /\ Tools!AnswersAreDue(x4, Tools!OnWire(x2)) /\ Tools!Numbered(x4, Tools!OnWire(x2), x1.invocations)
         /\ Tools!Distinct(x4, Tools!OnWire(x2)) /\ Tools!NoneIsLost(x4, Tools!OnWire(x2), x1.running, x3)
    BY <1>2, <1>5, <1>6, <1>9
    DEF Tools!AnswersAreDue, Tools!Numbered, Tools!Distinct, Tools!NoneIsLost
  <1>11. Tools!NewIframeIsUnknown(x1, Tools!OnWire(x2), x3, x4)
    BY <1>2, <1>3, <1>4, <1>5, <1>6, ToolsAssumption DEF Tools!NewIframeIsUnknown
  <1> QED
    BY <1>4, <1>5, <1>7, <1>8, <1>10, <1>11 DEF Tools!ToolsInv

(* A step that changes nothing keeps the invariant.                                                *)
LEMMA ToolsSame ==
  ASSUME Tools!ToolsInv, x1' = x1, x2' = x2, x3' = x3, x4' = x4, x5' = x5
  PROVE  Tools!ToolsInv'
  <1>1. Tools!TypeOK' /\ Tools!CallsOK'
    BY ToolsParts DEF Tools!TypeOK, Tools!CallsOK
  <1>2. /\ Tools!InOrder(x2') /\ Tools!AnswersAreDue(x4', Tools!OnWire(x2'))
        /\ Tools!Numbered(x4', Tools!OnWire(x2'), x1'.invocations)
        /\ Tools!Distinct(x4', Tools!OnWire(x2')) /\ Tools!NoneIsLost(x4', Tools!OnWire(x2'), x1'.running, x3')
        /\ Tools!NewIframeIsUnknown(x1', Tools!OnWire(x2'), x3', x4') /\ (x3'.disposed => x3'.channels = {})
    BY ToolsParts
  <1> QED
    BY <1>1, <1>2 DEF Tools!ToolsInv

(* Every step keeps the invariant.                                                *)
LEMMA ToolsNext == Tools!ToolsInv /\ Tools!Next => Tools!ToolsInv'
  <1> SUFFICES ASSUME Tools!ToolsInv, Tools!Next PROVE Tools!ToolsInv'
    OBVIOUS
  <1>1. CASE Tools!Chrome
    BY <1>1, ToolsRegister, ToolsUnregister, ToolsNavigate, ToolsAttachFrame, ToolsDetachFrame, ToolsAttachIframe,
       ToolsDetachIframe, ToolsRespond, ToolsInvalidate DEF Tools!Chrome
  <1>2. CASE Tools!Serve
    BY <1>2, ToolsServeInitialization, ToolsServeSynchronize, ToolsServeCall, ToolsServeCancel DEF Tools!Serve
  <1>3. CASE Tools!Deliver
    BY <1>3, ToolsToolsAdded, ToolsToolsRemoved, ToolsFrameNavigated, ToolsFrameAttached, ToolsFrameDetached,
       ToolsAttachedToTarget, ToolsDetachedFromTarget, ToolsIframeCrashed, ToolsToolResponded, ToolsInitialize,
       ToolsAnswered, ToolsSynchronized DEF Tools!Deliver
  <1>4. CASE Tools!Continue
    BY <1>4, ToolsStartChildren, ToolsStarted, ToolsSynchronize, ToolsList, ToolsReport, ToolsScriptEnds,
       ToolsRegisterInvocation, ToolsReturn, ToolsStartAction DEF Tools!Continue
  <1>5. CASE Tools!Start \/ Tools!Stop
    BY <1>5, ToolsStart, ToolsStop
  <1>6. CASE \E c \in ToolCall : \/ Tools!Cancel(c) \/ Tools!HandoffReturns(c)
                                 \/ Tools!HandoffLeaves(c) \/ Tools!Disconnected(c)
    BY <1>6, ToolsCancel, ToolsHandoffReturns, ToolsHandoffLeaves, ToolsDisconnected
  <1>7. CASE \E c \in ToolCall, t \in x3.tools, confirm \in BOOLEAN : Tools!Invoke(c, t, confirm)
    BY <1>7, ToolsInvoke
  <1> QED
    BY <1>1, <1>2, <1>3, <1>4, <1>5, <1>6, <1>7 DEF Tools!Next

(* What the invariant says of a call that waits.                                                *)
LEMMA ToolsAnswer == Tools!ToolsInv => Tools!CallsAreAnswered
  <1> SUFFICES ASSUME Tools!ToolsInv PROVE Tools!CallsAreAnswered
    OBVIOUS
  <1>1. \A c \in ToolCall : x4[c] \in Tools!CallRecord /\ Tools!CallOK(x4[c])
    BY ToolsParts DEF Tools!TypeOK, Tools!CallsOK
  <1>2. Tools!AnswersReachTheirCall
    <2> SUFFICES ASSUME NEW c \in ToolCall
                 PROVE  /\ x4[c].result \subseteq {[channel |-> x4[c].channel, id |-> x4[c].id]}
                        /\ x4[c].pc = "pending" /\ x4[c].channel \in x3.channels
                             => \/ [channel |-> x4[c].channel, id |-> x4[c].id, by |-> c] \in x1.running
                                \/ x4[c].cancellation = "sent"
                                \/ \E i \in DOMAIN x2 : x2[i].kind = "responded" /\ Tools!IsInvocation(c, x2[i])
                                \/ x3.dropped
      BY DEF Tools!AnswersReachTheirCall
    <2>1. x4[c].result \subseteq {[channel |-> x4[c].channel, id |-> x4[c].id]}
      BY <1>1 DEF Tools!CallOK
    <2>2. ASSUME x4[c].pc = "pending", x4[c].channel \in x3.channels
          PROVE  \/ [channel |-> x4[c].channel, id |-> x4[c].id, by |-> c] \in x1.running
                 \/ x4[c].cancellation = "sent"
                 \/ \E i \in DOMAIN x2 : x2[i].kind = "responded" /\ Tools!IsInvocation(c, x2[i])
                 \/ x3.dropped
      <3> DEFINE n == x4[c].id
      <3>1. n \in Nat
        BY <1>1 DEF Tools!CallRecord
      <3>2. Tools!Waits(x4, Tools!OnWire(x2), c, n)
        BY <2>2 DEF Tools!Waits
      <3>3. Tools!Kept(x4, Tools!OnWire(x2), x1.running, x3, c, n)
        BY <1>1, <2>2, <3>1, <3>2, ToolsParts DEF Tools!NoneIsLost, Tools!CallOK
      <3> QED
        BY <2>2, <3>3 DEF Tools!Kept, Tools!OnWire, Tools!IsInvocation
    <2> QED
      BY <2>1, <2>2
  <1>3. Tools!NoCallOutlivesItsRun
    BY <1>1, ToolsParts DEF Tools!NoCallOutlivesItsRun, Tools!CallsOK, Tools!IsOver, Tools!Rests, Tools!CallOK,
                            Tools!Abandoned
  <1> QED
    BY <1>2, <1>3 DEF Tools!CallsAreAnswered
-----------------------------------------------------------------------------
(* The part among the others.                                               *)

(* A behaviour of the tools starts and goes on as WebMcp does.                *)
LEMMA ToolsOfHelpers ==
  /\ AllInit /\ Is("tools") => Tools!Init
  /\ AllNext /\ Is("tools") => Tools!Next
  BY DEF AllInit, AllNext, Is, PageMoves, ToolsMove, RequestsMove, GroupsMove, AgentsMove, IssuesMove, LinkMoves,
         ProfilesMove, CurrentMoves, StoredMoves

(* It stays the part that it is.                                             *)
LEMMA PartStays == AllNext => part' = part
  BY DEF AllNext, PageMoves, ToolsMove, RequestsMove, GroupsMove, AgentsMove, IssuesMove, LinkMoves,
         ProfilesMove, CurrentMoves, StoredMoves

(* The invariant of Tools holds in every behaviour of it.                    *)
LEMMA ToolsAlways == AllSpec => [](Is("tools") => Tools!ToolsInv)
  <1>1. AllInit => (Is("tools") => Tools!ToolsInv)
    BY ToolsOfHelpers, ToolsInitially
  <1>2. (Is("tools") => Tools!ToolsInv) /\ [AllNext]_<<part, x>> => (Is("tools") => Tools!ToolsInv)'
    <2> SUFFICES ASSUME Is("tools") => Tools!ToolsInv, [AllNext]_<<part, x>>, Is("tools")'
                 PROVE  Tools!ToolsInv'
      OBVIOUS
    <2>1. CASE AllNext
      <3>1. Is("tools")
        BY <2>1, PartStays DEF Is
      <3> QED
        BY <2>1, <3>1, ToolsOfHelpers, ToolsNext
    <2>2. CASE UNCHANGED <<part, x>>
      <3>1. Is("tools") /\ x1' = x1 /\ x2' = x2 /\ x3' = x3 /\ x4' = x4 /\ x5' = x5
        BY <2>2 DEF Is, x
      <3> QED
        BY <3>1, ToolsSame
    <2> QED
      BY <2>1, <2>2
  <1> QED
    BY <1>1, <1>2, PTL DEF AllSpec

(* A call of a tool of a website is answered by its own invocation, whose response is not lost, and it     *)
(* ends before its execute does, unless the handoff it ran in ended under it; then it waits for no answer *)
(* any more (src/src/webmcp.ts, src/src/execute.ts, src/src/handoff.ts).                                *)
THEOREM CallsAnswered == AllSpec => []CallsAreAnswered
  <1>1. (Is("tools") => Tools!ToolsInv) => CallsAreAnswered
    BY ToolsAnswer DEF CallsAreAnswered
  <1> QED
    BY <1>1, ToolsAlways, PTL
-----------------------------------------------------------------------------
(* The group of a tab.                                                       *)

(* The parts of the invariant.                                               *)
LEMMA GroupsParts ==
  ASSUME Groups!GroupsInv
  PROVE  /\ Groups!TypeOK /\ Groups!LinkOK /\ Groups!JobsOK /\ Groups!PassOK /\ Groups!AloneOK /\ Groups!OwnedOK
         /\ x4 \in Seq(Groups!Message) /\ x5 \in Seq(Groups!JobRecord) /\ x6 \in Groups!JobRecord
  BY DEF Groups!GroupsInv, Groups!TypeOK

(* What the relay schedules is its last word.                                *)
LEMMA GroupsSchedule ==
  ASSUME Groups!TypeOK, x1.up, NEW intent \in {"group", "ungroup"}, Groups!Schedule(intent)
  PROVE  /\ x3' \in [waiting : BOOLEAN, pending : {"none", "group", "ungroup"}] /\ x4' \in Seq(Groups!Message)
         /\ x3'.pending \in {"none", intent}
         /\ x3'.pending = "none" => x4' # <<>> /\ x4'[Len(x4')].kind = intent
         /\ \A other \in {"group", "ungroup"} \ {intent} : Groups!LastWord(intent, other)'
  <1> DEFINE m == [kind |-> intent, answers |-> "worker"]
  <1>1. m \in Groups!Message /\ m.kind = intent
    BY DEF Groups!Message
  <1>2. x3 \in [waiting : BOOLEAN, pending : {"none", "group", "ungroup"}] /\ x4 \in Seq(Groups!Message)
    BY DEF Groups!TypeOK
  <1>3. CASE x3.waiting
    <2>1. x3' = [x3 EXCEPT !.pending = intent] /\ x4' = x4
      BY <1>3 DEF Groups!Schedule
    <2>2. x3'.pending = intent /\ intent # "none" /\ x3' \in [waiting : BOOLEAN, pending : {"none", "group", "ungroup"}]
      BY <1>2, <2>1
    <2> QED
      BY <1>2, <2>1, <2>2 DEF Groups!LastWord
  <1>4. CASE ~ x3.waiting
    <2>1. x3' = [waiting |-> TRUE, pending |-> "none"] /\ x4' = Append(x4, m)
      BY <1>4 DEF Groups!Schedule, Groups!Sends
    <2> HIDE DEF m
    <2>2. x4' \in Seq(Groups!Message) /\ x4' # <<>> /\ x4'[Len(x4')] = m
      BY <1>1, <1>2, <2>1
    <2> QED
      BY <1>1, <2>1, <2>2 DEF Groups!LastWord
  <1> QED
    BY <1>3, <1>4

(* When a command of the worker has been answered, or will not be, what waits is sent.     *)
LEMMA GroupsContinues ==
  ASSUME Groups!TypeOK, Groups!LinkOK, Groups!Continues
  PROVE  /\ x3' \in [waiting : BOOLEAN, pending : {"none", "group", "ungroup"}] /\ x4' \in Seq(Groups!Message)
         /\ x3'.pending = "none"
         /\ x3.pending # "none" => x1.up /\ x4' # <<>> /\ x4'[Len(x4')].kind = x3.pending
         /\ x3.pending = "none" => x3' = Groups!NoWorker /\ x4' = x4
  <1> DEFINE m == [kind |-> x3.pending, answers |-> "worker"]
  <1>1. x3 \in [waiting : BOOLEAN, pending : {"none", "group", "ungroup"}] /\ x4 \in Seq(Groups!Message)
    BY DEF Groups!TypeOK
  <1>2. Groups!NoWorker \in [waiting : BOOLEAN, pending : {"none", "group", "ungroup"}] /\ Groups!NoWorker.pending = "none"
    BY DEF Groups!NoWorker
  <1>3. CASE x3.pending = "none"
    BY <1>1, <1>2, <1>3 DEF Groups!Continues
  <1>4. CASE x3.pending # "none"
    <2>1. x1.up
      BY <1>2, <1>4 DEF Groups!LinkOK
    <2>2. x3' = [waiting |-> TRUE, pending |-> "none"] /\ x4' = Append(x4, m)
      BY <1>4, <2>1 DEF Groups!Continues, Groups!Sends
    <2>3. m \in Groups!Message /\ m.kind = x3.pending
      BY <1>1, <1>4 DEF Groups!Message
    <2> HIDE DEF m
    <2>4. x4' \in Seq(Groups!Message) /\ x4' # <<>> /\ x4'[Len(x4')] = m
      BY <1>1, <2>2, <2>3
    <2> QED
      BY <1>4, <2>1, <2>2, <2>3, <2>4
  <1> QED
    BY <1>3, <1>4

(* The last word is still the last when what waits is sent and the chain has kept it.       *)
LEMMA GroupsGoesOn ==
  ASSUME Groups!TypeOK, Groups!LinkOK, Groups!Continues, NEW kind \in {"group", "ungroup"}, NEW other \in {"group", "ungroup"},
         kind # other, Groups!LastWord(kind, other), Groups!InChain(kind, other) => Groups!InChain(kind, other)'
  PROVE  Groups!LastWord(kind, other)'
  <1>1. CASE x3.pending = "none"
    BY <1>1, GroupsContinues DEF Groups!LastWord
  <1>2. CASE x3.pending # "none"
    <2>1. x3.pending = kind
      BY <1>2 DEF Groups!LastWord, Groups!TypeOK
    <2> QED
      BY <1>2, <2>1, GroupsContinues DEF Groups!LastWord
  <1> QED
    BY <1>1, <1>2

(* A step that leaves alone what the invariant is about keeps it.                    *)
LEMMA GroupsSame ==
  ASSUME Groups!GroupsInv, x1' = x1, x2' = x2, x3' = x3, x4' = x4, x5' = x5, x6' = x6, x7' = x7, x8' = x8
  PROVE  Groups!GroupsInv'
  BY DEF Groups!GroupsInv, Groups!TypeOK, Groups!LinkOK, Groups!JobsOK, Groups!PassOK, Groups!AloneOK,
         Groups!OwnedOK, Groups!LastWord, Groups!InChain, Groups!Orders, Groups!Shown, Groups!Afresh,
         Groups!PassWill

(* At first.                                                                 *)
LEMMA GroupsInitially == Groups!Init => Groups!GroupsInv
  <1> SUFFICES ASSUME Groups!Init PROVE Groups!GroupsInv
    OBVIOUS
  <1>1. Groups!TypeOK
    BY DEF Groups!Init, Groups!TypeOK, Groups!NoWorker, Groups!NoPass, Groups!Idle, Groups!JobRecord, Groups!Message
  <1>2. Groups!LinkOK /\ Groups!AloneOK /\ Groups!OwnedOK
    BY DEF Groups!Init, Groups!LinkOK, Groups!AloneOK, Groups!OwnedOK
  <1>3. Groups!JobsOK /\ Groups!PassOK
    BY DEF Groups!Init, Groups!JobsOK, Groups!PassOK, Groups!NoPass, Groups!Idle
  <1> QED
    BY <1>1, <1>2, <1>3 DEF Groups!GroupsInv

(* It says what GroupFollowsOwnership claims.                                     *)
LEMMA GroupsFollow == Groups!GroupsInv => Groups!GroupFollowsOwnership
  <1> SUFFICES ASSUME Groups!GroupsInv, Groups!Quiet PROVE Groups!GroupFollowsOwnership
    BY DEF Groups!GroupFollowsOwnership
  <1>1. /\ x1.up /\ x3.pending = "none" /\ x4 = <<>> /\ x5 = <<>> /\ x6.pc = "idle" /\ x7.pc = "none" /\ ~ x8.event
        /\ DOMAIN x5 = {}
    BY DEF Groups!Quiet, Groups!NoWorker
  <1>2. x6.kind = "none"
    BY <1>1, GroupsParts DEF Groups!JobsOK
  <1>3. ASSUME ~ x2.attached, ~ x8.debugged
        PROVE  x8.group \notin {"ours", "anonymous"}
    <2>1. x8.group # "anonymous"
      BY <1>1, GroupsParts DEF Groups!JobsOK
    <2>2. CASE Groups!Afresh
      BY <1>1, <1>3, <2>1, <2>2 DEF Groups!Afresh, Groups!PassWill
    <2>3. CASE Groups!LastWord("ungroup", "group")
      BY <1>1, <1>2, <2>3 DEF Groups!LastWord, Groups!InChain, Groups!Orders, Groups!Shown
    <2> QED
      BY <1>1, <1>3, <2>2, <2>3, GroupsParts DEF Groups!AloneOK
  <1>4. ASSUME x2.attached, x8.debugged, x2.owned, ~ x8.moved, ~ x2.overtaken
        PROVE  x8.group = "ours"
    <2>1. Groups!LastWord("group", "ungroup")
      BY <1>4, GroupsParts DEF Groups!OwnedOK
    <2> QED
      BY <1>1, <1>2, <1>4, <2>1 DEF Groups!LastWord, Groups!InChain, Groups!Orders, Groups!Shown
  <1> QED
    BY <1>3, <1>4 DEF Groups!GroupFollowsOwnership

-----------------------------------------------------------------------------
(* The relay.                                                               *)

(* What depends on the chain of jobs only stays when the chain, the browser and the pass do.    *)
LEMMA GroupsChainStays ==
  ASSUME x1.generation' = x1.generation, x5' = x5, x6' = x6, x8'.group = x8.group, x8'.moved = x8.moved,
         NEW kind \in {"group", "ungroup"}, NEW other \in {"group", "ungroup"}
  PROVE  Groups!InChain(kind, other)' <=> Groups!InChain(kind, other)
  BY DEF Groups!InChain, Groups!Orders, Groups!Shown

(* The command that the relay gives up is followed by what waits.                      *)
LEMMA GroupsGiveUp ==
  ASSUME Groups!GroupsInv, Groups!GiveUp
  PROVE  Groups!GroupsInv'
  <1>1. /\ x1' = x1 /\ x2' = x2 /\ x5' = x5 /\ x6' = x6 /\ x7' = x7 /\ x8' = x8
        /\ x3.waiting /\ Groups!Continues
    BY DEF Groups!GiveUp
  <1>2. \A kind, other \in {"group", "ungroup"} :
          kind # other /\ Groups!LastWord(kind, other) => Groups!LastWord(kind, other)'
    BY <1>1, GroupsChainStays, GroupsGoesOn, GroupsParts
  <1>3. ~ Groups!Afresh /\ x1.up
    BY <1>1, GroupsParts DEF Groups!Afresh, Groups!NoWorker, Groups!LinkOK
  <1>TypeOK. Groups!TypeOK'
    BY <1>1, GroupsParts, GroupsContinues DEF Groups!TypeOK
  <1>LinkOK. Groups!LinkOK'
    BY <1>1, <1>3, GroupsParts DEF Groups!LinkOK
  <1>JobsOK. Groups!JobsOK'
    BY <1>1, GroupsParts DEF Groups!JobsOK
  <1>PassOK. Groups!PassOK'
    BY <1>1, GroupsParts DEF Groups!PassOK
  <1>AloneOK. Groups!AloneOK'
    BY <1>1, <1>2, <1>3, GroupsParts DEF Groups!AloneOK
  <1>OwnedOK. Groups!OwnedOK'
    BY <1>1, <1>2, GroupsParts DEF Groups!OwnedOK
  <1> QED
    BY <1>TypeOK, <1>LinkOK, <1>JobsOK, <1>PassOK, <1>AloneOK, <1>OwnedOK DEF Groups!GroupsInv

(* The record of the connection.                                             *)
LEMMA GroupsLink ==
  ASSUME Groups!GroupsInv
  PROVE  x1 \in [generation : Nat, up : BOOLEAN, ready : BOOLEAN]
  BY DEF Groups!GroupsInv, Groups!TypeOK

(* What is said last when the relay schedules what the tab is.                          *)
LEMMA GroupsIntent ==
  ASSUME Groups!GroupsInv, x1' \in [generation : Nat, up : BOOLEAN, ready : BOOLEAN], x1'.generation = x1.generation,
         x1.up, x1'.up, x5' = x5, x6' = x6, x7' = x7,
         x2' \in [attached : BOOLEAN, owned : BOOLEAN, detaching : BOOLEAN, overtaken : BOOLEAN],
         x8' \in [debugged : BOOLEAN, group : {"none", "users", "ours", "anonymous"}, event : BOOLEAN, moved : BOOLEAN],
         x8'.group = x8.group, x8'.moved = x8.moved, x2'.attached => x1'.ready,
         NEW intent \in {"group", "ungroup"}, Groups!Schedule(intent),
         ~ x2'.attached => intent = "ungroup",
         x2'.attached /\ x8'.debugged /\ x2'.owned => intent = "group"
  PROVE  Groups!GroupsInv'
  <1>TypeOK. Groups!TypeOK'
    BY GroupsParts, GroupsSchedule DEF Groups!TypeOK
  <1>LinkOK. Groups!LinkOK'
    BY GroupsParts DEF Groups!LinkOK
  <1>JobsOK. Groups!JobsOK'
    BY GroupsParts DEF Groups!JobsOK
  <1>PassOK. Groups!PassOK'
    BY GroupsParts DEF Groups!PassOK
  <1>AloneOK. Groups!AloneOK'
    BY GroupsParts, GroupsSchedule DEF Groups!AloneOK
  <1>OwnedOK. Groups!OwnedOK'
    BY GroupsParts, GroupsSchedule DEF Groups!OwnedOK
  <1> QED
    BY <1>TypeOK, <1>LinkOK, <1>JobsOK, <1>PassOK, <1>AloneOK, <1>OwnedOK DEF Groups!GroupsInv

(* A tab is attached, by a client or by its user, or active-tab attachment sends the command itself.      *)
LEMMA GroupsAttach ==
  ASSUME Groups!GroupsInv, NEW active \in BOOLEAN, Groups!Attach(active)
  PROVE  Groups!GroupsInv'
  <1>1. /\ x1' = x1 /\ x5' = x5 /\ x6' = x6 /\ x7' = x7 /\ x1.up /\ x1.ready
        /\ x2' = [x2 EXCEPT !.attached = TRUE, !.overtaken = active /\ x3.pending # "none"]
        /\ x8' = [x8 EXCEPT !.debugged = TRUE]
    BY DEF Groups!Attach
  <1>2. /\ x2 \in [attached : BOOLEAN, owned : BOOLEAN, detaching : BOOLEAN, overtaken : BOOLEAN]
        /\ x8 \in [debugged : BOOLEAN, group : {"none", "users", "ours", "anonymous"}, event : BOOLEAN, moved : BOOLEAN]
    BY GroupsParts DEF Groups!TypeOK
  <1>3. /\ x2' \in [attached : BOOLEAN, owned : BOOLEAN, detaching : BOOLEAN, overtaken : BOOLEAN]
        /\ x2'.attached /\ x2'.owned = x2.owned /\ (x2'.overtaken <=> active /\ x3.pending # "none")
    BY <1>1, <1>2
  <1>4. /\ x8' \in [debugged : BOOLEAN, group : {"none", "users", "ours", "anonymous"}, event : BOOLEAN, moved : BOOLEAN]
        /\ x8'.debugged /\ x8'.group = x8.group /\ x8'.moved = x8.moved
    BY <1>1, <1>2
  <1>5. Groups!Intent(x2') = IF x2.owned THEN "group" ELSE "ungroup"
    BY <1>3 DEF Groups!Intent
  <1>6. CASE ~ active
    <2>1. Groups!Schedule(Groups!Intent(x2'))
      BY <1>6 DEF Groups!Attach
    <2> QED
      BY <1>1, <1>3, <1>4, <1>5, <2>1, GroupsLink, GroupsIntent
  <1>7. CASE active
    <2> DEFINE m == [kind |-> Groups!Intent(x2'), answers |-> "nobody"]
    <2>1. x3' = x3 /\ x4' = Append(x4, m)
      BY <1>7 DEF Groups!Attach
    <2>2. m \in Groups!Message /\ (x2.owned => m.kind = "group")
      BY <1>5 DEF Groups!Message
    <2> HIDE DEF m
    <2>3. x4' \in Seq(Groups!Message) /\ x4' # <<>> /\ x4'[Len(x4')] = m
      BY <2>1, <2>2, GroupsParts
    <2>TypeOK. Groups!TypeOK'
      BY <1>1, <1>3, <1>4, <2>1, <2>3, GroupsParts DEF Groups!TypeOK
    <2>LinkOK. Groups!LinkOK'
      BY <1>1, <1>3, GroupsParts DEF Groups!LinkOK
    <2>JobsOK. Groups!JobsOK'
      BY <1>1, <1>4, GroupsParts DEF Groups!JobsOK
    <2>PassOK. Groups!PassOK'
      BY <1>1, GroupsParts DEF Groups!PassOK
    <2>AloneOK. Groups!AloneOK'
      BY <1>3 DEF Groups!AloneOK
    <2>OwnedOK. Groups!OwnedOK'
      <3> SUFFICES ASSUME x2.owned, x3.pending = "none" PROVE Groups!LastWord("group", "ungroup")'
        BY <1>3, <1>7 DEF Groups!OwnedOK
      <3> QED
        BY <2>1, <2>2, <2>3 DEF Groups!LastWord
    <2> QED
      BY <2>TypeOK, <2>LinkOK, <2>JobsOK, <2>PassOK, <2>AloneOK, <2>OwnedOK DEF Groups!GroupsInv
  <1> QED
    BY <1>6, <1>7

(* A session gets the tab, or gives it back.                                    *)
LEMMA GroupsChangeOwner ==
  ASSUME Groups!GroupsInv, Groups!ChangeOwner
  PROVE  Groups!GroupsInv'
  <1>1. /\ x1' = x1 /\ x5' = x5 /\ x6' = x6 /\ x7' = x7 /\ x8' = x8 /\ x2.attached
        /\ x2' = [x2 EXCEPT !.owned = ~ x2.owned, !.overtaken = FALSE]
        /\ Groups!Schedule(Groups!Intent(x2'))
    BY DEF Groups!ChangeOwner
  <1>2. x2 \in [attached : BOOLEAN, owned : BOOLEAN, detaching : BOOLEAN, overtaken : BOOLEAN] /\ (~ x2.owned) \in BOOLEAN
    BY GroupsParts DEF Groups!TypeOK
  <1>3. /\ x2' \in [attached : BOOLEAN, owned : BOOLEAN, detaching : BOOLEAN, overtaken : BOOLEAN] /\ x2'.attached
    BY <1>1, <1>2
  <1>4. Groups!Intent(x2') = IF x2'.owned THEN "group" ELSE "ungroup"
    BY <1>3 DEF Groups!Intent
  <1>5. x1.up /\ x1.ready
    BY <1>1, GroupsParts DEF Groups!LinkOK
  <1>6. x8' \in [debugged : BOOLEAN, group : {"none", "users", "ours", "anonymous"}, event : BOOLEAN, moved : BOOLEAN]
    BY <1>1, GroupsParts DEF Groups!TypeOK
  <1> QED
    BY <1>1, <1>3, <1>4, <1>5, <1>6, GroupsLink, GroupsIntent

(* The user toggles a tab: the debugger is asked to go.                          *)
LEMMA GroupsDetach ==
  ASSUME Groups!GroupsInv, Groups!Detach
  PROVE  Groups!GroupsInv'
  <1> DEFINE m == [kind |-> "detach", answers |-> "toggle"]
  <1>1. /\ x1' = x1 /\ x3' = x3 /\ x5' = x5 /\ x6' = x6 /\ x7' = x7 /\ x8' = x8 /\ x1.up /\ x2.attached
        /\ x2' = [x2 EXCEPT !.detaching = TRUE] /\ x4' = Append(x4, m)
    BY DEF Groups!Detach
  <1>2. m \in Groups!Message /\ m.kind = "detach"
    BY DEF Groups!Message
  <1> HIDE DEF m
  <1>3. x4' \in Seq(Groups!Message) /\ x4' # <<>> /\ x4'[Len(x4')] = m
    BY <1>1, <1>2, GroupsParts
  <1>4. x2 \in [attached : BOOLEAN, owned : BOOLEAN, detaching : BOOLEAN, overtaken : BOOLEAN]
    BY GroupsParts DEF Groups!TypeOK
  <1>5. /\ x2' \in [attached : BOOLEAN, owned : BOOLEAN, detaching : BOOLEAN, overtaken : BOOLEAN]
        /\ x2'.attached /\ x2'.owned = x2.owned /\ x2'.overtaken = x2.overtaken
    BY <1>1, <1>4
  <1>TypeOK. Groups!TypeOK'
    BY <1>1, <1>3, <1>5, GroupsParts DEF Groups!TypeOK
  <1>LinkOK. Groups!LinkOK'
    BY <1>1, <1>5, GroupsParts DEF Groups!LinkOK
  <1>JobsOK. Groups!JobsOK'
    BY <1>1, GroupsParts DEF Groups!JobsOK
  <1>PassOK. Groups!PassOK'
    BY <1>1, GroupsParts DEF Groups!PassOK
  <1>AloneOK. Groups!AloneOK'
    BY <1>5 DEF Groups!AloneOK
  <1>OwnedOK. Groups!OwnedOK'
    BY <1>1, <1>2, <1>3, <1>5, GroupsParts DEF Groups!OwnedOK, Groups!LastWord
  <1> QED
    BY <1>TypeOK, <1>LinkOK, <1>JobsOK, <1>PassOK, <1>AloneOK, <1>OwnedOK DEF Groups!GroupsInv

(* It stops waiting for that.                                                  *)
LEMMA GroupsDetachGivesUp ==
  ASSUME Groups!GroupsInv, Groups!DetachGivesUp
  PROVE  Groups!GroupsInv'
  <1>1. /\ x1' = x1 /\ x3' = x3 /\ x4' = x4 /\ x5' = x5 /\ x6' = x6 /\ x7' = x7 /\ x8' = x8
        /\ x2' = [x2 EXCEPT !.detaching = FALSE]
    BY DEF Groups!DetachGivesUp
  <1>2. x2 \in [attached : BOOLEAN, owned : BOOLEAN, detaching : BOOLEAN, overtaken : BOOLEAN]
    BY GroupsParts DEF Groups!TypeOK
  <1>3. /\ x2' \in [attached : BOOLEAN, owned : BOOLEAN, detaching : BOOLEAN, overtaken : BOOLEAN]
        /\ x2'.attached = x2.attached /\ x2'.owned = x2.owned /\ x2'.overtaken = x2.overtaken
    BY <1>1, <1>2
  <1>4. /\ \A kind, other \in {"group", "ungroup"} : Groups!LastWord(kind, other) => Groups!LastWord(kind, other)'
        /\ Groups!Afresh => Groups!Afresh'
    BY <1>1 DEF Groups!LastWord, Groups!InChain, Groups!Orders, Groups!Shown, Groups!Afresh, Groups!PassWill
  <1>TypeOK. Groups!TypeOK'
    BY <1>1, <1>3, GroupsParts DEF Groups!TypeOK
  <1>LinkOK. Groups!LinkOK'
    BY <1>1, <1>3, GroupsParts DEF Groups!LinkOK
  <1>JobsOK. Groups!JobsOK'
    BY <1>1, GroupsParts DEF Groups!JobsOK
  <1>PassOK. Groups!PassOK'
    BY <1>1, GroupsParts DEF Groups!PassOK
  <1>AloneOK. Groups!AloneOK'
    BY <1>1, <1>3, <1>4, GroupsParts DEF Groups!AloneOK
  <1>OwnedOK. Groups!OwnedOK'
    BY <1>1, <1>3, <1>4, GroupsParts DEF Groups!OwnedOK
  <1> QED
    BY <1>TypeOK, <1>LinkOK, <1>JobsOK, <1>PassOK, <1>AloneOK, <1>OwnedOK DEF Groups!GroupsInv

(* The debugger was taken away: the tab has no owner to show.                     *)
LEMMA GroupsDetachEvent ==
  ASSUME Groups!GroupsInv, Groups!DetachEvent
  PROVE  Groups!GroupsInv'
  <1>1. /\ x1' = x1 /\ x5' = x5 /\ x6' = x6 /\ x7' = x7 /\ x1.up
        /\ x8' = [x8 EXCEPT !.event = FALSE] /\ x2' = [x2 EXCEPT !.attached = FALSE, !.overtaken = FALSE]
        /\ Groups!Schedule("ungroup")
    BY DEF Groups!DetachEvent, Groups!Detached
  <1>2. /\ x2 \in [attached : BOOLEAN, owned : BOOLEAN, detaching : BOOLEAN, overtaken : BOOLEAN]
        /\ x8 \in [debugged : BOOLEAN, group : {"none", "users", "ours", "anonymous"}, event : BOOLEAN, moved : BOOLEAN]
    BY GroupsParts DEF Groups!TypeOK
  <1>3. x2' \in [attached : BOOLEAN, owned : BOOLEAN, detaching : BOOLEAN, overtaken : BOOLEAN] /\ ~ x2'.attached
    BY <1>1, <1>2
  <1>4. /\ x8' \in [debugged : BOOLEAN, group : {"none", "users", "ours", "anonymous"}, event : BOOLEAN, moved : BOOLEAN]
        /\ x8'.group = x8.group /\ x8'.moved = x8.moved
    BY <1>1, <1>2
  <1> QED
    BY <1>1, <1>3, <1>4, GroupsLink, GroupsIntent

-----------------------------------------------------------------------------
(* The connection.                                                          *)

(* Without a connection nothing is claimed.                                       *)
LEMMA GroupsDisconnect ==
  ASSUME Groups!GroupsInv, Groups!Disconnect
  PROVE  Groups!GroupsInv'
  <1>1. /\ x1' = [x1 EXCEPT !.up = FALSE, !.ready = FALSE]
        /\ x2' = [x2 EXCEPT !.attached = FALSE, !.overtaken = FALSE, !.detaching = FALSE]
        /\ x3' = Groups!NoWorker /\ x4' = <<>> /\ x5' = x5 /\ x6' = x6 /\ x7' = x7
        /\ x8' = [x8 EXCEPT !.event = FALSE]
    BY DEF Groups!Disconnect, Groups!Detached
  <1>2. /\ x2 \in [attached : BOOLEAN, owned : BOOLEAN, detaching : BOOLEAN, overtaken : BOOLEAN]
        /\ x8 \in [debugged : BOOLEAN, group : {"none", "users", "ours", "anonymous"}, event : BOOLEAN, moved : BOOLEAN]
    BY GroupsParts DEF Groups!TypeOK
  <1>3. x1' \in [generation : Nat, up : BOOLEAN, ready : BOOLEAN] /\ ~ x1'.up /\ x1'.generation = x1.generation
    BY <1>1, GroupsLink
  <1>4. x2' \in [attached : BOOLEAN, owned : BOOLEAN, detaching : BOOLEAN, overtaken : BOOLEAN] /\ ~ x2'.attached
    BY <1>1, <1>2
  <1>5. /\ x8' \in [debugged : BOOLEAN, group : {"none", "users", "ours", "anonymous"}, event : BOOLEAN, moved : BOOLEAN]
        /\ x8'.group = x8.group /\ x8'.moved = x8.moved
    BY <1>1, <1>2
  <1>TypeOK. Groups!TypeOK'
    BY <1>1, <1>3, <1>4, <1>5, GroupsParts DEF Groups!TypeOK, Groups!NoWorker
  <1>LinkOK. Groups!LinkOK'
    BY <1>1, <1>3, <1>4 DEF Groups!LinkOK, Groups!NoWorker
  <1>JobsOK. Groups!JobsOK'
    BY <1>1, <1>3, <1>5, GroupsParts DEF Groups!JobsOK
  <1>PassOK. Groups!PassOK'
    BY <1>1, GroupsParts DEF Groups!PassOK
  <1>AloneOK. Groups!AloneOK'
    BY <1>3 DEF Groups!AloneOK
  <1>OwnedOK. Groups!OwnedOK'
    BY <1>4 DEF Groups!OwnedOK
  <1> QED
    BY <1>TypeOK, <1>LinkOK, <1>JobsOK, <1>PassOK, <1>AloneOK, <1>OwnedOK DEF Groups!GroupsInv

(* What is left of earlier connections is stale on the new one, and a pass is on its way.      *)
LEMMA GroupsConnect ==
  ASSUME Groups!GroupsInv, Groups!Connect
  PROVE  Groups!GroupsInv'
  <1>1. /\ ~ x1.up /\ x1' = [generation |-> x1.generation + 1, up |-> TRUE, ready |-> FALSE]
        /\ x7' = IF x7.pc = "none" THEN Groups!NewPass(x1.generation + 1) ELSE x7
        /\ x2' = x2 /\ x3' = x3 /\ x4' = x4 /\ x5' = x5 /\ x6' = x6 /\ x8' = x8
    BY DEF Groups!Connect
  <1>2. x7 \in [pc : {"none", "query", "visit", "waits"}, generation : Nat, attached : BOOLEAN] /\ x1.generation \in Nat
    BY GroupsParts DEF Groups!TypeOK
  <1>3. /\ x1' \in [generation : Nat, up : BOOLEAN, ready : BOOLEAN] /\ x1'.up /\ ~ x1'.ready
        /\ x1'.generation = x1.generation + 1
    BY <1>1, <1>2
  <1>4. /\ x7' \in [pc : {"none", "query", "visit", "waits"}, generation : Nat, attached : BOOLEAN]
        /\ x7'.generation <= x1'.generation /\ (x7.pc = "waits" => x7' = x7)
        /\ Groups!PassWill'
    <2>1. CASE x7.pc = "none"
      BY <1>1, <1>2, <1>3, <2>1 DEF Groups!NewPass, Groups!PassWill
    <2>2. CASE x7.pc # "none"
      BY <1>1, <1>2, <1>3, <2>2, GroupsParts DEF Groups!JobsOK, Groups!PassWill
    <2> QED
      BY <2>1, <2>2
  <1>5. x3 = Groups!NoWorker /\ x4 = <<>> /\ ~ x2.attached
    BY <1>1, GroupsParts DEF Groups!LinkOK
  <1>6. /\ x6.generation \in Nat /\ x6.generation <= x1.generation
        /\ \A k \in DOMAIN x5 : x5[k].generation \in Nat /\ x5[k].generation <= x1.generation
    <2>1. \A k \in DOMAIN x5 : x5[k] \in Groups!JobRecord
      BY GroupsParts
    <2> QED
      BY <2>1, GroupsParts DEF Groups!JobsOK, Groups!JobRecord
  <1>TypeOK. Groups!TypeOK'
    BY <1>1, <1>3, <1>4, GroupsParts DEF Groups!TypeOK
  <1>LinkOK. Groups!LinkOK'
    BY <1>1, <1>2, <1>3, <1>5 DEF Groups!LinkOK
  <1>JobsOK. Groups!JobsOK'
    BY <1>1, <1>2, <1>3, <1>4, <1>6, GroupsParts DEF Groups!JobsOK
  <1>PassOK. Groups!PassOK'
    BY <1>1, <1>4, GroupsParts DEF Groups!PassOK
  <1>AloneOK. Groups!AloneOK'
    <2>1. Groups!Afresh'
      BY <1>1, <1>2, <1>3, <1>4, <1>5, <1>6 DEF Groups!Afresh, Groups!NoWorker
    <2> QED
      BY <2>1 DEF Groups!AloneOK
  <1>OwnedOK. Groups!OwnedOK'
    BY <1>1, <1>5 DEF Groups!OwnedOK
  <1> QED
    BY <1>TypeOK, <1>LinkOK, <1>JobsOK, <1>PassOK, <1>AloneOK, <1>OwnedOK DEF Groups!GroupsInv

(* The announced tab is attached again, and its intent is refreshed.                      *)
LEMMA GroupsReady ==
  ASSUME Groups!GroupsInv, Groups!Ready
  PROVE  Groups!GroupsInv'
  <1>1. /\ x1.up /\ ~ x1.ready /\ x1' = [x1 EXCEPT !.ready = TRUE] /\ x2' = [x2 EXCEPT !.attached = x8.debugged]
        /\ x5' = x5 /\ x6' = x6 /\ x7' = x7 /\ x8' = x8
    BY DEF Groups!Ready
  <1>2. /\ x2 \in [attached : BOOLEAN, owned : BOOLEAN, detaching : BOOLEAN, overtaken : BOOLEAN]
        /\ x8 \in [debugged : BOOLEAN, group : {"none", "users", "ours", "anonymous"}, event : BOOLEAN, moved : BOOLEAN]
        /\ x8.debugged \in BOOLEAN
    BY GroupsParts DEF Groups!TypeOK
  <1>3. /\ x1' \in [generation : Nat, up : BOOLEAN, ready : BOOLEAN] /\ x1'.up /\ x1'.ready
        /\ x1'.generation = x1.generation
    BY <1>1, GroupsLink
  <1>4. /\ x2' \in [attached : BOOLEAN, owned : BOOLEAN, detaching : BOOLEAN, overtaken : BOOLEAN]
        /\ x2'.attached = x8.debugged /\ x2'.owned = x2.owned
    BY <1>1, <1>2
  <1>5. CASE x8.debugged
    <2>1. Groups!Schedule(Groups!Intent(x2'))
      BY <1>5 DEF Groups!Ready
    <2>2. Groups!Intent(x2') = IF x2'.owned THEN "group" ELSE "ungroup"
      BY <1>4, <1>5 DEF Groups!Intent
    <2> QED
      BY <1>1, <1>2, <1>3, <1>4, <1>5, <2>1, <2>2, GroupsIntent
  <1>6. CASE ~ x8.debugged
    <2>1. x3' = x3 /\ x4' = x4
      BY <1>6 DEF Groups!Ready
    <2>2. ~ x2.attached /\ ~ x2'.attached
      BY <1>1, <1>4, <1>6, GroupsParts DEF Groups!LinkOK
    <2>TypeOK. Groups!TypeOK'
      BY <1>1, <1>3, <1>4, <2>1, GroupsParts DEF Groups!TypeOK
    <2>LinkOK. Groups!LinkOK'
      BY <1>1, <1>3, <2>1, <2>2, GroupsParts DEF Groups!LinkOK
    <2>JobsOK. Groups!JobsOK'
      BY <1>1, <1>3, GroupsParts DEF Groups!JobsOK
    <2>PassOK. Groups!PassOK'
      BY <1>1, GroupsParts DEF Groups!PassOK
    <2>AloneOK. Groups!AloneOK'
      <3>1. Groups!LastWord("ungroup", "group") => Groups!LastWord("ungroup", "group")'
        BY <1>1, <1>3, <2>1, GroupsChainStays DEF Groups!LastWord
      <3>2. Groups!Afresh => Groups!Afresh'
        BY <1>1, <1>3, <2>1 DEF Groups!Afresh, Groups!PassWill, Groups!NoWorker
      <3> QED
        BY <1>1, <2>2, <3>1, <3>2, GroupsParts DEF Groups!AloneOK
    <2>OwnedOK. Groups!OwnedOK'
      BY <2>2 DEF Groups!OwnedOK
    <2> QED
      BY <2>TypeOK, <2>LinkOK, <2>JobsOK, <2>PassOK, <2>AloneOK, <2>OwnedOK DEF Groups!GroupsInv
  <1> QED
    BY <1>5, <1>6

-----------------------------------------------------------------------------
(* The user.                                                                *)

(* The user moves the tab: it shows whatever was said last.                             *)
LEMMA GroupsMoveTab ==
  ASSUME Groups!GroupsInv, Groups!MoveTab
  PROVE  Groups!GroupsInv'
  <1>1. x1' = x1 /\ x2' = x2 /\ x3' = x3 /\ x4' = x4 /\ x5' = x5 /\ x6' = x6 /\ x7' = x7
    BY DEF Groups!MoveTab
  <1>2. PICK group \in {"none", "users"} : x8' = [x8 EXCEPT !.group = group, !.moved = TRUE]
    BY DEF Groups!MoveTab
  <1>3. x8 \in [debugged : BOOLEAN, group : {"none", "users", "ours", "anonymous"}, event : BOOLEAN, moved : BOOLEAN]
    BY GroupsParts DEF Groups!TypeOK
  <1>4. /\ x8' \in [debugged : BOOLEAN, group : {"none", "users", "ours", "anonymous"}, event : BOOLEAN, moved : BOOLEAN]
        /\ x8'.debugged = x8.debugged /\ x8'.group \notin {"ours", "anonymous"} /\ x8'.moved
    BY <1>2, <1>3
  <1>5. \A kind, other \in {"group", "ungroup"} : Groups!InChain(kind, other) => Groups!InChain(kind, other)'
    BY <1>1, <1>4 DEF Groups!InChain, Groups!Orders, Groups!Shown
  <1>6. \A kind, other \in {"group", "ungroup"} : Groups!LastWord(kind, other) => Groups!LastWord(kind, other)'
    BY <1>1, <1>5 DEF Groups!LastWord
  <1>TypeOK. Groups!TypeOK'
    BY <1>1, <1>4, GroupsParts DEF Groups!TypeOK
  <1>LinkOK. Groups!LinkOK'
    BY <1>1, GroupsParts DEF Groups!LinkOK, Groups!NoWorker
  <1>JobsOK. Groups!JobsOK'
    BY <1>1, <1>4, GroupsParts DEF Groups!JobsOK
  <1>PassOK. Groups!PassOK'
    BY <1>1, GroupsParts DEF Groups!PassOK
  <1>AloneOK. Groups!AloneOK'
    BY <1>1, <1>4, <1>6, GroupsParts DEF Groups!AloneOK, Groups!Afresh, Groups!NoWorker
  <1>OwnedOK. Groups!OwnedOK'
    BY <1>1, <1>4, <1>6, GroupsParts DEF Groups!OwnedOK
  <1> QED
    BY <1>TypeOK, <1>LinkOK, <1>JobsOK, <1>PassOK, <1>AloneOK, <1>OwnedOK DEF Groups!GroupsInv

(* The user dismisses the debugger: the event of it is on its way.                       *)
LEMMA GroupsDismissDebugger ==
  ASSUME Groups!GroupsInv, Groups!DismissDebugger
  PROVE  Groups!GroupsInv'
  <1>1. /\ x1' = x1 /\ x2' = x2 /\ x3' = x3 /\ x4' = x4 /\ x5' = x5 /\ x6' = x6 /\ x7' = x7
        /\ x8' = [x8 EXCEPT !.debugged = FALSE, !.event = x1.up]
    BY DEF Groups!DismissDebugger
  <1>2. /\ x8 \in [debugged : BOOLEAN, group : {"none", "users", "ours", "anonymous"}, event : BOOLEAN, moved : BOOLEAN]
        /\ x1.up \in BOOLEAN
    BY GroupsParts DEF Groups!TypeOK
  <1>3. /\ x8' \in [debugged : BOOLEAN, group : {"none", "users", "ours", "anonymous"}, event : BOOLEAN, moved : BOOLEAN]
        /\ ~ x8'.debugged /\ x8'.event = x1.up /\ x8'.group = x8.group /\ x8'.moved = x8.moved
    BY <1>1, <1>2
  <1>TypeOK. Groups!TypeOK'
    BY <1>1, <1>3, GroupsParts DEF Groups!TypeOK
  <1>LinkOK. Groups!LinkOK'
    BY <1>1, GroupsParts DEF Groups!LinkOK, Groups!NoWorker
  <1>JobsOK. Groups!JobsOK'
    BY <1>1, <1>3, GroupsParts DEF Groups!JobsOK
  <1>PassOK. Groups!PassOK'
    BY <1>1, GroupsParts DEF Groups!PassOK
  <1>AloneOK. Groups!AloneOK'
    <2>1. Groups!LastWord("ungroup", "group") => Groups!LastWord("ungroup", "group")'
      BY <1>1, <1>3, GroupsChainStays DEF Groups!LastWord
    <2>2. x1.up /\ Groups!Afresh => Groups!Afresh'
      BY <1>1, <1>3 DEF Groups!Afresh, Groups!NoWorker
    <2> QED
      BY <1>1, <2>1, <2>2, GroupsParts DEF Groups!AloneOK
  <1>OwnedOK. Groups!OwnedOK'
    BY <1>3 DEF Groups!OwnedOK
  <1> QED
    BY <1>TypeOK, <1>LinkOK, <1>JobsOK, <1>PassOK, <1>AloneOK, <1>OwnedOK DEF Groups!GroupsInv

-----------------------------------------------------------------------------
(* The extension.                                                           *)

(* The record of one more job at the end of the chain.                                *)
LEMMA GroupsQueue ==
  ASSUME Groups!TypeOK, NEW j \in Groups!JobRecord, NEW jobs2, jobs2 = Append(x5, j)
  PROVE  /\ jobs2 \in Seq(Groups!JobRecord) /\ DOMAIN jobs2 = DOMAIN x5 \cup {Len(x5) + 1}
         /\ Len(x5) + 1 \notin DOMAIN x5 /\ jobs2[Len(x5) + 1] = j
         /\ \A i \in DOMAIN x5 : jobs2[i] = x5[i] /\ i \in Nat /\ i < Len(x5) + 1
  <1>1. x5 \in Seq(Groups!JobRecord)
    BY DEF Groups!TypeOK
  <1> QED
    BY <1>1

(* A command arrives at the end of the chain of its tab.                               *)
LEMMA GroupsHandleCommand ==
  ASSUME Groups!GroupsInv, Groups!HandleCommand
  PROVE  Groups!GroupsInv'
  <1> DEFINE c == Head(x4)
             kind == IF c.kind = "group" THEN "group" ELSE "ungroup"
             j == [pc |-> "get", kind |-> kind, generation |-> x1.generation, answers |-> c.answers]
  <1>1. /\ x4 # <<>> /\ x4' = Tail(x4) /\ x5' = Append(x5, j)
        /\ x8' = IF c.kind = "detach" THEN [x8 EXCEPT !.debugged = FALSE] ELSE x8
        /\ x1' = x1 /\ x2' = x2 /\ x3' = x3 /\ x6' = x6 /\ x7' = x7
    BY DEF Groups!HandleCommand, Groups!Queue
  <1>2. c \in Groups!Message /\ x4' \in Seq(Groups!Message) /\ Len(x4) > 0
        /\ (x4' # <<>> => x4'[Len(x4')] = x4[Len(x4)]) /\ (x4' = <<>> => x4[Len(x4)] = c)
    <2>1. x4 \in Seq(Groups!Message) /\ Len(x4) \in Nat /\ Len(x4) > 0 /\ c = x4[1]
      BY <1>1, GroupsParts
    <2>2. x4' \in Seq(Groups!Message) /\ Len(x4') = Len(x4) - 1 /\ \A i \in 1..(Len(x4) - 1) : x4'[i] = x4[i + 1]
      BY <1>1, <2>1
    <2>3. CASE x4' = <<>>
      <3>1. Len(x4) = 1
        BY <2>1, <2>2, <2>3
      <3> QED
        BY <2>1, <2>2, <2>3, <3>1
    <2>4. CASE x4' # <<>>
      <3>1. Len(x4) - 1 \in 1..(Len(x4) - 1) /\ (Len(x4) - 1) + 1 = Len(x4)
        BY <2>1, <2>2, <2>4
      <3> QED
        BY <2>1, <2>2, <2>4, <3>1
    <2> QED
      BY <2>3, <2>4
  <1>3. kind \in {"group", "ungroup"} /\ j \in Groups!JobRecord /\ j.pc = "get" /\ j.kind = kind
        /\ j.generation = x1.generation /\ j.answers # "pass"
    BY <1>2, GroupsLink DEF Groups!JobRecord, Groups!Message
  <1>4. (c.kind = "ungroup" \/ c.kind = "detach" => kind = "ungroup") /\ (c.kind = "group" => kind = "group")
        /\ c.kind \in {"group", "ungroup", "detach"}
    BY <1>2 DEF Groups!Message
  <1> HIDE DEF c, kind, j
  <1>5. /\ x5' \in Seq(Groups!JobRecord) /\ DOMAIN x5' = DOMAIN x5 \cup {Len(x5) + 1}
        /\ Len(x5) + 1 \notin DOMAIN x5 /\ x5'[Len(x5) + 1] = j
        /\ \A i \in DOMAIN x5 : x5'[i] = x5[i] /\ i \in Nat /\ i < Len(x5) + 1
    BY <1>1, <1>3, GroupsParts, GroupsQueue
  <1>6. x8 \in [debugged : BOOLEAN, group : {"none", "users", "ours", "anonymous"}, event : BOOLEAN, moved : BOOLEAN]
    BY GroupsParts DEF Groups!TypeOK
  <1>7. /\ x8' \in [debugged : BOOLEAN, group : {"none", "users", "ours", "anonymous"}, event : BOOLEAN, moved : BOOLEAN]
        /\ x8'.group = x8.group /\ x8'.moved = x8.moved /\ x8'.event = x8.event
        /\ (x8'.debugged <=> x8.debugged /\ c.kind # "detach")
    BY <1>1, <1>6
  <1>8. Len(x5) + 1 \in Nat /\ ~ (Len(x5) + 1 > Len(x5) + 1)
    BY GroupsParts
  <1>9. ASSUME NEW k \in {"group", "ungroup"}, NEW other \in {"group", "ungroup"}, k # other, kind = k
        PROVE  Groups!InChain(k, other)'
    <2>1. /\ Len(x5) + 1 \in DOMAIN x5' /\ x5'[Len(x5) + 1].kind = k
          /\ x5'[Len(x5) + 1].generation = x1'.generation
      BY <1>1, <1>3, <1>5, <1>9
    <2>2. \A l \in DOMAIN x5' : ~ (l > Len(x5) + 1)
      BY <1>5, <1>8
    <2> QED
      BY <2>1, <2>2 DEF Groups!InChain, Groups!Orders
  <1>10. x1.up /\ ~ Groups!Afresh
    BY <1>1, GroupsParts DEF Groups!LinkOK, Groups!Afresh
  <1>11. ASSUME NEW k \in {"group", "ungroup"}, NEW other \in {"group", "ungroup"}, k # other,
                Groups!LastWord(k, other), c.kind # other => kind = k
         PROVE  Groups!LastWord(k, other)'
    <2>1. x3.pending = "none" => x4[Len(x4)].kind # other
      BY <1>1, <1>11 DEF Groups!LastWord
    <2>2. x3.pending = "none" /\ x4' = <<>> => kind = k
      BY <1>2, <1>11, <2>1
    <2> QED
      BY <1>1, <1>2, <1>9, <1>11, <2>1, <2>2 DEF Groups!LastWord
  <1>TypeOK. Groups!TypeOK'
    BY <1>1, <1>2, <1>5, <1>7, GroupsParts DEF Groups!TypeOK
  <1>LinkOK. Groups!LinkOK'
    BY <1>1, <1>10, GroupsParts DEF Groups!LinkOK
  <1>JobsOK. Groups!JobsOK'
    BY <1>1, <1>3, <1>5, <1>7, GroupsLink, GroupsParts DEF Groups!JobsOK
  <1>PassOK. Groups!PassOK'
    BY <1>1, <1>3, <1>5, GroupsParts DEF Groups!PassOK
  <1>AloneOK. Groups!AloneOK'
    BY <1>1, <1>4, <1>10, <1>11, GroupsParts DEF Groups!AloneOK
  <1>OwnedOK. Groups!OwnedOK'
    BY <1>1, <1>4, <1>7, <1>11, GroupsParts DEF Groups!OwnedOK
  <1> QED
    BY <1>TypeOK, <1>LinkOK, <1>JobsOK, <1>PassOK, <1>AloneOK, <1>OwnedOK DEF Groups!GroupsInv

(* The next command of the chain begins.                                           *)
LEMMA GroupsStart ==
  ASSUME Groups!GroupsInv, Groups!Start
  PROVE  Groups!GroupsInv'
  <1>1. /\ x6.pc = "idle" /\ x5 # <<>> /\ x6' = Head(x5) /\ x5' = Tail(x5)
        /\ x1' = x1 /\ x2' = x2 /\ x3' = x3 /\ x4' = x4 /\ x7' = x7 /\ x8' = x8
    BY DEF Groups!Start
  <1>2. x5 \in Seq(Groups!JobRecord) /\ Len(x5) \in Nat /\ Len(x5) > 0
    BY <1>1, GroupsParts
  <1>3. /\ x5' \in Seq(Groups!JobRecord) /\ DOMAIN x5 = 1..Len(x5) /\ DOMAIN x5' = 1..(Len(x5) - 1)
        /\ x6' = x5[1] /\ 1 \in DOMAIN x5 /\ x6' \in Groups!JobRecord
        /\ \A i \in DOMAIN x5' : x5'[i] = x5[i + 1] /\ i + 1 \in DOMAIN x5 /\ i + 1 # 1 /\ i \in Nat
        /\ \A i \in DOMAIN x5 : i \in Nat /\ (i # 1 => i - 1 \in DOMAIN x5' /\ x5'[i - 1] = x5[i])
    BY <1>1, <1>2
  <1>4. x6.kind = "none" /\ x6'.pc = "get" /\ x6'.kind # "none" /\ x6'.generation <= x1.generation
    BY <1>1, <1>3, GroupsParts DEF Groups!JobsOK
  <1>5. ASSUME NEW kind \in {"group", "ungroup"}, NEW other \in {"group", "ungroup"}, kind # other,
               Groups!InChain(kind, other)
        PROVE  Groups!InChain(kind, other)'
    <2>1. CASE \E i \in DOMAIN x5 : Groups!Orders(x5[i], kind) /\ \A k \in DOMAIN x5 : k > i => ~ Groups!Orders(x5[k], other)
      <3>1. PICK i \in DOMAIN x5 : /\ x5[i].kind = kind /\ x5[i].generation = x1.generation
                                  /\ \A k \in DOMAIN x5 : k > i => ~ (x5[k].kind = other /\ x5[k].generation = x1.generation)
        BY <2>1 DEF Groups!Orders
      <3>2. CASE i = 1
        <4>1. \A k \in DOMAIN x5' : ~ (x5'[k].kind = other /\ x5'[k].generation = x1.generation)
          BY <1>3, <3>1, <3>2
        <4> QED
          BY <1>1, <1>3, <3>1, <3>2, <4>1 DEF Groups!InChain, Groups!Orders
      <3>3. CASE i # 1
        <4>1. i - 1 \in DOMAIN x5' /\ x5'[i - 1].kind = kind /\ x5'[i - 1].generation = x1.generation
          BY <1>3, <3>1, <3>3
        <4>2. \A k \in DOMAIN x5' : k > i - 1 => ~ (x5'[k].kind = other /\ x5'[k].generation = x1.generation)
          BY <1>3, <3>1
        <4> QED
          BY <1>1, <4>1, <4>2 DEF Groups!InChain, Groups!Orders
      <3> QED
        BY <3>2, <3>3
    <2>2. CASE (\A k \in DOMAIN x5 : ~ Groups!Orders(x5[k], other)) /\ (Groups!Orders(x6, kind) \/ Groups!Shown(kind))
      <3>1. \A k \in DOMAIN x5' : ~ (x5'[k].kind = other /\ x5'[k].generation = x1.generation)
        BY <1>3, <2>2 DEF Groups!Orders
      <3>2. ~ (x6'.kind = other /\ x6'.generation = x1.generation)
        BY <1>3, <2>2 DEF Groups!Orders
      <3>3. Groups!Shown(kind)
        BY <1>4, <2>2 DEF Groups!Orders
      <3>4. Groups!Shown(kind)'
        <4>1. CASE kind = "group"
          BY <1>1, <1>4, <1>5, <3>2, <3>3, <4>1 DEF Groups!Shown, Groups!Orders
        <4>2. CASE kind = "ungroup"
          BY <1>1, <1>4, <1>5, <3>2, <3>3, <4>2 DEF Groups!Shown, Groups!Orders
        <4> QED
          BY <4>1, <4>2
      <3> QED
        BY <1>1, <3>1, <3>4 DEF Groups!InChain, Groups!Orders
    <2> QED
      BY <1>5, <2>1, <2>2 DEF Groups!InChain
  <1>6. \A kind, other \in {"group", "ungroup"} :
          kind # other /\ Groups!LastWord(kind, other) => Groups!LastWord(kind, other)'
    BY <1>1, <1>5 DEF Groups!LastWord
  <1>7. Groups!Afresh => Groups!Afresh'
    <2> SUFFICES ASSUME Groups!Afresh PROVE Groups!Afresh'
      OBVIOUS
    <2>1. \A k \in DOMAIN x5' : x5'[k].kind = "reconcile" \/ x5'[k].generation # x1.generation
      BY <1>3 DEF Groups!Afresh
    <2>2. x6'.kind = "reconcile" \/ x6'.generation # x1.generation
      BY <1>3 DEF Groups!Afresh
    <2> QED
      BY <1>1, <1>4, <2>1, <2>2 DEF Groups!Afresh, Groups!PassWill, Groups!NoWorker
  <1>TypeOK. Groups!TypeOK'
    BY <1>1, <1>3, GroupsParts DEF Groups!TypeOK
  <1>LinkOK. Groups!LinkOK'
    BY <1>1, GroupsParts DEF Groups!LinkOK, Groups!NoWorker
  <1>JobsOK. Groups!JobsOK'
    BY <1>1, <1>3, <1>4, GroupsParts DEF Groups!JobsOK
  <1>PassOK. Groups!PassOK'
    <2>1. (x6'.kind = "reconcile" <=> x6'.answers = "pass")
          /\ (x6'.kind = "reconcile" => x7.pc = "waits" /\ x6'.generation = x7.generation
                /\ \A k \in DOMAIN x5 : k # 1 => x5[k].kind # "reconcile")
      BY <1>3, GroupsParts DEF Groups!PassOK
    <2>2. \A i \in DOMAIN x5' :
            /\ x5'[i].kind = "reconcile" <=> x5'[i].answers = "pass"
            /\ x5'[i].kind = "reconcile" =>
                 x7.pc = "waits" /\ x5'[i].generation = x7.generation /\ x6'.kind # "reconcile"
      <3> SUFFICES ASSUME NEW i \in DOMAIN x5'
                   PROVE  /\ x5'[i].kind = "reconcile" <=> x5'[i].answers = "pass"
                          /\ x5'[i].kind = "reconcile" =>
                               x7.pc = "waits" /\ x5'[i].generation = x7.generation /\ x6'.kind # "reconcile"
        OBVIOUS
      <3>1. i + 1 \in DOMAIN x5 /\ x5'[i] = x5[i + 1] /\ 1 \in DOMAIN x5 /\ i + 1 # 1 /\ x6' = x5[1]
        BY <1>3
      <3> QED
        BY <3>1, GroupsParts DEF Groups!PassOK
    <2>3. ASSUME NEW i \in DOMAIN x5', x5'[i].kind = "reconcile", NEW k \in DOMAIN x5', k # i
          PROVE  x5'[k].kind # "reconcile"
      <3>1. i + 1 \in DOMAIN x5 /\ k + 1 \in DOMAIN x5 /\ k + 1 # i + 1 /\ x5[i + 1].kind = "reconcile"
            /\ x5'[k] = x5[k + 1]
        BY <1>3, <2>3
      <3> QED
        BY <3>1, GroupsParts DEF Groups!PassOK
    <2> QED
      BY <1>1, <2>1, <2>2, <2>3 DEF Groups!PassOK
  <1>AloneOK. Groups!AloneOK'
    BY <1>1, <1>6, <1>7, GroupsParts DEF Groups!AloneOK
  <1>OwnedOK. Groups!OwnedOK'
    BY <1>1, <1>6, GroupsParts DEF Groups!OwnedOK
  <1> QED
    BY <1>TypeOK, <1>LinkOK, <1>JobsOK, <1>PassOK, <1>AloneOK, <1>OwnedOK DEF Groups!GroupsInv

(* A pass that ends is repeated when it outlived its connection.                         *)
LEMMA GroupsRestarted ==
  ASSUME Groups!GroupsInv
  PROVE  /\ Groups!Restarted \in [pc : {"none", "query", "visit", "waits"}, generation : Nat, attached : BOOLEAN]
         /\ Groups!Restarted.generation <= x1.generation
         /\ x1.up /\ x7.generation # x1.generation => Groups!Restarted.pc = "query"
  <1>1. x1.generation \in Nat
    BY GroupsLink
  <1>2. CASE x1.up /\ x7.generation # x1.generation
    BY <1>1, <1>2 DEF Groups!Restarted, Groups!NewPass
  <1>3. CASE ~ (x1.up /\ x7.generation # x1.generation)
    BY <1>1, <1>3 DEF Groups!Restarted, Groups!NoPass
  <1> QED
    BY <1>2, <1>3

(* The pass asks which tabs are debugged.                                            *)
LEMMA GroupsQuery ==
  ASSUME Groups!GroupsInv, Groups!Query
  PROVE  Groups!GroupsInv'
  <1>1. /\ x7.pc = "query"
        /\ x7' = IF Groups!Stale(x7.generation) THEN Groups!Restarted ELSE [x7 EXCEPT !.pc = "visit", !.attached = x8.debugged]
        /\ x1' = x1 /\ x2' = x2 /\ x3' = x3 /\ x4' = x4 /\ x5' = x5 /\ x6' = x6 /\ x8' = x8
    BY DEF Groups!Query
  <1>2. x7 \in [pc : {"none", "query", "visit", "waits"}, generation : Nat, attached : BOOLEAN] /\ x8.debugged \in BOOLEAN
    BY GroupsParts DEF Groups!TypeOK
  <1>3. /\ x7' \in [pc : {"none", "query", "visit", "waits"}, generation : Nat, attached : BOOLEAN]
        /\ x7'.generation <= x1.generation
        /\ x1.up => x8.debugged \/ Groups!PassWill'
    <2>1. CASE Groups!Stale(x7.generation)
      BY <1>1, <2>1, GroupsRestarted DEF Groups!Stale, Groups!Up, Groups!PassWill
    <2>2. CASE ~ Groups!Stale(x7.generation)
      <3>1. x7' = [x7 EXCEPT !.pc = "visit", !.attached = x8.debugged] /\ x7.generation = x1.generation
        BY <1>1, <2>2 DEF Groups!Stale, Groups!Up
      <3>2. /\ x7' \in [pc : {"none", "query", "visit", "waits"}, generation : Nat, attached : BOOLEAN]
            /\ x7'.generation = x1.generation /\ x7'.attached = x8.debugged /\ x7'.pc = "visit"
        BY <1>2, <3>1
      <3> QED
        BY <3>2, GroupsLink DEF Groups!PassWill
    <2> QED
      BY <2>1, <2>2
  <1>4. \A i \in DOMAIN x5 : x5[i].kind # "reconcile"
    BY <1>1, GroupsParts DEF Groups!PassOK
  <1>5. x6.kind # "reconcile"
    BY <1>1, GroupsParts DEF Groups!PassOK
  <1>6. \A kind, other \in {"group", "ungroup"} : Groups!LastWord(kind, other) => Groups!LastWord(kind, other)'
    BY <1>1, GroupsChainStays DEF Groups!LastWord
  <1>TypeOK. Groups!TypeOK'
    BY <1>1, <1>3, GroupsParts DEF Groups!TypeOK
  <1>LinkOK. Groups!LinkOK'
    BY <1>1, GroupsParts DEF Groups!LinkOK, Groups!NoWorker
  <1>JobsOK. Groups!JobsOK'
    BY <1>1, <1>3, GroupsParts DEF Groups!JobsOK
  <1>PassOK. Groups!PassOK'
    BY <1>1, <1>4, <1>5, GroupsParts DEF Groups!PassOK
  <1>AloneOK. Groups!AloneOK'
    <2>1. x1.up /\ Groups!Afresh => Groups!Afresh'
      BY <1>1, <1>3 DEF Groups!Afresh, Groups!NoWorker
    <2> QED
      BY <1>1, <1>6, <2>1, GroupsParts DEF Groups!AloneOK
  <1>OwnedOK. Groups!OwnedOK'
    BY <1>1, <1>6, GroupsParts DEF Groups!OwnedOK
  <1> QED
    BY <1>TypeOK, <1>LinkOK, <1>JobsOK, <1>PassOK, <1>AloneOK, <1>OwnedOK DEF Groups!GroupsInv

(* The pass visits the tab: nothing to do, or one more command of the chain.                 *)
LEMMA GroupsVisit ==
  ASSUME Groups!GroupsInv, Groups!Visit
  PROVE  Groups!GroupsInv'
  <1> DEFINE done == Groups!Stale(x7.generation) \/ x8.group # "ours" \/ x7.attached
             j == [pc |-> "get", kind |-> "reconcile", generation |-> x7.generation, answers |-> "pass"]
  <1>1. /\ x7.pc = "visit" /\ x1' = x1 /\ x2' = x2 /\ x3' = x3 /\ x4' = x4 /\ x6' = x6 /\ x8' = x8
        /\ done => x7' = Groups!Restarted /\ x5' = x5
        /\ ~ done => x7' = [x7 EXCEPT !.pc = "waits"] /\ x5' = Append(x5, j)
    BY DEF Groups!Visit, Groups!Queue
  <1>2. x7 \in [pc : {"none", "query", "visit", "waits"}, generation : Nat, attached : BOOLEAN]
    BY GroupsParts DEF Groups!TypeOK
  <1>3. j \in Groups!JobRecord /\ j.pc = "get" /\ j.kind = "reconcile" /\ j.generation = x7.generation /\ j.answers = "pass"
        /\ j.generation <= x1.generation
    BY <1>2, GroupsParts DEF Groups!JobRecord, Groups!JobsOK
  <1>4. (\A i \in DOMAIN x5 : x5[i].kind # "reconcile") /\ x6.kind # "reconcile"
    BY <1>1, GroupsParts DEF Groups!PassOK
  <1>5. done /\ x1.up /\ x8.group = "ours" /\ Groups!PassWill => Groups!PassWill'
    <2> SUFFICES ASSUME done, x1.up, x8.group = "ours", Groups!PassWill PROVE Groups!PassWill'
      OBVIOUS
    <2>1. x7.generation # x1.generation
      BY <1>1 DEF Groups!Stale, Groups!Up, Groups!PassWill
    <2> QED
      BY <1>1, <2>1, GroupsRestarted DEF Groups!PassWill
  <1> HIDE DEF done, j
  <1>6. CASE done
    <2>1. x7' = Groups!Restarted /\ x5' = x5
      BY <1>1, <1>6
    <2>TypeOK. Groups!TypeOK'
      BY <1>1, <2>1, GroupsRestarted, GroupsParts DEF Groups!TypeOK
    <2>LinkOK. Groups!LinkOK'
      BY <1>1, GroupsParts DEF Groups!LinkOK, Groups!NoWorker
    <2>JobsOK. Groups!JobsOK'
      BY <1>1, <2>1, GroupsRestarted, GroupsParts DEF Groups!JobsOK
    <2>PassOK. Groups!PassOK'
      BY <1>1, <1>4, <2>1, GroupsParts DEF Groups!PassOK
    <2>9. \A kind, other \in {"group", "ungroup"} : Groups!LastWord(kind, other) => Groups!LastWord(kind, other)'
      BY <1>1, <2>1, GroupsChainStays DEF Groups!LastWord
    <2>AloneOK. Groups!AloneOK'
      <3>1. x1.up /\ Groups!Afresh => Groups!Afresh'
        BY <1>1, <1>5, <1>6, <2>1 DEF Groups!Afresh, Groups!NoWorker
      <3> QED
        BY <1>1, <2>9, <3>1, GroupsParts DEF Groups!AloneOK
    <2>OwnedOK. Groups!OwnedOK'
      BY <1>1, <2>9, GroupsParts DEF Groups!OwnedOK
    <2> QED
      BY <2>TypeOK, <2>LinkOK, <2>JobsOK, <2>PassOK, <2>AloneOK, <2>OwnedOK DEF Groups!GroupsInv
  <1>7. CASE ~ done
    <2>1. x7' = [x7 EXCEPT !.pc = "waits"] /\ x5' = Append(x5, j)
      BY <1>1, <1>7
    <2>2. /\ x7' \in [pc : {"none", "query", "visit", "waits"}, generation : Nat, attached : BOOLEAN]
          /\ x7'.pc = "waits" /\ x7'.generation = x7.generation
      BY <1>2, <2>1
    <2>3. /\ x5' \in Seq(Groups!JobRecord) /\ DOMAIN x5' = DOMAIN x5 \cup {Len(x5) + 1}
          /\ Len(x5) + 1 \notin DOMAIN x5 /\ x5'[Len(x5) + 1] = j
          /\ \A i \in DOMAIN x5 : x5'[i] = x5[i] /\ i \in Nat /\ i < Len(x5) + 1
      BY <1>3, <2>1, GroupsParts, GroupsQueue
    <2>4. ASSUME NEW kind \in {"group", "ungroup"}, NEW other \in {"group", "ungroup"}, Groups!InChain(kind, other)
          PROVE  Groups!InChain(kind, other)'
      <3>1. \A k \in DOMAIN x5' : x5'[k].kind = other => k \in DOMAIN x5 /\ x5'[k] = x5[k]
        BY <1>3, <2>3
      <3>2. CASE \E i \in DOMAIN x5 : Groups!Orders(x5[i], kind) /\ \A k \in DOMAIN x5 : k > i => ~ Groups!Orders(x5[k], other)
        <4>1. PICK i \in DOMAIN x5 : /\ x5[i].kind = kind /\ x5[i].generation = x1.generation
                                     /\ \A k \in DOMAIN x5 : k > i => ~ (x5[k].kind = other /\ x5[k].generation = x1.generation)
          BY <3>2 DEF Groups!Orders
        <4>2. i \in DOMAIN x5' /\ x5'[i] = x5[i]
          BY <2>3
        <4> QED
          BY <1>1, <3>1, <4>1, <4>2 DEF Groups!InChain, Groups!Orders
      <3>3. CASE (\A k \in DOMAIN x5 : ~ Groups!Orders(x5[k], other)) /\ (Groups!Orders(x6, kind) \/ Groups!Shown(kind))
        <4>1. Groups!Shown(kind)' <=> Groups!Shown(kind)
          BY <1>1 DEF Groups!Shown, Groups!Orders
        <4> QED
          BY <1>1, <3>1, <3>3, <4>1 DEF Groups!InChain, Groups!Orders
      <3> QED
        BY <2>4, <3>2, <3>3 DEF Groups!InChain
    <2>5. \A kind, other \in {"group", "ungroup"} : Groups!LastWord(kind, other) => Groups!LastWord(kind, other)'
      BY <1>1, <2>4 DEF Groups!LastWord
    <2>TypeOK. Groups!TypeOK'
      BY <1>1, <2>2, <2>3, GroupsParts DEF Groups!TypeOK
    <2>LinkOK. Groups!LinkOK'
      BY <1>1, GroupsParts DEF Groups!LinkOK, Groups!NoWorker
    <2>JobsOK. Groups!JobsOK'
      BY <1>1, <1>3, <2>2, <2>3, GroupsParts DEF Groups!JobsOK
    <2>PassOK. Groups!PassOK'
      BY <1>1, <1>3, <1>4, <2>2, <2>3, GroupsParts DEF Groups!PassOK
    <2>AloneOK. Groups!AloneOK'
      <3>1. Groups!Afresh => Groups!Afresh'
        BY <1>1, <1>3, <2>2, <2>3 DEF Groups!Afresh, Groups!NoWorker, Groups!PassWill
      <3> QED
        BY <1>1, <2>5, <3>1, GroupsParts DEF Groups!AloneOK
    <2>OwnedOK. Groups!OwnedOK'
      BY <1>1, <2>5, GroupsParts DEF Groups!OwnedOK
    <2> QED
      BY <2>TypeOK, <2>LinkOK, <2>JobsOK, <2>PassOK, <2>AloneOK, <2>OwnedOK DEF Groups!GroupsInv
  <1> QED
    BY <1>6, <1>7

(* A command that ends: what it leaves is its word, and what waits for its answer goes on.      *)
LEMMA GroupsEnds ==
  ASSUME Groups!GroupsInv, Groups!Ends, x1' = x1, x5' = x5, x6.kind # "none",
         x8' \in [debugged : BOOLEAN, group : {"none", "users", "ours", "anonymous"}, event : BOOLEAN, moved : BOOLEAN],
         x8'.debugged = x8.debugged, x8'.event = x8.event,
         x8'.group # "anonymous", x8'.group = "ours" => ~ x8'.moved,
         x1.up /\ (Groups!Orders(x6, "group") \/ Groups!Shown("group")) => x8'.group = "ours" \/ x8'.moved,
         x1.up /\ (Groups!Orders(x6, "ungroup") \/ Groups!Shown("ungroup")) => x8'.group # "ours",
         x1.up /\ x8'.group = "ours" /\ (x6.kind = "reconcile" \/ x6.generation # x1.generation)
           => /\ x8.group = "ours" /\ x6.pc # "finalize"
              /\ x6.kind = "reconcile" => x8.debugged \/ x6.generation # x1.generation
  PROVE  Groups!GroupsInv'
  <1>1. x6' = Groups!Idle /\ x7' = IF x6.answers = "pass" THEN Groups!Restarted ELSE x7
    BY DEF Groups!Ends
  <1>2. x6' \in Groups!JobRecord /\ x6'.kind = "none" /\ x6'.pc = "idle" /\ x6'.generation = 0 /\ x6'.answers = "nobody"
    BY <1>1 DEF Groups!Idle, Groups!JobRecord
  <1>3. x1.generation \in Nat /\ (x1.up => x1.generation # 0)
    BY GroupsLink, GroupsParts DEF Groups!LinkOK
  <1>4. ASSUME NEW kind \in {"group", "ungroup"}, NEW other \in {"group", "ungroup"}, kind # other, x1.up,
               Groups!InChain(kind, other)
        PROVE  Groups!InChain(kind, other)'
    <2>1. CASE \E i \in DOMAIN x5 : Groups!Orders(x5[i], kind) /\ \A k \in DOMAIN x5 : k > i => ~ Groups!Orders(x5[k], other)
      BY <2>1 DEF Groups!InChain, Groups!Orders
    <2>2. CASE (\A k \in DOMAIN x5 : ~ Groups!Orders(x5[k], other)) /\ (Groups!Orders(x6, kind) \/ Groups!Shown(kind))
      <3>1. Groups!Shown(kind)'
        <4>1. CASE kind = "group"
          BY <1>2, <1>4, <2>2, <4>1 DEF Groups!Shown, Groups!Orders
        <4>2. CASE kind = "ungroup"
          BY <1>2, <1>4, <2>2, <4>2 DEF Groups!Shown, Groups!Orders
        <4> QED
          BY <4>1, <4>2
      <3> QED
        BY <2>2, <3>1 DEF Groups!InChain, Groups!Orders
    <2> QED
      BY <1>4, <2>1, <2>2 DEF Groups!InChain
  <1>5. /\ x7' \in [pc : {"none", "query", "visit", "waits"}, generation : Nat, attached : BOOLEAN]
        /\ x7'.generation <= x1.generation
    BY <1>1, GroupsRestarted, GroupsParts DEF Groups!TypeOK, Groups!JobsOK
  <1>JobsOK. Groups!JobsOK'
    BY <1>2, <1>3, <1>5, GroupsParts DEF Groups!JobsOK
  <1>PassOK. Groups!PassOK'
    <2>1. CASE x6.answers = "pass"
      <3>1. \A i \in DOMAIN x5 : x5[i].kind # "reconcile"
        BY <2>1, GroupsParts DEF Groups!PassOK
      <3> QED
        BY <1>2, <3>1, GroupsParts DEF Groups!PassOK
    <2>2. CASE x6.answers # "pass"
      <3>1. x7' = x7
        BY <1>1, <2>2
      <3> QED
        BY <1>2, <3>1, GroupsParts DEF Groups!PassOK
    <2> QED
      BY <2>1, <2>2
  <1>6. CASE x6.answers = "toggle" /\ Groups!Up(x6.generation) /\ x2.detaching
             /\ x2' = [Groups!Detached(x2) EXCEPT !.detaching = FALSE] /\ Groups!Schedule("ungroup")
    <2>1. x2' = [x2 EXCEPT !.attached = FALSE, !.overtaken = FALSE, !.detaching = FALSE] /\ x1.up
      BY <1>6 DEF Groups!Detached, Groups!Up
    <2>2. x2 \in [attached : BOOLEAN, owned : BOOLEAN, detaching : BOOLEAN, overtaken : BOOLEAN]
      BY GroupsParts DEF Groups!TypeOK
    <2>3. x2' \in [attached : BOOLEAN, owned : BOOLEAN, detaching : BOOLEAN, overtaken : BOOLEAN] /\ ~ x2'.attached
      BY <2>1, <2>2
    <2>TypeOK. Groups!TypeOK'
      BY <1>2, <1>5, <1>6, <2>1, <2>3, GroupsSchedule, GroupsParts DEF Groups!TypeOK
    <2>LinkOK. Groups!LinkOK'
      BY <1>3, <2>1, <2>3 DEF Groups!LinkOK
    <2>AloneOK. Groups!AloneOK'
      BY <1>6, <2>1, GroupsSchedule, GroupsParts DEF Groups!AloneOK
    <2>OwnedOK. Groups!OwnedOK'
      BY <2>3 DEF Groups!OwnedOK
    <2> QED
      BY <2>TypeOK, <2>LinkOK, <1>JobsOK, <1>PassOK, <2>AloneOK, <2>OwnedOK DEF Groups!GroupsInv
  <1>7. CASE x6.answers = "worker" /\ Groups!Up(x6.generation) /\ Groups!Continues /\ x2' = x2
    <2>1. x1.up /\ x6.generation = x1.generation /\ x6.kind # "reconcile"
      BY <1>7, GroupsParts DEF Groups!Up, Groups!PassOK
    <2>2. ~ Groups!Afresh
      BY <2>1 DEF Groups!Afresh
    <2>3. \A kind, other \in {"group", "ungroup"} :
            kind # other /\ Groups!LastWord(kind, other) => Groups!LastWord(kind, other)'
      BY <1>4, <1>7, <2>1, GroupsGoesOn, GroupsParts
    <2>TypeOK. Groups!TypeOK'
      BY <1>2, <1>5, <1>7, GroupsContinues, GroupsParts DEF Groups!TypeOK
    <2>LinkOK. Groups!LinkOK'
      BY <1>7, <2>1, GroupsParts DEF Groups!LinkOK
    <2>AloneOK. Groups!AloneOK'
      BY <1>7, <2>2, <2>3, GroupsParts DEF Groups!AloneOK
    <2>OwnedOK. Groups!OwnedOK'
      BY <1>7, <2>1, <2>3, GroupsParts DEF Groups!OwnedOK
    <2> QED
      BY <2>TypeOK, <2>LinkOK, <1>JobsOK, <1>PassOK, <2>AloneOK, <2>OwnedOK DEF Groups!GroupsInv
  <1>8. CASE x2' = x2 /\ x3' = x3 /\ x4' = x4
    <2>1. \A kind, other \in {"group", "ungroup"} :
            kind # other /\ x1.up /\ Groups!LastWord(kind, other) => Groups!LastWord(kind, other)'
      BY <1>4, <1>8 DEF Groups!LastWord
    <2>2. ASSUME x1.up, Groups!Afresh
          PROVE  Groups!Afresh'
      <3>1. x6.kind = "reconcile" \/ x6.generation # x1.generation
        BY <2>2 DEF Groups!Afresh
      <3>2. ASSUME x8'.group = "ours"
            PROVE  x8'.debugged \/ x8'.event \/ Groups!PassWill'
        <4>1. x8.group = "ours" /\ x6.pc # "finalize" /\ (x6.kind = "reconcile" => x8.debugged \/ x6.generation # x1.generation)
          BY <2>2, <3>1, <3>2
        <4>2. x8.debugged \/ x8.event \/ Groups!PassWill
          BY <2>2, <4>1 DEF Groups!Afresh
        <4>3. CASE x6.kind # "reconcile"
          <5>1. x7' = x7
            BY <1>1, <4>3, GroupsParts DEF Groups!PassOK
          <5> QED
            BY <4>2, <5>1 DEF Groups!PassWill
        <4>4. CASE x6.kind = "reconcile" /\ ~ x8.debugged
          <5>1. x7.generation # x1.generation /\ x7' = Groups!Restarted
            BY <1>1, <4>1, <4>4, GroupsParts DEF Groups!PassOK
          <5> QED
            BY <2>2, <5>1, GroupsRestarted DEF Groups!PassWill
        <4> QED
          BY <4>3, <4>4
      <3> QED
        BY <1>2, <1>3, <1>8, <2>2, <3>2 DEF Groups!Afresh, Groups!NoWorker
    <2>TypeOK. Groups!TypeOK'
      BY <1>2, <1>5, <1>8, GroupsParts DEF Groups!TypeOK
    <2>LinkOK. Groups!LinkOK'
      BY <1>8, GroupsParts DEF Groups!LinkOK, Groups!NoWorker
    <2>AloneOK. Groups!AloneOK'
      BY <1>8, <2>1, <2>2, GroupsParts DEF Groups!AloneOK
    <2>OwnedOK. Groups!OwnedOK'
      BY <1>8, <2>1, GroupsParts DEF Groups!OwnedOK, Groups!LinkOK
    <2> QED
      BY <2>TypeOK, <2>LinkOK, <1>JobsOK, <1>PassOK, <2>AloneOK, <2>OwnedOK DEF Groups!GroupsInv
  <1> QED
    BY <1>6, <1>7, <1>8 DEF Groups!Ends

(* A command that goes on to its next call.                                        *)
LEMMA GroupsAdvance ==
  ASSUME Groups!GroupsInv, x1' = x1, x2' = x2, x3' = x3, x4' = x4, x5' = x5, x7' = x7,
         NEW pc \in {"mutate", "finalize"}, x6' = [x6 EXCEPT !.pc = pc], x6.pc \notin {"idle", "finalize"},
         pc = "finalize" => x6.kind = "group",
         x8' \in [debugged : BOOLEAN, group : {"none", "users", "ours", "anonymous"}, event : BOOLEAN, moved : BOOLEAN],
         x8'.debugged = x8.debugged, x8'.event = x8.event,
         x8'.group = "anonymous" => pc = "finalize", x8'.group \in {"ours", "anonymous"} => ~ x8'.moved,
         ~ Groups!Stale(x6.generation),
         x6.kind \in {"group", "ungroup"} \/ x8' = x8,
         Groups!Shown("ungroup") => Groups!Shown("ungroup")' \/ Groups!Orders(x6, "ungroup"),
         x8.debugged /\ Groups!Shown("group") => Groups!Shown("group")' \/ Groups!Orders(x6, "group")
  PROVE  Groups!GroupsInv'
  <1>1. x6 \in Groups!JobRecord
    BY GroupsParts
  <1>2. x6' \in Groups!JobRecord /\ x6'.kind = x6.kind /\ x6'.generation = x6.generation /\ x6'.answers = x6.answers
        /\ x6'.pc = pc
    BY <1>1 DEF Groups!JobRecord
  <1>3. x1.up /\ x6.generation = x1.generation
    BY DEF Groups!Stale, Groups!Up
  <1>4. ASSUME NEW kind \in {"group", "ungroup"}, NEW other \in {"group", "ungroup"}, kind # other,
               Groups!InChain(kind, other), Groups!Shown(kind) => Groups!Shown(kind)' \/ Groups!Orders(x6, kind)
        PROVE  Groups!InChain(kind, other)'
    BY <1>2, <1>4 DEF Groups!InChain, Groups!Orders
  <1>TypeOK. Groups!TypeOK'
    BY <1>2, GroupsParts DEF Groups!TypeOK
  <1>LinkOK. Groups!LinkOK'
    BY GroupsParts DEF Groups!LinkOK, Groups!NoWorker
  <1>JobsOK. Groups!JobsOK'
    BY <1>2, GroupsParts DEF Groups!JobsOK
  <1>PassOK. Groups!PassOK'
    BY <1>2, GroupsParts DEF Groups!PassOK
  <1>AloneOK. Groups!AloneOK'
    <2>1. Groups!LastWord("ungroup", "group") => Groups!LastWord("ungroup", "group")'
      BY <1>4 DEF Groups!LastWord
    <2>2. Groups!Afresh => Groups!Afresh'
      <3> SUFFICES ASSUME Groups!Afresh PROVE Groups!Afresh'
        OBVIOUS
      <3>1. x6.kind = "reconcile" /\ x8' = x8
        BY <1>3 DEF Groups!Afresh
      <3> QED
        BY <1>2, <3>1 DEF Groups!Afresh, Groups!NoWorker, Groups!PassWill
    <2> QED
      BY <2>1, <2>2, GroupsParts DEF Groups!AloneOK
  <1>OwnedOK. Groups!OwnedOK'
    <2>1. x8.debugged /\ Groups!LastWord("group", "ungroup") => Groups!LastWord("group", "ungroup")'
      BY <1>4 DEF Groups!LastWord
    <2> QED
      BY <2>1, GroupsParts DEF Groups!OwnedOK
  <1> QED
    BY <1>TypeOK, <1>LinkOK, <1>JobsOK, <1>PassOK, <1>AloneOK, <1>OwnedOK DEF Groups!GroupsInv

(* What moving the tab to a group does.                                              *)
LEMMA GroupsMoves ==
  ASSUME Groups!TypeOK, NEW group \in {"none", "users", "ours", "anonymous"}, Groups!Moves(group)
  PROVE  /\ x8' \in [debugged : BOOLEAN, group : {"none", "users", "ours", "anonymous"}, event : BOOLEAN, moved : BOOLEAN]
         /\ x8'.debugged = x8.debugged /\ x8'.event = x8.event /\ x8'.group = group /\ ~ x8'.moved
  <1>1. x8 \in [debugged : BOOLEAN, group : {"none", "users", "ours", "anonymous"}, event : BOOLEAN, moved : BOOLEAN]
    BY DEF Groups!TypeOK
  <1>2. x8' = [x8 EXCEPT !.group = group, !.moved = FALSE]
    BY DEF Groups!Moves
  <1> QED
    BY <1>1, <1>2

(* A grouping command.                                                          *)
LEMMA GroupsGroup ==
  ASSUME Groups!GroupsInv, Groups!Group
  PROVE  Groups!GroupsInv'
  <1>1. x6.kind = "group" /\ x6.pc \in {"get", "mutate", "finalize"} /\ x1' = x1 /\ x5' = x5
    BY DEF Groups!Group
  <1>2. x8 \in [debugged : BOOLEAN, group : {"none", "users", "ours", "anonymous"}, event : BOOLEAN, moved : BOOLEAN]
    BY GroupsParts DEF Groups!TypeOK
  <1>3. /\ x8.group = "anonymous" => x6.pc = "finalize"
        /\ x8.group \in {"ours", "anonymous"} => ~ x8.moved
    BY GroupsParts DEF Groups!JobsOK
  <1>4. Groups!Stale(x6.generation) /\ x1.up => x6.generation # x1.generation
    BY DEF Groups!Stale, Groups!Up
  <1>5. ~ Groups!Stale(x6.generation) => x1.up /\ x6.generation = x1.generation
    BY DEF Groups!Stale, Groups!Up
  <1>6. CASE x6.pc = "get"
    <2>1. x8' = x8
      BY <1>6 DEF Groups!Group
    <2>2. CASE x8.group = "ours" \/ Groups!Stale(x6.generation)
      <3>1. Groups!Ends
        BY <1>6, <2>2 DEF Groups!Group
      <3>2. x1.up /\ (Groups!Orders(x6, "group") \/ Groups!Shown("group")) => x8'.group = "ours" \/ x8'.moved
        BY <1>4, <2>1, <2>2 DEF Groups!Orders, Groups!Shown
      <3>3. x1.up /\ (Groups!Orders(x6, "ungroup") \/ Groups!Shown("ungroup")) => x8'.group # "ours"
        BY <1>1, <1>4, <1>6, <2>1, <2>2 DEF Groups!Orders, Groups!Shown
      <3> QED
        BY <1>1, <1>2, <1>3, <1>6, <2>1, <3>1, <3>2, <3>3, GroupsEnds
    <2>3. CASE ~ (x8.group = "ours" \/ Groups!Stale(x6.generation))
      <3>1. x6' = [x6 EXCEPT !.pc = "mutate"] /\ x2' = x2 /\ x3' = x3 /\ x4' = x4 /\ x7' = x7
        BY <1>6, <2>3 DEF Groups!Group
      <3>2. Groups!Shown("ungroup") => Groups!Shown("ungroup")' \/ Groups!Orders(x6, "ungroup")
        BY <1>1, <1>5, <2>3 DEF Groups!Shown, Groups!Orders
      <3>3. x6'.kind = "group" /\ x6'.pc = "mutate"
        BY <1>1, <3>1, GroupsParts DEF Groups!JobRecord
      <3>4. Groups!Shown("group") => Groups!Shown("group")' \/ Groups!Orders(x6, "group")
        BY <1>1, <1>5, <2>3 DEF Groups!Orders
      <3> QED
        BY <1>1, <1>2, <1>3, <1>6, <2>1, <2>3, <3>1, <3>2, <3>4, GroupsAdvance
    <2> QED
      BY <2>2, <2>3
  <1>7. CASE x6.pc = "mutate"
    <2>1. CASE Groups!Stale(x6.generation)
      <3>1. Groups!Ends /\ x8' = x8
        BY <1>7, <2>1 DEF Groups!Group
      <3>2. x1.up /\ (Groups!Orders(x6, "group") \/ Groups!Shown("group")) => x8'.group = "ours" \/ x8'.moved
        BY <1>4, <2>1, <3>1 DEF Groups!Orders, Groups!Shown
      <3>3. x1.up /\ (Groups!Orders(x6, "ungroup") \/ Groups!Shown("ungroup")) => x8'.group # "ours"
        BY <1>1, <1>4, <1>7, <2>1, <3>1 DEF Groups!Orders, Groups!Shown
      <3> QED
        BY <1>1, <1>2, <1>3, <1>7, <3>1, <3>2, <3>3, GroupsEnds
    <2>2. CASE ~ Groups!Stale(x6.generation)
      <3>1. /\ x6' = [x6 EXCEPT !.pc = "finalize"] /\ x2' = x2 /\ x3' = x3 /\ x4' = x4 /\ x7' = x7
            /\ \E group \in {"ours", "anonymous"} : Groups!Moves(group)
        BY <1>7, <2>2 DEF Groups!Group
      <3>2. /\ x8' \in [debugged : BOOLEAN, group : {"none", "users", "ours", "anonymous"}, event : BOOLEAN, moved : BOOLEAN]
            /\ x8'.debugged = x8.debugged /\ x8'.event = x8.event /\ x8'.group \in {"ours", "anonymous"} /\ ~ x8'.moved
        BY <3>1, GroupsMoves, GroupsParts
      <3>3. ~ Groups!Shown("ungroup") /\ Groups!Orders(x6, "group")
        BY <1>1, <1>5, <2>2 DEF Groups!Shown, Groups!Orders
      <3> QED
        BY <1>1, <1>7, <2>2, <3>1, <3>2, <3>3, GroupsAdvance
    <2> QED
      BY <2>1, <2>2
  <1>8. CASE x6.pc = "finalize"
    <2>1. Groups!Ends
      BY <1>8 DEF Groups!Group
    <2>2. CASE x8.moved
      <3>1. x8' = x8 /\ x8.group # "ours" /\ x8.group # "anonymous"
        BY <1>3, <1>8, <2>2 DEF Groups!Group
      <3> QED
        BY <1>1, <1>2, <2>1, <2>2, <3>1, GroupsEnds
    <2>3. CASE ~ x8.moved /\ Groups!Stale(x6.generation)
      <3>1. Groups!Moves("none")
        BY <1>8, <2>3 DEF Groups!Group
      <3>2. ~ (x1.up /\ (Groups!Orders(x6, "group") \/ Groups!Shown("group")))
        BY <1>4, <1>8, <2>3 DEF Groups!Orders, Groups!Shown
      <3> QED
        BY <1>1, <2>1, <3>1, <3>2, GroupsMoves, GroupsParts, GroupsEnds
    <2>4. CASE ~ x8.moved /\ ~ Groups!Stale(x6.generation)
      <3>1. Groups!Moves("ours")
        BY <1>8, <2>4 DEF Groups!Group
      <3>2. ~ (Groups!Orders(x6, "ungroup") \/ Groups!Shown("ungroup"))
        BY <1>1, <1>5, <1>8, <2>4 DEF Groups!Orders, Groups!Shown
      <3> QED
        BY <1>1, <1>5, <2>1, <2>4, <3>1, <3>2, GroupsMoves, GroupsParts, GroupsEnds
    <2> QED
      BY <2>2, <2>3, <2>4
  <1> QED
    BY <1>1, <1>6, <1>7, <1>8

(* A command that takes the tab out of the group, of the relay or of the pass.               *)
LEMMA GroupsUngroup ==
  ASSUME Groups!GroupsInv, Groups!Ungroup
  PROVE  Groups!GroupsInv'
  <1>1. x6.kind \in {"ungroup", "reconcile"} /\ x6.pc \in {"get", "mutate"} /\ x1' = x1 /\ x5' = x5
    BY DEF Groups!Ungroup
  <1>2. x8 \in [debugged : BOOLEAN, group : {"none", "users", "ours", "anonymous"}, event : BOOLEAN, moved : BOOLEAN]
    BY GroupsParts DEF Groups!TypeOK
  <1>3. x8.group # "anonymous" /\ (x8.group = "ours" => ~ x8.moved)
    BY <1>1, GroupsParts DEF Groups!JobsOK
  <1>4. Groups!Stale(x6.generation) /\ x1.up => x6.generation # x1.generation
    BY DEF Groups!Stale, Groups!Up
  <1>5. ~ Groups!Stale(x6.generation) => x1.up /\ x6.generation = x1.generation
    BY DEF Groups!Stale, Groups!Up
  <1>6. CASE x6.pc = "get"
    <2>1. x8' = x8
      BY <1>6 DEF Groups!Ungroup
    <2>2. CASE Groups!Stale(x6.generation) \/ x8.group # "ours" \/ (x6.kind = "reconcile" /\ x8.debugged)
      <3>1. Groups!Ends
        BY <1>6, <2>2 DEF Groups!Ungroup
      <3>2. x1.up /\ (Groups!Orders(x6, "group") \/ Groups!Shown("group")) => x8'.group = "ours" \/ x8'.moved
        BY <1>1, <2>1 DEF Groups!Orders, Groups!Shown
      <3>3. x1.up /\ (Groups!Orders(x6, "ungroup") \/ Groups!Shown("ungroup")) => x8'.group # "ours"
        BY <1>4, <1>6, <2>1, <2>2 DEF Groups!Orders, Groups!Shown
      <3>4. x1.up /\ x6.kind = "reconcile" /\ x8.group = "ours" => x8.debugged \/ x6.generation # x1.generation
        BY <1>4, <2>2
      <3> QED
        BY <1>1, <1>2, <1>3, <1>6, <2>1, <3>1, <3>2, <3>3, <3>4, GroupsEnds
    <2>3. CASE ~ (Groups!Stale(x6.generation) \/ x8.group # "ours" \/ (x6.kind = "reconcile" /\ x8.debugged))
      <3>1. x6' = [x6 EXCEPT !.pc = "mutate"] /\ x2' = x2 /\ x3' = x3 /\ x4' = x4 /\ x7' = x7
        BY <1>6, <2>3 DEF Groups!Ungroup
      <3>2. ~ Groups!Shown("ungroup")
        BY <1>6, <2>3 DEF Groups!Shown
      <3>3. x8.debugged => ~ Groups!Shown("group")
        BY <1>1, <1>5, <2>3 DEF Groups!Orders, Groups!Shown
      <3> QED
        BY <1>1, <1>2, <1>3, <1>6, <2>1, <2>3, <3>1, <3>2, <3>3, GroupsAdvance
    <2> QED
      BY <2>2, <2>3
  <1>7. CASE x6.pc = "mutate"
    <2>1. Groups!Ends
      BY <1>7 DEF Groups!Ungroup
    <2>2. CASE Groups!Stale(x6.generation)
      <3>1. x8' = x8
        BY <1>7, <2>2 DEF Groups!Ungroup
      <3>2. x1.up /\ (Groups!Orders(x6, "group") \/ Groups!Shown("group")) => x8'.group = "ours" \/ x8'.moved
        BY <1>1, <3>1 DEF Groups!Orders, Groups!Shown
      <3>3. x1.up /\ (Groups!Orders(x6, "ungroup") \/ Groups!Shown("ungroup")) => x8'.group # "ours"
        BY <1>4, <1>7, <2>2, <3>1 DEF Groups!Orders, Groups!Shown
      <3>4. x1.up /\ x6.kind = "reconcile" /\ x8.group = "ours" => x8.debugged \/ x6.generation # x1.generation
        BY <1>4, <2>2
      <3> QED
        BY <1>1, <1>2, <1>3, <1>7, <2>1, <3>1, <3>2, <3>3, <3>4, GroupsEnds
    <2>3. CASE ~ Groups!Stale(x6.generation)
      <3>1. Groups!Moves("none")
        BY <1>7, <2>3 DEF Groups!Ungroup
      <3>2. ~ (Groups!Orders(x6, "group") \/ Groups!Shown("group"))
        BY <1>1, <1>5, <1>7, <2>3 DEF Groups!Orders, Groups!Shown
      <3> QED
        BY <1>1, <2>1, <3>1, <3>2, GroupsMoves, GroupsParts, GroupsEnds
    <2> QED
      BY <2>2, <2>3
  <1> QED
    BY <1>1, <1>6, <1>7

-----------------------------------------------------------------------------
(* Every step.                                                              *)
LEMMA GroupsNext == Groups!GroupsInv /\ Groups!Next => Groups!GroupsInv'
  <1> SUFFICES ASSUME Groups!GroupsInv, Groups!Next PROVE Groups!GroupsInv'
    OBVIOUS
  <1>1. CASE Groups!GiveUp \/ Groups!Detach \/ Groups!DetachGivesUp \/ Groups!DetachEvent
    BY <1>1, GroupsGiveUp, GroupsDetach, GroupsDetachGivesUp, GroupsDetachEvent
  <1>2. CASE Groups!Attach(TRUE) \/ Groups!Attach(FALSE) \/ Groups!ChangeOwner
    BY <1>2, GroupsAttach, GroupsChangeOwner
  <1>3. CASE Groups!Disconnect \/ Groups!Connect \/ Groups!Ready
    BY <1>3, GroupsDisconnect, GroupsConnect, GroupsReady
  <1>4. CASE Groups!HandleCommand \/ Groups!Start \/ Groups!Group \/ Groups!Ungroup
    BY <1>4, GroupsHandleCommand, GroupsStart, GroupsGroup, GroupsUngroup
  <1>5. CASE Groups!Query \/ Groups!Visit \/ Groups!MoveTab \/ Groups!DismissDebugger
    BY <1>5, GroupsQuery, GroupsVisit, GroupsMoveTab, GroupsDismissDebugger
  <1> QED
    BY <1>1, <1>2, <1>3, <1>4, <1>5 DEF Groups!Next

-----------------------------------------------------------------------------
(* The groups among the other parts.                                          *)

(* A behaviour of the groups starts and goes on as TabGroups does.                *)
LEMMA GroupsOfHelpers ==
  /\ AllInit /\ Is("groups") => Groups!Init
  /\ AllNext /\ Is("groups") => Groups!Next
  BY DEF AllInit, AllNext, Is, PageMoves, ToolsMove, RequestsMove, GroupsMove, AgentsMove, IssuesMove, LinkMoves,
         ProfilesMove, CurrentMoves, StoredMoves

(* The invariant of Groups holds in every behaviour of it.                        *)
LEMMA GroupsAlways == AllSpec => [](Is("groups") => Groups!GroupsInv)
  <1>1. AllInit => (Is("groups") => Groups!GroupsInv)
    BY GroupsOfHelpers, GroupsInitially
  <1>2. (Is("groups") => Groups!GroupsInv) /\ [AllNext]_<<part, x>> => (Is("groups") => Groups!GroupsInv)'
    <2> SUFFICES ASSUME Is("groups") => Groups!GroupsInv, [AllNext]_<<part, x>>, Is("groups")'
                 PROVE  Groups!GroupsInv'
      OBVIOUS
    <2>1. CASE AllNext
      <3>1. Is("groups")
        BY <2>1, PartStays DEF Is
      <3> QED
        BY <2>1, <3>1, GroupsOfHelpers, GroupsNext
    <2>2. CASE UNCHANGED <<part, x>>
      <3>1. /\ Is("groups") /\ x1' = x1 /\ x2' = x2 /\ x3' = x3 /\ x4' = x4 /\ x5' = x5 /\ x6' = x6
            /\ x7' = x7 /\ x8' = x8
        BY <2>2 DEF Is, x
      <3> QED
        BY <3>1, GroupsSame
    <2> QED
      BY <2>1, <2>2
  <1> QED
    BY <1>1, <1>2, PTL DEF AllSpec

(* When nothing is under way on a settled connection, a tab that nobody attaches is in no group that       *)
(* BrowserRig made, and a tab that a session owns is in the group unless its user moved it or an older       *)
(* intent was waiting when active-tab attachment sent its own.                                      *)
THEOREM GroupsFollowOwners == AllSpec => []GroupFollowsOwnership
  <1>1. (Is("groups") => Groups!GroupsInv) => GroupFollowsOwnership
    BY GroupsFollow DEF GroupFollowsOwnership
  <1> QED
    BY <1>1, GroupsAlways, PTL

=============================================================================
