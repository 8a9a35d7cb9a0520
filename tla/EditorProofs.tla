----------------------------- MODULE EditorProofs -----------------------------
(***************************************************************************)
(* Proofs about the editors in the composition: what a draft, a copy or a     *)
(* request carries is keyed, and pictures are excused by what the list of the *)
(* materials is known to hold.                                              *)
(***************************************************************************)
EXTENDS ScreensProofs

(***************************************************************************)
(* Options and drafts.                                                     *)
(***************************************************************************)
Most == Limit[FALSE] + Limit[TRUE]

LEMMA LimitFacts ==
  /\ \A narrow \in BOOLEAN : Limit[narrow] \in Nat /\ Limit[narrow] <= Most
  /\ Most \in Nat /\ Most >= 4
  <1> DEFINE no == FALSE
             yes == TRUE
             Low == Nat \ {0, 1}
  <1>1. Limit \in [BOOLEAN -> Low] /\ no \in BOOLEAN /\ yes \in BOOLEAN
    BY EditorBounds
  <1>2. \A n \in Low : n \in Nat /\ n >= 2
    OBVIOUS
  <1>3. Most = Limit[no] + Limit[yes] /\ \A n \in BOOLEAN : n = no \/ n = yes
    BY DEF Most
  <1> HIDE DEF Low, no, yes
  <1>4. \A n \in BOOLEAN : Limit[n] \in Nat /\ Limit[n] >= 2
    BY <1>1, <1>2
  <1> QED BY <1>1, <1>3, <1>4

LEMMA OptionFacts ==
  /\ \A o \in Options : /\ o \in Seq(BOOLEAN) /\ Len(o) \in 2..Most
                        /\ DOMAIN o = 1..Len(o) /\ \A i \in DOMAIN o : o[i] \in BOOLEAN
  /\ \A n \in 2..Most : [1..n -> BOOLEAN] \subseteq Options
  <1>2. ASSUME NEW o \in Options
        PROVE  /\ o \in Seq(BOOLEAN) /\ Len(o) \in 2..Most
               /\ DOMAIN o = 1..Len(o) /\ \A i \in DOMAIN o : o[i] \in BOOLEAN
    <2>1. PICK n \in 2..Most : o \in [1..n -> BOOLEAN]
      BY DEF Options, Most
    <2>2. n \in Nat
      BY LimitFacts
    <2>3. o \in Seq(BOOLEAN) /\ Len(o) = n
      BY <2>1, <2>2
    <2> QED BY <2>1, <2>3
  <1>3. \A n \in 2..Most : [1..n -> BOOLEAN] \subseteq Options
    BY DEF Options, Most
  <1> QED BY <1>2, <1>3

LEMMA BlankFacts ==
  /\ Blank \in Question /\ Blank.pic = "none" /\ Sure(Blank.options)
  <1> DEFINE yes == TRUE
             no == FALSE
             two == <<yes, no>>
             none == "none"
             b == [options |-> two, pic |-> none]
  <1>0. yes \in BOOLEAN /\ no \in BOOLEAN /\ yes /\ ~no
    OBVIOUS
  <1> HIDE DEF yes, no
  <1>1. /\ two \in Seq(BOOLEAN) /\ Len(two) = 2 /\ DOMAIN two = 1..2
        /\ two[1] = yes /\ two[2] = no
    BY <1>0
  <1>2. 2 \in 2..Most
    BY LimitFacts
  <1>3. two \in Options
    <2>1. two \in [1..2 -> BOOLEAN]
      BY <1>1
    <2> QED BY <1>2, <2>1, OptionFacts
  <1>4. Sure(two)
    <2>1. 1 \in DOMAIN two /\ \A i \in DOMAIN two : i = 1 \/ i = 2
      BY ONLY <1>1
    <2> HIDE DEF two
    <2>2. two[1] /\ ~two[2]
      BY ONLY <1>0, <1>1, Zenon
    <2> QED BY <2>1, <2>2 DEF Sure, OneKey
  <1>5. Blank = b /\ none \in {"none", "linked", "raw", "text"}
    BY DEF Blank, yes, no
  <1> HIDE DEF two, none
  <1>6. b \in Question /\ b.options = two /\ b.pic = none
    BY <1>3, <1>5 DEF Question
  <1> QED BY <1>4, <1>5, <1>6 DEF none

LEMMA SureFor == ASSUME NEW q, NEW o, Sure(o) PROVE KeyFor(q, o)
  BY DEF Sure, KeyFor

LEMMA MarkedKeys ==
  ASSUME NEW o \in Options, NEW i \in DOMAIN o
  PROVE  Marked(o, i) \in Options /\ Sure(Marked(o, i))
  <1>1. PICK n \in 2..Most : o \in [1..n -> BOOLEAN]
    BY DEF Options, Most
  <1>2. Marked(o, i) = [j \in 1..n |-> j = i]
    BY <1>1 DEF Marked
  <1>3. Marked(o, i) \in [1..n -> BOOLEAN]
    BY <1>2
  <1>4. Sure(Marked(o, i))
    BY <1>1, <1>2 DEF Sure, OneKey
  <1> QED BY <1>3, <1>4, OptionFacts

LEMMA RekeyedKeys ==
  ASSUME NEW o \in Options, OneKey(o)
  PROVE  Rekeyed(o) \in Options /\ Sure(Rekeyed(o)) /\ (Keyed(o) # {} => Rekeyed(o) = o)
  <1>1. CASE Keyed(o) # {}
    BY <1>1 DEF Rekeyed, Sure, Keyed
  <1>2. CASE Keyed(o) = {}
    <2> DEFINE yes == TRUE
               p == [o EXCEPT ![1] = yes]
    <2>1. PICK n \in 2..Most : o \in [1..n -> BOOLEAN]
      BY DEF Options, Most
    <2>2. 1 \in 1..n
      BY LimitFacts
    <2>3. yes \in BOOLEAN /\ yes
      OBVIOUS
    <2>4. Rekeyed(o) = p
      BY <1>2 DEF Rekeyed
    <2> HIDE DEF yes
    <2>5. p \in [1..n -> BOOLEAN] /\ p[1] = yes /\ \A i \in 1..n : i # 1 => p[i] = o[i]
      BY <2>1, <2>2, <2>3
    <2>6. \A i \in 1..n : ~o[i]
      BY <1>2, <2>1 DEF Keyed
    <2>7. Sure(p)
      BY <2>1, <2>2, <2>3, <2>5, <2>6 DEF Sure, OneKey
    <2> QED BY <1>2, <2>4, <2>5, <2>7, OptionFacts
  <1> QED BY <1>1, <1>2

\* What is left when an option goes.
LEMMA Remains ==
  ASSUME NEW o \in Options, Len(o) > 2, NEW i \in DOMAIN o, OneKey(o)
  PROVE  LET r == Seqs!RemoveAt(o, i) IN
         /\ r \in Options /\ OneKey(r)
         /\ ~o[i] /\ (\E j \in DOMAIN o : o[j]) => \E j \in DOMAIN r : r[j]
  <1> DEFINE r == Seqs!RemoveAt(o, i)
             n == Len(o)
  <1>1. /\ o \in Seq(BOOLEAN) /\ n \in 3..Most /\ DOMAIN o = 1..n
        /\ i \in 1..n
    <2>1. /\ o \in Seq(BOOLEAN) /\ n \in 2..Most /\ DOMAIN o = 1..n
          /\ Most \in Nat
      BY LimitFacts, OptionFacts
    <2> HIDE DEF n
    <2>2. n > 2
      BY DEF n
    <2> QED BY <2>1, <2>2
  <1>2. r = SubSeq(o, 1, i - 1) \o SubSeq(o, i + 1, n)
    BY DEF Seqs!RemoveAt
  <1>3. /\ r \in Seq(BOOLEAN) /\ Len(r) = n - 1
        /\ \A j \in 1..(n - 1) : r[j] = IF j < i THEN o[j] ELSE o[j + 1]
    <2>1. n \in Nat /\ n > 2
      BY <1>1, LimitFacts
    <2> HIDE DEF n
    <2> DEFINE front == SubSeq(o, 1, i - 1)
               back == SubSeq(o, i + 1, n)
    <2>2. /\ front \in Seq(BOOLEAN) /\ Len(front) = i - 1
          /\ \A j \in 1..(i - 1) : front[j] = o[j]
      BY <1>1, <2>1 DEF n
    <2>3. /\ back \in Seq(BOOLEAN) /\ Len(back) = n - i
          /\ \A j \in 1..(n - i) : back[j] = o[i + j]
      BY <1>1, <2>1 DEF n
    <2> HIDE DEF front, back
    <2>4. r = front \o back
      BY <1>2 DEF front, back
    <2> HIDE DEF r
    <2>5. r \in Seq(BOOLEAN) /\ Len(r) = n - 1
      BY <1>1, <2>1, <2>2, <2>3, <2>4
    <2>6. ASSUME NEW j \in 1..(n - 1) PROVE r[j] = IF j < i THEN o[j] ELSE o[j + 1]
      <3>1. CASE j < i
        BY <1>1, <2>1, <2>2, <2>3, <2>4, <3>1
      <3>2. CASE ~(j < i)
        <4>1. j - (i - 1) \in 1..(n - i) /\ i + (j - (i - 1)) = j + 1
          BY <1>1, <2>1, <3>2
        <4>2. r[j] = back[j - (i - 1)]
          BY <1>1, <2>1, <2>2, <2>3, <2>4, <3>2
        <4> QED BY <2>3, <3>2, <4>1, <4>2
      <3> QED BY <3>1, <3>2
    <2> QED BY <2>5, <2>6
  <1> HIDE DEF r, n
  <1>4. r \in [1..(n - 1) -> BOOLEAN] /\ n - 1 \in 2..Most /\ n \in Nat
    BY <1>1, <1>3, LimitFacts
  <1>5. r \in Options
    BY <1>4, OptionFacts
  <1>6. OneKey(r)
    <2> SUFFICES ASSUME NEW j \in 1..(n - 1), NEW k \in 1..(n - 1), r[j], r[k] PROVE j = k
      BY <1>4 DEF OneKey
    <2> DEFINE J == IF j < i THEN j ELSE j + 1
               K == IF k < i THEN k ELSE k + 1
    <2>1. J \in 1..n /\ K \in 1..n /\ o[J] /\ o[K]
      BY <1>1, <1>3, <1>4
    <2>2. J = K
      BY <1>1, <2>1 DEF OneKey
    <2> QED BY <1>1, <1>4, <2>2
  <1>7. ASSUME ~o[i], NEW j \in 1..n, o[j] PROVE \E k \in 1..(n - 1) : r[k]
    <2>1. CASE j < i
      BY <1>1, <1>3, <1>4, <1>7, <2>1
    <2>2. CASE j > i
      <3>1. j - 1 \in 1..(n - 1) /\ ~(j - 1 < i) /\ (j - 1) + 1 = j
        BY <1>1, <1>4, <1>7, <2>2
      <3> QED BY <1>3, <1>7, <3>1
    <2> QED BY <1>1, <1>7, <2>1, <2>2
  <1> QED BY <1>1, <1>4, <1>5, <1>6, <1>7 DEF r

LEMMA Appended ==
  ASSUME NEW o \in Options, NEW no \in BOOLEAN, ~no, OneKey(o), Len(o) < Most
  PROVE  LET p == Append(o, no) IN
         p \in Options /\ OneKey(p) /\ ((\E i \in DOMAIN o : o[i]) => \E i \in DOMAIN p : p[i])
  <1> DEFINE p == Append(o, no)
             n == Len(o)
  <1>1. o \in Seq(BOOLEAN) /\ n \in 2..Most /\ DOMAIN o = 1..n /\ Most \in Nat
    BY OptionFacts, LimitFacts
  <1>2. p \in Seq(BOOLEAN) /\ Len(p) = n + 1 /\ p[n + 1] = no /\ \A i \in 1..n : p[i] = o[i]
    BY <1>1
  <1> HIDE DEF p
  <1>3. n + 1 \in 2..Most /\ p \in [1..(n + 1) -> BOOLEAN]
    BY <1>1, <1>2
  <1> HIDE DEF n
  <1>4. p \in Options
    BY <1>3, OptionFacts
  <1>5. DOMAIN p = 1..(n + 1) /\ \A i \in DOMAIN p : i \in 1..n \/ i = n + 1
    BY <1>1, <1>3
  <1>6. \A i \in DOMAIN p : p[i] => i \in 1..n /\ o[i]
    BY <1>2, <1>5
  <1>7. OneKey(p)
    BY <1>1, <1>6 DEF OneKey
  <1>8. ASSUME NEW i \in DOMAIN o, o[i] PROVE \E j \in DOMAIN p : p[j]
    <2>1. i \in DOMAIN p /\ p[i]
      BY <1>1, <1>2, <1>5, <1>8
    <2> QED BY <2>1
  <1> QED BY <1>4, <1>7, <1>8 DEF p

LEMMA RemovedKeys ==
  ASSUME NEW o \in Options, Len(o) > 2, NEW i \in DOMAIN o, OneKey(o), NEW narrow \in BOOLEAN
  PROVE  /\ Removed(o, i, narrow) \in Options /\ OneKey(Removed(o, i, narrow))
         /\ (\E j \in DOMAIN o : o[j]) => Sure(Removed(o, i, narrow))
  <1> DEFINE r == Seqs!RemoveAt(o, i)
  <1>1. r \in Options /\ OneKey(r) /\ (~o[i] /\ (\E j \in DOMAIN o : o[j]) => \E j \in DOMAIN r : r[j])
    BY Remains
  <1> HIDE DEF r
  <1>2. Rekeyed(r) \in Options /\ Sure(Rekeyed(r))
    BY <1>1, RekeyedKeys
  <1>3. CASE ~narrow \/ o[i]
    BY <1>2, <1>3 DEF Removed, Sure, r
  <1>4. CASE ~(~narrow \/ o[i])
    BY <1>1, <1>4 DEF Removed, Sure, r
  <1> QED BY <1>3, <1>4

LEMMA DraftFields ==
  ASSUME NEW d \in Drafts, NEW o \in Options
  PROVE  LET c == [d EXCEPT !.options = o] IN
         c \in Drafts /\ c.options = o /\ c.token = d.token /\ c.proposal = d.proposal
  BY DEF Drafts

LEMMA EditsKeyed ==
  ASSUME NEW d \in Drafts, NEW narrow \in BOOLEAN, OneKey(d.options), NEW c \in Edits(d, narrow)
  PROVE  /\ c \in Drafts /\ c.token = d.token /\ c.proposal = d.proposal
         /\ OneKey(c.options)
         /\ (\E i \in DOMAIN d.options : d.options[i]) => Sure(c.options)
  <1> DEFINE o == d.options
             no == FALSE
  <1>0. o \in Options /\ no \in BOOLEAN /\ ~no
    BY DEF Drafts
  <1> HIDE DEF no
  <1>1. \/ \E i \in DOMAIN o : c = [d EXCEPT !.options = Marked(o, i)]
        \/ Len(o) > 2 /\ \E i \in DOMAIN o : c = [d EXCEPT !.options = Removed(o, i, narrow)]
        \/ Len(o) < Limit[narrow] /\ c = [d EXCEPT !.options = Append(o, no)]
    BY DEF Edits, no
  <1> HIDE DEF o
  <1>2. ASSUME NEW i \in DOMAIN o, c = [d EXCEPT !.options = Marked(o, i)] PROVE OneKey(o) => Sure(c.options) /\ c \in Drafts /\ c.token = d.token /\ c.proposal = d.proposal
    BY <1>0, <1>2, MarkedKeys, DraftFields
  <1>3. ASSUME Len(o) > 2, NEW i \in DOMAIN o, c = [d EXCEPT !.options = Removed(o, i, narrow)], OneKey(o)
        PROVE  /\ c \in Drafts /\ c.token = d.token /\ c.proposal = d.proposal /\ OneKey(c.options)
               /\ (\E j \in DOMAIN o : o[j]) => Sure(c.options)
    BY <1>0, <1>3, RemovedKeys, DraftFields
  <1>4. ASSUME Len(o) < Limit[narrow], c = [d EXCEPT !.options = Append(o, no)], OneKey(o)
        PROVE  /\ c \in Drafts /\ c.token = d.token /\ c.proposal = d.proposal /\ OneKey(c.options)
               /\ (\E j \in DOMAIN o : o[j]) => Sure(c.options)
    <2>1. Len(o) < Most
      BY <1>0, <1>4, LimitFacts, OptionFacts
    <2> DEFINE p == Append(o, no)
    <2>2. p \in Options /\ OneKey(p) /\ ((\E i \in DOMAIN o : o[i]) => \E i \in DOMAIN p : p[i])
      BY <1>0, <1>4, <2>1, Appended
    <2> HIDE DEF p
    <2>3. c = [d EXCEPT !.options = p]
      BY <1>4 DEF p
    <2> QED BY <2>2, <2>3, DraftFields DEF Sure
  <1> QED BY <1>1, <1>2, <1>3, <1>4 DEF o, Sure

(***************************************************************************)
(* Banks.                                                                  *)
(***************************************************************************)
LEMMA Extremes ==
  ASSUME NEW S \in SUBSET (0..MaxIds), S # {}
  PROVE  Sets!Min(S) \in S /\ Sets!Max(S) \in S
  <1>0. MaxIds \in Nat /\ S \in SUBSET Nat
    BY EditorBounds
  <1>1. Sets!Min(S) \in S
    <2>1. \E m \in S : \A n \in S : m <= n
      BY <1>0, LeastNumber
    <2> QED BY <2>1 DEF Sets!Min
  <1>2. Sets!Max(S) \in S
    <2> DEFINE T == {MaxIds - s : s \in S}
    <2>1. T \in SUBSET Nat /\ T # {}
      <3>1. \A s \in S : MaxIds - s \in Nat
        BY <1>0
      <3>2. PICK s \in S : TRUE
        OBVIOUS
      <3>3. MaxIds - s \in T
        OBVIOUS
      <3> QED BY <3>1, <3>3
    <2>2. PICK m \in T : \A n \in T : m <= n
      BY <2>1, LeastNumber
    <2>3. PICK x \in S : m = MaxIds - x
      BY <2>2
    <2>4. \A y \in S : x >= y
      <3> SUFFICES ASSUME NEW y \in S PROVE x >= y
        OBVIOUS
      <3>1. m <= MaxIds - y
        BY <2>2
      <3> QED BY <1>0, <2>3, <3>1
    <2> QED BY <2>4 DEF Sets!Max
  <1> QED BY <1>1, <1>2

LEMMA BankOf ==
  /\ \A S \in SUBSET (1..MaxIds) : [S -> Question] \subseteq AnyBank
  /\ \A b \in AnyBank : /\ DOMAIN b \in SUBSET (1..MaxIds) /\ b \in [DOMAIN b -> Question]
                        /\ \A q \in DOMAIN b : b[q] \in Question
  BY DEF AnyBank

LEMMA NoBank ==
  /\ <<>> \in AnyBank /\ BankKeyed(<<>>) /\ Plain(<<>>)
  /\ \A b \in AnyBank : b # <<>> => DOMAIN b # {}
  <1> DEFINE none == {}
             empty == <<>>
  <1>1. empty \in [none -> Question] /\ none \in SUBSET (1..MaxIds) /\ DOMAIN empty = none
    OBVIOUS
  <1>2. empty \in AnyBank
    BY <1>1, BankOf
  <1>3. ASSUME NEW b \in AnyBank, DOMAIN b = {} PROVE b = <<>>
    BY <1>3, BankOf
  <1>4. BankKeyed(empty) /\ Plain(empty)
    BY <1>1 DEF BankKeyed, Plain
  <1> QED BY <1>2, <1>3, <1>4

(***************************************************************************)
(* Requests.                                                               *)
(***************************************************************************)
\* The material comes and goes once.
Later(stock, next) ==
  next = stock \/ (stock = "never" /\ next = "stored") \/ next = "deleted"

LEMMA Outlives ==
  ASSUME NEW stock, NEW next, Later(stock, next), NEW ex, NEW more, ex \subseteq more
  PROVE  /\ \A a \in AnyAsk : AskSound(a, stock, ex) => AskSound(a, next, more)
         /\ \A e : DeskSound(e, stock) => DeskSound(e, next)
         /\ \A p : PhoneSound(p, stock) => PhoneSound(p, next)
         /\ \A e, as : ListKnown(e, as, stock) => ListKnown(e, as, next)
         /\ \A b : BankFine(b, stock, ex) => BankFine(b, next, more)
  <1>1. ASSUME NEW a \in AnyAsk, AskSound(a, stock, ex) PROVE AskSound(a, next, more)
    BY <1>1 DEF AskSound, Later
  <1>2. ASSUME NEW e, DeskSound(e, stock) PROVE DeskSound(e, next)
    BY <1>2 DEF DeskSound, Later
  <1>3. ASSUME NEW p, PhoneSound(p, stock) PROVE PhoneSound(p, next)
    BY <1>3 DEF PhoneSound, Later
  <1>4. ASSUME NEW e, NEW as, ListKnown(e, as, stock) PROVE ListKnown(e, as, next)
    BY <1>4 DEF ListKnown, Later
  <1>5. ASSUME NEW b, BankFine(b, stock, ex) PROVE BankFine(b, next, more)
    BY <1>5 DEF BankFine, Later
  <1> QED BY <1>1, <1>2, <1>3, <1>4, <1>5

Lower(a, to) == IF a.narrow THEN a ELSE [a EXCEPT !.to = Least(@, to)]

LEMMA LowerFacts ==
  ASSUME NEW a \in AnyAsk, NEW to \in 0..4
  PROVE  LET b == Lower(a, to) IN
         /\ b \in AnyAsk
         /\ b.narrow = a.narrow /\ b.kind = a.kind /\ b.q = a.q /\ b.new = a.new
         /\ b.then = a.then /\ b.was = a.was
         /\ a.narrow => b = a
         /\ ~a.narrow => b.to = Least(a.to, to)
         /\ b.to \in 0..4 /\ b.to <= a.to
  <1>0. a.to \in 0..4
    BY DEF AnyAsk
  <1>1. CASE a.narrow
    <2>1. Lower(a, to) = a
      BY <1>1 DEF Lower
    <2>2. a.to <= a.to
      BY ONLY <1>0
    <2> QED BY <1>0, <1>1, <2>1, <2>2
  <1>2. CASE ~a.narrow
    <2> DEFINE m == Least(a.to, to)
    <2>1. m \in 0..4 /\ m <= a.to
      BY DEF Least, AnyAsk
    <2>2. Lower(a, to) = [a EXCEPT !.to = m]
      BY <1>2 DEF Lower
    <2> HIDE DEF m
    <2>3. /\ [a EXCEPT !.to = m] \in AnyAsk /\ [a EXCEPT !.to = m].to = m
          /\ \A x \in {"narrow", "kind", "q", "new", "then", "was"} : [a EXCEPT !.to = m][x] = a[x]
      BY <2>1 DEF AnyAsk
    <2> QED BY <1>2, <2>1, <2>2, <2>3 DEF m
  <1> QED BY <1>1, <1>2

LEMMA LeftIs == ASSUME NEW as, NEW to PROVE Left(as, to) = {Lower(a, to) : a \in as}
  BY DEF Left, Lower

LEMMA LowerSound ==
  ASSUME NEW as \in SUBSET AnyAsk, NEW to \in 0..4, NEW stock, NEW ex,
         \A a \in as : AskSound(a, stock, ex)
  PROVE  /\ Left(as, to) \in SUBSET AnyAsk
         /\ \A a \in Left(as, to) : AskSound(a, stock, ex)
         /\ to < 2 => ListsAsked(Left(as, to)) = {}
         /\ to >= 2 => \A e : ListKnown(e, as, stock) => ListKnown(e, Left(as, to), stock)
  <1>1. ASSUME NEW b \in Left(as, to) PROVE \E a \in as : b = Lower(a, to)
    BY LeftIs
  <1>2. ASSUME NEW b \in Left(as, to) PROVE b \in AnyAsk /\ AskSound(b, stock, ex)
    <2>1. PICK a \in as : b = Lower(a, to)
      BY <1>1
    <2>2. AskSound(a, stock, ex) /\ a \in AnyAsk
      OBVIOUS
    <2>3. /\ b \in AnyAsk /\ b.narrow = a.narrow /\ b.kind = a.kind /\ b.q = a.q /\ b.new = a.new
          /\ b.then = a.then /\ b.was = a.was
      BY <2>1, <2>2, LowerFacts
    <2> QED BY <2>2, <2>3 DEF AskSound
  <1>3. ASSUME to < 2, NEW b \in ListsAsked(Left(as, to)) PROVE FALSE
    <2>0. b \in Left(as, to) /\ b.kind = "list" /\ b.to >= 2
      BY <1>3 DEF ListsAsked
    <2>1. PICK a \in as : b = Lower(a, to)
      BY <1>1, <2>0
    <2>2. a \in AnyAsk /\ b.kind = a.kind /\ b.narrow = a.narrow /\ (~a.narrow => b.to = Least(a.to, to)) /\ a.to \in 0..4
      BY <2>1, LowerFacts DEF AnyAsk
    <2>3. ~b.narrow
      BY <1>2, <2>0 DEF AskSound
    <2> QED BY <1>3, <2>0, <2>2, <2>3 DEF Least
  <1>4. ASSUME to >= 2, NEW e, ListKnown(e, as, stock) PROVE ListKnown(e, Left(as, to), stock)
    <2>1. ASSUME NEW b \in ListsAsked(Left(as, to))
          PROVE  \E a \in ListsAsked(as) : b = Lower(a, to) /\ b.was = a.was
      <3>1. b \in Left(as, to) /\ b.kind = "list" /\ b.to >= 2
        BY <2>1 DEF ListsAsked
      <3>2. PICK a \in as : b = Lower(a, to)
        BY <1>1, <3>1
      <3>3. a \in AnyAsk /\ b.kind = a.kind /\ b.was = a.was /\ b.to <= a.to /\ b.to \in 0..4 /\ a.to \in 0..4
        BY <3>2, LowerFacts DEF AnyAsk
      <3>4. a.kind = "list"
        BY <3>1, <3>3
      <3>5. a.to >= 2
        BY <3>1, <3>3
      <3>6. a \in ListsAsked(as)
        BY <3>4, <3>5 DEF ListsAsked
      <3> QED BY <3>2, <3>3, <3>6
    <2>2. ASSUME NEW a \in ListsAsked(as) PROVE Lower(a, to) \in ListsAsked(Left(as, to))
      <3>1. a \in as /\ a.kind = "list" /\ a.to >= 2 /\ a \in AnyAsk /\ a.to \in 0..4
        BY <2>2 DEF ListsAsked, AnyAsk
      <3>2. Lower(a, to) \in Left(as, to)
        BY <3>1, LeftIs
      <3>3. /\ Lower(a, to).kind = "list"
            /\ Lower(a, to).to = a.to \/ Lower(a, to).to = Least(a.to, to)
        BY <3>1, LowerFacts
      <3>4. Lower(a, to).to >= 2
        BY <1>4, <3>1, <3>3 DEF Least
      <3> QED BY <3>2, <3>3, <3>4 DEF ListsAsked
    <2>3. ListsAsked(as) # {} => ListsAsked(Left(as, to)) # {}
      BY <2>2
    <2>4. ASSUME ~e.lapse, stock # "deleted"
          PROVE  /\ \A a, b \in ListsAsked(Left(as, to)) : a = b
                 /\ \A a \in ListsAsked(Left(as, to)) : a.was.stored = "never" => ~Mentions(e) /\ ~e.known
                 /\ Mentions(e) => e.known \/ ListsAsked(Left(as, to)) # {}
      <3>1. /\ \A a, b \in ListsAsked(as) : a = b
            /\ \A a \in ListsAsked(as) : a.was.stored = "never" => ~Mentions(e) /\ ~e.known
            /\ Mentions(e) => e.known \/ ListsAsked(as) # {}
        BY <1>4, <2>4 DEF ListKnown
      <3> QED BY <2>1, <2>3, <3>1
    <2> QED BY <2>4 DEF ListKnown
  <1>5. Left(as, to) \in SUBSET AnyAsk
    BY <1>2
  <1>6. to < 2 => ListsAsked(Left(as, to)) = {}
    BY <1>3
  <1> QED BY <1>2, <1>4, <1>5, <1>6

\* What a request has read when it is sent: the test or the material as they are, or nothing.
JustAsked(a) ==
  /\ a.kind \notin Reading => BankKeyed(a.was.bank) /\ Plain(a.was.bank)
  /\ a.kind \in Reading => a.was.bank = bank
  /\ a.was.stored = IF a.kind = "list" THEN stored ELSE "never"

LEMMA AskFields ==
  ASSUME bank \in AnyBank, stored \in Stocks,
         NEW id \in 1..MaxAsks, NEW narrow \in BOOLEAN, NEW to \in 0..4, NEW q \in 0..MaxIds,
         NEW new \in Question, NEW then \in Thens,
         NEW kind \in AskKinds
  PROVE  LET a == Ask(id, narrow, kind, to, q, new, then) IN
         /\ a \in AnyAsk
         /\ a.narrow = narrow /\ a.kind = kind /\ a.to = to /\ a.q = q /\ a.new = new /\ a.then = then
         /\ JustAsked(a)
  <1> DEFINE b == IF kind \in Reading THEN bank ELSE <<>>
             s == IF kind = "list" THEN stored ELSE "never"
             was == [bank |-> b, stored |-> s]
             a == [id |-> id, narrow |-> narrow, kind |-> kind, to |-> to, q |-> q, new |-> new,
                   then |-> then, was |-> was]
  <1>1. /\ b \in AnyBank
        /\ kind \notin Reading => BankKeyed(b) /\ Plain(b)
    BY NoBank
  <1>2. s \in Stocks
    BY DEF Stocks
  <1>3. Ask(id, narrow, kind, to, q, new, then) = a
    BY DEF Ask, Reading
  <1> HIDE DEF b, s
  <1>4. was \in AnyWas /\ was.bank = b /\ was.stored = s
    BY <1>1, <1>2 DEF AnyWas
  <1> HIDE DEF was
  <1>5. /\ a \in AnyAsk
        /\ a.narrow = narrow /\ a.kind = kind /\ a.to = to /\ a.q = q /\ a.new = new /\ a.then = then
        /\ a.was = was
    BY <1>4 DEF AnyAsk
  <1> HIDE DEF a
  <1>6. /\ kind \in Reading => b = bank
        /\ kind = "list" => s = stored
        /\ kind # "list" => s = "never"
    BY DEF b, s
  <1> QED BY <1>1, <1>3, <1>4, <1>5, <1>6 DEF JustAsked

\* An answer that asks again: what was read is at least as new.
BankRead(a, b) == [a EXCEPT !.was.bank = b]
StoredRead(a, s) == [a EXCEPT !.was.stored = s]

LEMMA WasFields ==
  ASSUME NEW a \in AnyAsk, NEW w \in AnyWas
  PROVE  LET c == [a EXCEPT !.was = w] IN
         /\ c \in AnyAsk /\ c.narrow = a.narrow /\ c.kind = a.kind /\ c.to = a.to /\ c.q = a.q
         /\ c.new = a.new /\ c.then = a.then /\ c.was = w
  BY DEF AnyAsk

LEMMA BankReread ==
  ASSUME NEW a \in AnyAsk, NEW b \in AnyBank
  PROVE  LET c == BankRead(a, b) IN
         /\ c \in AnyAsk /\ c.narrow = a.narrow /\ c.kind = a.kind /\ c.to = a.to /\ c.q = a.q
         /\ c.new = a.new /\ c.then = a.then /\ c.was.bank = b /\ c.was.stored = a.was.stored
  <1> DEFINE w == a.was
             v == [w EXCEPT !.bank = b]
             c == [a EXCEPT !.was = v]
  <1>1. w \in AnyWas
    BY DEF AnyAsk
  <1>2. v \in AnyWas /\ v.bank = b /\ v.stored = w.stored
    BY <1>1 DEF AnyWas
  <1>3. BankRead(a, b) = c
    BY DEF AnyAsk, BankRead
  <1>4. w = a.was
    OBVIOUS
  <1> HIDE DEF w, v
  <1>5. /\ c \in AnyAsk /\ c.narrow = a.narrow /\ c.kind = a.kind /\ c.to = a.to /\ c.q = a.q
        /\ c.new = a.new /\ c.then = a.then /\ c.was = v
    BY <1>2, WasFields
  <1> HIDE DEF c
  <1> QED BY <1>2, <1>3, <1>4, <1>5

LEMMA StoredReread ==
  ASSUME NEW a \in AnyAsk, NEW s \in Stocks
  PROVE  LET c == StoredRead(a, s) IN
         /\ c \in AnyAsk /\ c.narrow = a.narrow /\ c.kind = a.kind /\ c.to = a.to /\ c.q = a.q
         /\ c.new = a.new /\ c.then = a.then /\ c.was.stored = s /\ c.was.bank = a.was.bank
  <1> DEFINE w == a.was
             v == [w EXCEPT !.stored = s]
             c == [a EXCEPT !.was = v]
  <1>1. w \in AnyWas
    BY DEF AnyAsk
  <1>2. v \in AnyWas /\ v.stored = s /\ v.bank = w.bank
    BY <1>1 DEF AnyWas
  <1>3. StoredRead(a, s) = c
    BY DEF AnyAsk, StoredRead
  <1>4. w = a.was
    OBVIOUS
  <1> HIDE DEF w, v
  <1>5. /\ c \in AnyAsk /\ c.narrow = a.narrow /\ c.kind = a.kind /\ c.to = a.to /\ c.q = a.q
        /\ c.new = a.new /\ c.then = a.then /\ c.was = v
    BY <1>2, WasFields
  <1> HIDE DEF c
  <1> QED BY <1>2, <1>3, <1>4, <1>5

\* The request for a question is carried out.
LEMMA EffectSound ==
  ASSUME EditorInv, NEW a \in asks, Effect(a)
  PROVE  /\ bank' \in AnyBank /\ stored' \in Stocks /\ Later(stored, stored')
         /\ BankFine(bank', stored', excused)
         /\ a.kind \in {"upload", "discard"} => stored' # "never"
         /\ a.kind = "add" => DOMAIN bank' # {}
         /\ a.kind \notin {"upload", "discard"} => stored' = stored
  <1>0. /\ bank \in AnyBank /\ stored \in Stocks /\ BankFine(bank, stored, excused)
        /\ a \in AnyAsk /\ AskSound(a, stored, excused) /\ a.q \in 0..MaxIds /\ a.new \in Question
    BY DEF EditorInv, EditorFull, AnyAsk
  <1> DEFINE S == DOMAIN bank
  <1>1. S \in SUBSET (1..MaxIds) /\ bank \in [S -> Question] /\ \A q \in S : bank[q] \in Question
    BY <1>0, BankOf
  <1>2. ASSUME a.kind = "save", a.q \in S, bank' = [bank EXCEPT ![a.q] = a.new], stored' = stored
        PROVE  bank' \in AnyBank /\ BankFine(bank', stored', excused)
    <2>1. /\ bank' \in [S -> Question] /\ DOMAIN bank' = S /\ bank'[a.q] = a.new
          /\ \A q \in S : q # a.q => bank'[q] = bank[q]
      BY <1>0, <1>1, <1>2
    <2>2. bank' \in AnyBank
      BY <1>1, <2>1, BankOf
    <2>3. BankKeyed(bank')
      BY <1>0, <1>2, <2>1 DEF BankFine, BankKeyed, AskSound
    <2>4. stored = "never" => Plain(bank')
      BY <1>0, <1>2, <2>1 DEF BankFine, Plain, AskSound
    <2>5. \A q \in DOMAIN bank' : bank'[q].pic = "raw" => q \in excused \/ stored = "deleted"
      BY <1>0, <1>2, <2>1 DEF BankFine, AskSound
    <2> QED BY <1>2, <2>2, <2>3, <2>4, <2>5 DEF BankFine
  <1>3. ASSUME NEW id, id = Sets!Max(S \cup {0}) + 1, id <= MaxIds, a.kind = "add", stored' = stored,
               bank' = [q \in S \cup {id} |-> IF q = id THEN a.new ELSE bank[q]]
        PROVE  bank' \in AnyBank /\ BankFine(bank', stored', excused) /\ DOMAIN bank' # {}
    <2>0. MaxIds \in Nat
      BY EditorBounds
    <2>1. Sets!Max(S \cup {0}) \in 0..MaxIds
      <3>1. S \cup {0} \in SUBSET (0..MaxIds) /\ S \cup {0} # {}
        BY <1>1, <2>0
      <3>2. Sets!Max(S \cup {0}) \in S \cup {0}
        BY <3>1, Extremes
      <3> QED BY <3>1, <3>2
    <2>2. id \in 1..MaxIds
      BY <1>3, <2>0, <2>1
    <2>3. /\ DOMAIN bank' = S \cup {id} /\ bank' \in [S \cup {id} -> Question]
          /\ bank'[id] = a.new /\ \A q \in S : q # id => bank'[q] = bank[q]
      BY <1>0, <1>1, <1>3
    <2>4. bank' \in AnyBank
      BY <1>1, <2>2, <2>3, BankOf
    <2>5. a.new.pic = "none" /\ KeyFor(id, a.new.options)
      BY <1>0, <1>3, SureFor DEF AskSound
    <2>6. BankKeyed(bank')
      BY <1>0, <2>3, <2>5 DEF BankFine, BankKeyed
    <2>7. stored = "never" => Plain(bank')
      BY <1>0, <2>3, <2>5 DEF BankFine, Plain
    <2>8. \A q \in DOMAIN bank' : bank'[q].pic = "raw" => q \in excused \/ stored = "deleted"
      BY <1>0, <2>3, <2>5 DEF BankFine
    <2> QED BY <1>3, <2>3, <2>4, <2>6, <2>7, <2>8 DEF BankFine
  <1>4. ASSUME a.kind = "delete", stored' = stored, bank' = [q \in S \ {a.q} |-> bank[q]]
        PROVE  bank' \in AnyBank /\ BankFine(bank', stored', excused)
    <2>1. /\ DOMAIN bank' = S \ {a.q} /\ bank' \in [S \ {a.q} -> Question]
          /\ \A q \in S \ {a.q} : bank'[q] = bank[q]
      BY <1>1, <1>4
    <2>2. bank' \in AnyBank
      BY <1>1, <2>1, BankOf
    <2>3. BankFine(bank', stored, excused)
      BY <1>0, <2>1 DEF BankFine, BankKeyed, Plain
    <2> QED BY <1>4, <2>2, <2>3
  <1>5. ASSUME bank' = bank, stored' \in Stocks, Later(stored, stored')
        PROVE  bank' \in AnyBank /\ BankFine(bank', stored', excused)
    BY <1>0, <1>5, Outlives
  <1>6. CASE a.kind = "save"
    <2>1. a.q \in S /\ bank' = [bank EXCEPT ![a.q] = a.new] /\ stored' = stored
      BY <1>6 DEF Effect
    <2> QED BY <1>0, <1>2, <1>6, <2>1 DEF Later
  <1>7. CASE a.kind = "add"
    <2> DEFINE id == Sets!Max(S \cup {0}) + 1
    <2>1. /\ id <= MaxIds /\ stored' = stored
          /\ bank' = [q \in S \cup {id} |-> IF q = id THEN a.new ELSE bank[q]]
      BY <1>7 DEF Effect
    <2> HIDE DEF id
    <2>2. id = Sets!Max(S \cup {0}) + 1
      BY DEF id
    <2>3. bank' \in AnyBank /\ BankFine(bank', stored', excused) /\ DOMAIN bank' # {}
      BY <1>3, <1>7, <2>1, <2>2
    <2> QED BY <1>0, <1>7, <2>1, <2>3 DEF Later
  <1>8. CASE a.kind = "delete"
    <2>1. bank' = [q \in S \ {a.q} |-> bank[q]] /\ stored' = stored
      BY <1>8 DEF Effect
    <2> QED BY <1>0, <1>4, <1>8, <2>1 DEF Later
  <1>9. CASE a.kind \in {"upload", "discard"}
    <2>1. /\ bank' = bank
          /\ \/ stored = "never" /\ stored' = "stored"
             \/ stored' = "deleted"
      BY <1>9 DEF Effect
    <2>2. stored' \in Stocks /\ Later(stored, stored') /\ stored' # "never"
      BY <2>1 DEF Stocks, Later
    <2> QED BY <1>5, <1>9, <2>1, <2>2
  <1>10. CASE a.kind \notin {"save", "add", "delete", "upload", "discard"}
    <2>1. bank' = bank /\ stored' = stored
      BY <1>10 DEF Effect
    <2> QED BY <1>0, <1>5, <1>10, <2>1 DEF Later
  <1> QED BY <1>6, <1>7, <1>8, <1>9, <1>10

LEMMA NewAskFields ==
  ASSUME EditorFull, FreeIds # {}, NEW narrow \in BOOLEAN, NEW to \in 0..4, NEW q \in 0..MaxIds,
         NEW new \in Question, NEW then \in Thens,
         NEW kind \in AskKinds
  PROVE  LET a == NewAsk(narrow, kind, to, q, new, then) IN
         /\ a \in AnyAsk
         /\ a.narrow = narrow /\ a.kind = kind /\ a.to = to /\ a.q = q /\ a.new = new /\ a.then = then
         /\ JustAsked(a)
  <1>1. PICK id \in 1..MaxAsks :
          NewAsk(narrow, kind, to, q, new, then) = Ask(id, narrow, kind, to, q, new, then)
    <2> DEFINE id == CHOOSE i \in FreeIds : TRUE
    <2>1. id \in 1..MaxAsks
      BY DEF FreeIds
    <2>2. NewAsk(narrow, kind, to, q, new, then) = Ask(id, narrow, kind, to, q, new, then)
      BY DEF NewAsk
    <2> HIDE DEF id
    <2> QED BY <2>1, <2>2
  <1>2. bank \in AnyBank /\ stored \in Stocks
    BY DEF EditorFull
  <1> QED BY <1>1, <1>2, AskFields

\* A request that is sent, or answered, leaves what is known of the lists.
LEMMA SameLists ==
  ASSUME NEW e, NEW as, NEW bs, NEW stock, ListsAsked(as) = ListsAsked(bs), ListKnown(e, as, stock)
  PROVE  ListKnown(e, bs, stock)
  BY DEF ListKnown

LEMMA SaidLess ==
  ASSUME NEW e, NEW f, NEW as, NEW stock, ListKnown(e, as, stock),
         ~f.lapse => ~e.lapse, f.known = e.known, ~f.lapse /\ Mentions(f) => Mentions(e)
  PROVE  ListKnown(f, as, stock)
  BY DEF ListKnown

LEMMA AskSent ==
  ASSUME EditorInv, NEW a \in AnyAsk, a.kind # "list", asks' = asks \cup {a},
         UNCHANGED <<bank, stored, editor, phone>>, excused \subseteq excused',
         AskSound(a, stored, excused')
  PROVE  EditorInv'
  <1>1. Later(stored, stored')
    BY DEF Later
  <1>2. /\ BankFine(bank', stored', excused') /\ DeskSound(editor', stored')
        /\ PhoneSound(phone', stored') /\ \A b \in asks' : b \in AnyAsk /\ AskSound(b, stored', excused')
    BY <1>1, Outlives DEF EditorInv, EditorFull
  <1>3. ListsAsked(asks') = ListsAsked(asks)
    BY DEF ListsAsked
  <1>4. ListKnown(editor', asks', stored')
    BY <1>3, SameLists DEF EditorInv
  <1>5. EditorFull'
    BY <1>2 DEF EditorInv, EditorFull
  <1> QED BY <1>2, <1>4, <1>5 DEF EditorInv

LEMMA AskedSound ==
  ASSUME BankFine(bank, stored, excused), NEW a \in AnyAsk, JustAsked(a), NEW ex,
         a.narrow => a.kind \in {"load", "save", "upload"}, a.kind = "load" => a.narrow,
         a.kind = "save" => KeyFor(a.q, a.new.options)
                            /\ (a.new.pic = "raw" => a.q \in ex \/ stored = "deleted"),
         a.kind = "add" => Sure(a.new.options) /\ a.new.pic = "none",
         stored = "never" => a.new.pic = "none",
         a.kind = "list" /\ a.then = "insert" => stored # "never"
  PROVE  AskSound(a, stored, ex)
  <1>1. BankKeyed(a.was.bank) /\ (stored = "never" => Plain(a.was.bank))
    BY DEF BankFine, JustAsked
  <1>2. a.was.stored = IF a.kind = "list" THEN stored ELSE "never"
    BY DEF JustAsked
  <1> QED BY <1>1, <1>2 DEF AskSound

\* What carries nothing is sent.
LEMMA PlainAsked ==
  ASSUME EditorInv, NEW a \in AnyAsk, JustAsked(a), a.new = Blank,
         a.kind \notin {"save", "list"}, a.narrow => a.kind \in {"load", "upload"}, a.kind = "load" => a.narrow,
         asks' = asks \cup {a}, UNCHANGED <<bank, stored, editor, phone, excused>>
  PROVE  EditorInv'
  <1>1. AskSound(a, stored, excused)
    BY AskedSound, BlankFacts DEF EditorInv
  <1> QED BY <1>1, AskSent

(***************************************************************************)
(* The desktop's editor.                                                   *)
(***************************************************************************)
LEMMA EditorTurns ==
  ASSUME EditorInv, NEW e \in AnyEditor, NEW to \in 2..4, EditorBecomes(e, to),
         DeskSound(e, stored), ListKnown(e, asks, stored)
  PROVE  EditorInv'
  <1>1. /\ editor' = e /\ asks' = Left(asks, to)
        /\ UNCHANGED <<bank, stored, phone, excused>>
    BY DEF EditorBecomes
  <1>2. to \in 0..4 /\ to >= 2
    OBVIOUS
  <1>3. asks \in SUBSET AnyAsk /\ \A a \in asks : AskSound(a, stored, excused)
    BY DEF EditorInv, EditorFull
  <1>4. /\ asks' \in SUBSET AnyAsk /\ \A a \in asks' : AskSound(a, stored, excused)
        /\ ListKnown(e, asks', stored)
    BY <1>1, <1>2, <1>3, LowerSound
  <1> QED BY <1>1, <1>4 DEF EditorInv, EditorFull

\* The same where the editor learns nothing new.
LEMMA EditorAlike ==
  ASSUME EditorInv, NEW e \in AnyEditor, NEW to \in 2..4, EditorBecomes(e, to),
         e.view = editor.view, e.known = editor.known, ~e.lapse => ~editor.lapse,
         e.draft # <<>> => Sure(e.draft[1].options),
         ~e.lapse \/ stored = "never" => (Mentions(e) => Mentions(editor))
  PROVE  EditorInv'
  <1>1. DeskSound(e, stored)
    BY DEF EditorInv, DeskSound
  <1>2. ListKnown(e, asks, stored)
    <2>1. ListKnown(editor, asks, stored)
      BY DEF EditorInv
    <2> QED BY <2>1, SaidLess
  <1> QED BY <1>1, <1>2, EditorTurns

LEMMA EditorFields ==
  ASSUME NEW e \in AnyEditor
  PROVE  /\ e.open \in BOOLEAN /\ e.view \in AnyBank /\ e.sel \in 0..MaxIds /\ e.draft \in AnyDraft
         /\ e.form \in BOOLEAN /\ e.field \in BOOLEAN /\ e.known \in BOOLEAN /\ e.lapse \in BOOLEAN
         /\ e.panel \in 0..4
  BY DEF AnyEditor

LEMMA DraftIs ==
  /\ <<>> \in AnyDraft
  /\ \A d \in Drafts : <<d>> \in AnyDraft /\ <<d>> # <<>> /\ <<d>>[1] = d
  /\ \A d \in AnyDraft : d # <<>> => d[1] \in Drafts /\ d = <<d[1]>>
  BY DEF AnyDraft

\* The form of a draft.
Formed(e, draft, form, field) == [e EXCEPT !.draft = draft, !.form = form, !.field = field]

LEMMA FormedFields ==
  ASSUME NEW e \in AnyEditor, NEW draft \in AnyDraft, NEW form \in BOOLEAN, NEW field \in BOOLEAN
  PROVE  LET f == Formed(e, draft, form, field) IN
         /\ f \in AnyEditor /\ f.open = e.open /\ f.view = e.view /\ f.sel = e.sel
         /\ f.draft = draft /\ f.form = form /\ f.field = field
         /\ f.known = e.known /\ f.lapse = e.lapse /\ f.panel = e.panel
  BY DEF Formed, AnyEditor

LEMMA SelFields ==
  ASSUME NEW e \in AnyEditor, NEW q \in 0..MaxIds
  PROVE  LET f == [e EXCEPT !.sel = q] IN
         /\ f \in AnyEditor /\ f.open = e.open /\ f.view = e.view /\ f.sel = q
         /\ f.draft = e.draft /\ f.form = e.form /\ f.field = e.field
         /\ f.known = e.known /\ f.lapse = e.lapse /\ f.panel = e.panel
  BY DEF AnyEditor

LEMMA PanelFields ==
  ASSUME NEW e \in AnyEditor, NEW n \in 0..4
  PROVE  LET f == [e EXCEPT !.panel = n] IN
         /\ f \in AnyEditor /\ f.open = e.open /\ f.view = e.view /\ f.sel = e.sel
         /\ f.draft = e.draft /\ f.form = e.form /\ f.field = e.field
         /\ f.known = e.known /\ f.lapse = e.lapse /\ f.panel = n
  BY DEF AnyEditor

LEMMA KnownFields ==
  ASSUME NEW e \in AnyEditor, NEW known \in BOOLEAN
  PROVE  LET f == [e EXCEPT !.known = known] IN
         /\ f \in AnyEditor /\ f.open = e.open /\ f.view = e.view /\ f.sel = e.sel
         /\ f.draft = e.draft /\ f.form = e.form /\ f.field = e.field
         /\ f.known = known /\ f.lapse = e.lapse /\ f.panel = e.panel
  BY DEF AnyEditor

LEMMA LapseFields ==
  ASSUME NEW e \in AnyEditor, NEW lapse \in BOOLEAN
  PROVE  LET f == [e EXCEPT !.lapse = lapse] IN
         /\ f \in AnyEditor /\ f.open = e.open /\ f.view = e.view /\ f.sel = e.sel
         /\ f.draft = e.draft /\ f.form = e.form /\ f.field = e.field
         /\ f.known = e.known /\ f.lapse = lapse /\ f.panel = e.panel
  BY DEF AnyEditor

LEMMA PickQuestionSafe == ASSUME EditorInv, NEW q \in 1..MaxIds, PickQuestion(q) PROVE EditorInv'
  <1> DEFINE no == FALSE
             none == <<>>
             s == [editor EXCEPT !.sel = q]
             e == [editor EXCEPT !.sel = q, !.draft = none, !.form = no, !.field = no]
  <1>1. EditorBecomes(e, 2) /\ no \in BOOLEAN /\ ~no /\ none \in AnyDraft /\ none = <<>>
    BY DraftIs DEF PickQuestion
  <1>2. editor \in AnyEditor /\ q \in 0..MaxIds /\ 2 \in 2..4
    BY DEF EditorInv, EditorFull
  <1> HIDE DEF no, none
  <1>3. s \in AnyEditor /\ s.view = editor.view /\ s.known = editor.known /\ s.lapse = editor.lapse
    BY <1>2, SelFields
  <1>4. e = Formed(s, none, no, no)
    BY <1>2 DEF Formed, AnyEditor
  <1> HIDE DEF s, e
  <1>5. /\ e \in AnyEditor /\ e.view = s.view /\ e.known = s.known /\ e.lapse = s.lapse
        /\ e.draft = none /\ e.field = no
    BY <1>1, <1>3, <1>4, FormedFields
  <1>6. Mentions(e) => Mentions(editor)
    BY <1>1, <1>3, <1>5 DEF Mentions, Tokened
  <1> QED BY <1>1, <1>2, <1>3, <1>5, <1>6, EditorAlike

LEMMA CancelEditSafe == ASSUME EditorInv, CancelEdit PROVE EditorInv'
  <1> DEFINE no == FALSE
             none == <<>>
             e == [editor EXCEPT !.draft = none, !.form = no, !.field = no]
  <1>1. EditorBecomes(e, 2) /\ no \in BOOLEAN /\ ~no /\ none \in AnyDraft /\ none = <<>>
    BY DraftIs DEF CancelEdit
  <1>2. editor \in AnyEditor /\ 2 \in 2..4
    BY DEF EditorInv, EditorFull
  <1> HIDE DEF no, none
  <1>3. e = Formed(editor, none, no, no)
    BY DEF Formed
  <1> HIDE DEF e
  <1>4. /\ e \in AnyEditor /\ e.view = editor.view /\ e.known = editor.known /\ e.lapse = editor.lapse
        /\ e.draft = none /\ e.field = no
    BY <1>1, <1>2, <1>3, FormedFields
  <1>5. Mentions(e) => Mentions(editor)
    BY <1>1, <1>4 DEF Mentions, Tokened
  <1> QED BY <1>1, <1>2, <1>4, <1>5, EditorAlike

LEMMA QuestionOf ==
  ASSUME NEW b \in AnyBank, NEW q \in DOMAIN b
  PROVE  b[q] \in Question /\ b[q].options \in Options
         /\ b[q].pic \in {"none", "linked", "raw", "text"}
  <1>1. b[q] \in Question
    BY BankOf
  <1> QED BY <1>1 DEF Question

LEMMA MadeDraft ==
  ASSUME NEW o \in Options, NEW token \in BOOLEAN, NEW proposal \in BOOLEAN
  PROVE  LET d == [options |-> o, token |-> token, proposal |-> proposal] IN
         d \in Drafts /\ d.options = o /\ d.token = token /\ d.proposal = proposal
  BY DEF Drafts

LEMMA StartEditSafe ==
  ASSUME EditorInv, NEW proposal \in BOOLEAN, StartEdit(proposal)
  PROVE  EditorInv'
  <1> DEFINE yes == TRUE
             v == editor.view[editor.sel]
             o == Rekeyed(v.options)
             token == Written(v)
             own == proposal \/ ~owner
             d == [options |-> o, token |-> token, proposal |-> own]
             e == [editor EXCEPT !.draft = <<d>>, !.form = yes, !.field = d.token]
  <1>1. EditorBecomes(e, 2) /\ yes \in BOOLEAN /\ editor.sel \in DOMAIN editor.view
    BY DEF StartEdit
  <1>2. editor \in AnyEditor /\ 2 \in 2..4 /\ editor.view \in AnyBank /\ BankKeyed(editor.view)
    BY EditorFields DEF EditorInv, EditorFull, DeskSound
  <1>3. v.options \in Options /\ KeyFor(editor.sel, v.options)
    BY <1>1, <1>2, QuestionOf DEF BankKeyed
  <1>4. o \in Options /\ Sure(o)
    BY <1>3, RekeyedKeys DEF KeyFor
  <1>5. token \in BOOLEAN /\ own \in BOOLEAN
    BY DEF Written
  <1>6. token => ~Plain(editor.view)
    BY <1>1 DEF Written, Plain
  <1> HIDE DEF yes, v, o, token, own
  <1>7. d \in Drafts /\ d.options = o /\ d.token = token
    BY <1>4, <1>5, MadeDraft
  <1> HIDE DEF d
  <1> DEFINE draft == <<d>>
             field == d.token
  <1>8. draft \in AnyDraft /\ draft[1] = d
    BY <1>7, DraftIs
  <1>9. e = Formed(editor, draft, yes, field) /\ field = token
    BY <1>7 DEF Formed
  <1> HIDE DEF e, draft, field
  <1>10. /\ e \in AnyEditor /\ e.view = editor.view /\ e.known = editor.known /\ e.lapse = editor.lapse
         /\ e.draft = draft /\ e.field = token
    <2> DEFINE f == Formed(editor, draft, yes, field)
    <2>1. editor \in AnyEditor /\ draft \in AnyDraft /\ yes \in BOOLEAN /\ field \in BOOLEAN
      BY <1>1, <1>2, <1>5, <1>8, <1>9
    <2>2. /\ f \in AnyEditor /\ f.view = editor.view /\ f.known = editor.known
          /\ f.lapse = editor.lapse /\ f.draft = draft /\ f.field = field
      BY <2>1, FormedFields
    <2> HIDE DEF f
    <2>3. e = f /\ field = token
      BY <1>9 DEF f
    <2> QED BY <2>2, <2>3
  <1>11. e.draft[1].options = o /\ e.draft[1].token = token
    BY <1>7, <1>8, <1>10
  <1>12. Mentions(e) => Mentions(editor)
    <2>1. token \/ Tokened(e.draft) => Mentions(editor)
      BY <1>6, <1>11 DEF Mentions, Tokened
    <2> QED BY <1>10, <2>1 DEF Mentions
  <1> QED BY <1>1, <1>2, <1>4, <1>10, <1>11, <1>12, EditorAlike

\* What a form holds.
LEMMA FormHolds ==
  ASSUME EditorInv, editor.draft # <<>>
  PROVE  /\ editor \in AnyEditor /\ editor.draft \in AnyDraft
         /\ Draft \in Drafts /\ Sure(Draft.options) /\ Draft.options \in Options
         /\ Draft.token \in BOOLEAN /\ Draft.proposal \in BOOLEAN
         /\ Draft.token => Mentions(editor)
  <1>1. editor \in AnyEditor /\ editor.draft \in AnyDraft /\ DeskSound(editor, stored)
    BY EditorFields DEF EditorInv, EditorFull
  <1>2. Draft \in Drafts
    BY <1>1, DraftIs DEF Draft
  <1>3. Sure(Draft.options)
    BY <1>1 DEF DeskSound, Draft
  <1>4. Draft.token => Mentions(editor)
    BY DEF Mentions, Tokened, Draft
  <1> QED BY <1>1, <1>2, <1>3, <1>4 DEF Drafts

LEMMA DraftEditor ==
  ASSUME NEW e \in AnyEditor, NEW draft \in AnyDraft
  PROVE  LET f == [e EXCEPT !.draft = draft] IN
         /\ f \in AnyEditor /\ f.open = e.open /\ f.view = e.view /\ f.sel = e.sel
         /\ f.draft = draft /\ f.form = e.form /\ f.field = e.field
         /\ f.known = e.known /\ f.lapse = e.lapse /\ f.panel = e.panel
  BY DEF AnyEditor

LEMMA EditOptionsSafe == ASSUME EditorInv, EditOptions PROVE EditorInv'
  <1> DEFINE no == FALSE
  <1>1. PICK d \in Edits(Draft, no) : EditorBecomes([editor EXCEPT !.draft = <<d>>], 4)
    BY DEF EditOptions
  <1>2. editor.draft # <<>> /\ 4 \in 2..4
    BY DEF EditOptions, InForm
  <1>3. /\ editor \in AnyEditor /\ Draft \in Drafts /\ Sure(Draft.options)
        /\ Draft.token => Mentions(editor)
    BY <1>2, FormHolds
  <1>4. d \in Drafts /\ d.token = Draft.token /\ Sure(d.options)
    <2>1. no \in BOOLEAN
      OBVIOUS
    <2> HIDE DEF no
    <2> QED BY <1>1, <1>3, <2>1, EditsKeyed DEF Sure
  <1> DEFINE draft == <<d>>
             e == [editor EXCEPT !.draft = draft]
  <1>5. draft \in AnyDraft /\ draft[1] = d
    BY <1>4, DraftIs
  <1>6. EditorBecomes(e, 4)
    BY <1>1
  <1> HIDE DEF draft
  <1>7. /\ e \in AnyEditor /\ e.view = editor.view /\ e.known = editor.known /\ e.lapse = editor.lapse
        /\ e.draft = draft /\ e.field = editor.field
    BY <1>3, <1>5, DraftEditor
  <1> HIDE DEF e
  <1>8. Mentions(e) => Mentions(editor)
    <2>1. e.draft[1].token = Draft.token
      BY <1>4, <1>5, <1>7
    <2> QED BY <1>3, <1>7, <2>1 DEF Mentions, Tokened
  <1> QED BY <1>2, <1>4, <1>5, <1>6, <1>7, <1>8, EditorAlike

LEMMA Retokened ==
  ASSUME NEW d \in Drafts, NEW token \in BOOLEAN
  PROVE  LET c == [d EXCEPT !.token = token] IN
         /\ c \in Drafts /\ c.options = d.options /\ c.token = token /\ c.proposal = d.proposal
         /\ [<<d>> EXCEPT ![1].token = token] = <<c>>
  <1> DEFINE c == [d EXCEPT !.token = token]
             s == <<d>>
  <1>1. c \in Drafts /\ c.options = d.options /\ c.token = token /\ c.proposal = d.proposal
    BY DEF Drafts
  <1>2. [s EXCEPT ![1].token = token] = [s EXCEPT ![1] = c]
    OBVIOUS
  <1> HIDE DEF c
  <1>3. [s EXCEPT ![1] = c] = <<c>>
    OBVIOUS
  <1> QED BY <1>1, <1>2, <1>3 DEF c

\* The draft of an editor with the token in its text or without.
Retyped(e, token, field) == [e EXCEPT !.draft[1].token = token, !.field = field]

LEMMA WithToken ==
  ASSUME NEW e \in AnyEditor, e.draft # <<>>, NEW token \in BOOLEAN, NEW field \in BOOLEAN
  PROVE  LET f == Retyped(e, token, field) IN
         /\ f \in AnyEditor /\ f.open = e.open /\ f.view = e.view /\ f.sel = e.sel
         /\ f.draft # <<>> /\ f.draft[1] \in Drafts /\ f.draft[1].options = e.draft[1].options
         /\ f.draft[1].token = token /\ f.form = e.form /\ f.field = field
         /\ f.known = e.known /\ f.lapse = e.lapse /\ f.panel = e.panel
  <1> DEFINE d == e.draft[1]
             c == [d EXCEPT !.token = token]
             draft == <<c>>
             f == Retyped(e, token, field)
  <1>1. e.draft \in AnyDraft /\ e.form \in BOOLEAN
    BY EditorFields
  <1>2. d \in Drafts /\ e.draft = <<d>>
    BY <1>1, DraftIs
  <1>3. /\ c \in Drafts /\ c.options = d.options /\ c.token = token
        /\ [<<d>> EXCEPT ![1].token = token] = <<c>>
    BY <1>2, Retokened
  <1>4. f = [e EXCEPT !.draft = [e.draft EXCEPT ![1].token = token], !.field = field]
    BY DEF AnyEditor, Retyped
  <1>5. f = [e EXCEPT !.draft = draft, !.field = field]
    BY <1>2, <1>3, <1>4
  <1> HIDE DEF c, d
  <1>6. draft \in AnyDraft /\ draft # <<>> /\ draft[1] = c
    BY <1>3, DraftIs
  <1> DEFINE form == e.form
  <1> HIDE DEF f, draft, form
  <1>7. f = Formed(e, draft, form, field) /\ form \in BOOLEAN /\ form = e.form
    BY <1>1, <1>5 DEF Formed, AnyEditor, form
  <1>8. /\ f \in AnyEditor /\ f.open = e.open /\ f.view = e.view /\ f.sel = e.sel
        /\ f.draft = draft /\ f.form = e.form /\ f.field = field
        /\ f.known = e.known /\ f.lapse = e.lapse /\ f.panel = e.panel
    <2> DEFINE g == Formed(e, draft, form, field)
    <2>1. /\ g \in AnyEditor /\ g.open = e.open /\ g.view = e.view /\ g.sel = e.sel
          /\ g.draft = draft /\ g.form = form /\ g.field = field
          /\ g.known = e.known /\ g.lapse = e.lapse /\ g.panel = e.panel
      BY <1>6, <1>7, FormedFields
    <2> HIDE DEF g
    <2>2. f = g
      BY <1>7 DEF g
    <2> QED BY <1>7, <2>1, <2>2
  <1>9. d = e.draft[1]
    BY DEF d
  <1>10. f.draft # <<>> /\ f.draft[1] \in Drafts /\ f.draft[1].options = e.draft[1].options /\ f.draft[1].token = token
    BY <1>3, <1>6, <1>8, <1>9
  <1> QED BY <1>8, <1>10 DEF f

LEMMA TypeQuestionSafe == ASSUME EditorInv, TypeQuestion PROVE EditorInv'
  <1> DEFINE no == FALSE
  <1>1. PICK token \in {no, editor.field} :
          EditorBecomes([editor EXCEPT !.draft[1].token = token, !.field = token], 4)
    BY DEF TypeQuestion
  <1>2. editor.draft # <<>> /\ 4 \in 2..4
    BY DEF TypeQuestion, InForm
  <1>3. /\ editor \in AnyEditor /\ Sure(Draft.options) /\ editor.field \in BOOLEAN
        /\ no \in BOOLEAN /\ ~no
    BY <1>2, FormHolds, EditorFields
  <1> HIDE DEF no
  <1>4. token \in BOOLEAN /\ (token => editor.field)
    BY <1>1, <1>3
  <1> DEFINE e == Retyped(editor, token, token)
  <1>5. /\ e \in AnyEditor /\ e.view = editor.view /\ e.known = editor.known /\ e.lapse = editor.lapse
        /\ e.draft # <<>> /\ e.draft[1].options = Draft.options
        /\ e.draft[1].token = token /\ e.field = token
    BY <1>2, <1>3, <1>4, WithToken DEF Draft
  <1>6. EditorBecomes(e, 4)
    BY <1>1 DEF Retyped
  <1> HIDE DEF e
  <1>7. Mentions(e) => Mentions(editor)
    <2>1. token => Mentions(editor)
      BY <1>4 DEF Mentions
    <2> QED BY <1>5, <2>1 DEF Mentions, Tokened
  <1> QED BY <1>2, <1>3, <1>5, <1>6, <1>7, EditorAlike

LEMMA PanelSafe == ASSUME EditorInv, OpenPanel \/ ClosePanel PROVE EditorInv'
  <1>1. PICK n \in 0..4 : EditorBecomes([editor EXCEPT !.panel = n], 4)
    BY DEF OpenPanel, ClosePanel
  <1> DEFINE e == [editor EXCEPT !.panel = n]
  <1>2. editor \in AnyEditor /\ 4 \in 2..4
    BY DEF EditorInv, EditorFull
  <1>3. /\ e \in AnyEditor /\ e.view = editor.view /\ e.known = editor.known /\ e.lapse = editor.lapse
        /\ e.draft = editor.draft /\ e.field = editor.field
    BY <1>2, PanelFields
  <1>4. EditorBecomes(e, 4)
    BY <1>1
  <1> HIDE DEF e
  <1>5. Mentions(e) => Mentions(editor)
    BY <1>3 DEF Mentions
  <1>6. editor.draft # <<>> => Sure(editor.draft[1].options)
    BY DEF EditorInv, DeskSound
  <1> QED BY <1>2, <1>3, <1>4, <1>5, <1>6, EditorAlike

\* A token put into a form.
LEMMA InsertedFields ==
  ASSUME NEW e \in AnyEditor, NEW to \in 0..4
  PROVE  LET f == Inserted(e, to) IN
         /\ f \in AnyEditor /\ f.view = e.view /\ f.sel = e.sel
         /\ f.form = e.form /\ f.known = e.known /\ f.lapse = e.lapse /\ f.panel = e.panel
         /\ f.draft # <<>> => e.draft # <<>> /\ f.draft[1].options = e.draft[1].options
         /\ to < 3 => f = e
  <1>1. CASE to < 3 \/ e.draft = <<>>
    BY <1>1 DEF Inserted
  <1>2. CASE ~(to < 3 \/ e.draft = <<>>)
    <2> DEFINE yes == TRUE
               field == e.field \/ to = 4
    <2>1. Inserted(e, to) = Retyped(e, yes, field)
      BY <1>2 DEF Inserted, Retyped
    <2>2. yes \in BOOLEAN /\ field \in BOOLEAN
      OBVIOUS
    <2> HIDE DEF yes, field
    <2> DEFINE f == Retyped(e, yes, field)
    <2>3. /\ f \in AnyEditor /\ f.view = e.view /\ f.sel = e.sel
          /\ f.form = e.form /\ f.known = e.known /\ f.lapse = e.lapse /\ f.panel = e.panel
          /\ f.draft[1].options = e.draft[1].options
      BY <1>2, <2>2, WithToken
    <2> HIDE DEF f
    <2> QED BY <1>2, <2>1, <2>3 DEF f
  <1> QED BY <1>1, <1>2

LEMMA PanelInsertSafe == ASSUME EditorInv, PanelInsert PROVE EditorInv'
  <1> DEFINE f == Inserted(editor, editor.panel)
             lapse == editor.lapse \/ ~editor.known
             g == [f EXCEPT !.panel = 0]
             e == [g EXCEPT !.lapse = lapse]
  <1>1. editor \in AnyEditor /\ 4 \in 2..4 /\ DeskSound(editor, stored) /\ ListKnown(editor, asks, stored)
    BY DEF EditorInv, EditorFull
  <1>2. /\ editor.panel \in 0..4 /\ lapse \in BOOLEAN /\ editor.known \in BOOLEAN
        /\ editor.lapse \in BOOLEAN
    BY <1>1, EditorFields
  <1>3. /\ f \in AnyEditor /\ f.view = editor.view /\ f.known = editor.known /\ f.lapse = editor.lapse
        /\ f.draft # <<>> => editor.draft # <<>> /\ f.draft[1].options = editor.draft[1].options
    BY <1>1, <1>2, InsertedFields
  <1>4. /\ stored = "stored"
        /\ EditorBecomes([f EXCEPT !.panel = 0, !.lapse = @ \/ ~editor.known], 4)
    BY DEF PanelInsert
  <1> HIDE DEF f
  <1>5. [f EXCEPT !.panel = 0, !.lapse = @ \/ ~editor.known] = e
    BY <1>3 DEF AnyEditor
  <1> HIDE DEF lapse
  <1>6. g \in AnyEditor /\ g.view = f.view /\ g.known = f.known /\ g.draft = f.draft
    <2>1. 0 \in 0..4
      OBVIOUS
    <2> DEFINE zero == 0
    <2>2. zero \in 0..4 /\ g = [f EXCEPT !.panel = zero]
      OBVIOUS
    <2> HIDE DEF zero, g
    <2> QED BY <1>3, <2>2, PanelFields
  <1> HIDE DEF g
  <1>7. e \in AnyEditor /\ e.view = g.view /\ e.known = g.known /\ e.draft = g.draft /\ e.lapse = lapse
    <2>1. g \in AnyEditor /\ lapse \in BOOLEAN
      BY <1>2, <1>6 DEF lapse
    <2> HIDE DEF e
    <2>2. e = [g EXCEPT !.lapse = lapse]
      BY DEF e
    <2> QED BY <2>1, <2>2, LapseFields
  <1>8. EditorBecomes(e, 4)
    BY <1>4, <1>5
  <1> HIDE DEF e
  <1>9. DeskSound(e, stored)
    BY <1>1, <1>3, <1>4, <1>6, <1>7 DEF DeskSound
  <1>10. ListKnown(e, asks, stored)
    <2>1. ~e.lapse => ~editor.lapse /\ editor.known /\ e.known
      BY <1>2, <1>3, <1>6, <1>7 DEF lapse
    <2> QED BY <1>1, <2>1 DEF ListKnown
  <1> QED BY <1>1, <1>7, <1>8, <1>9, <1>10, EditorTurns

(***************************************************************************)
(* What the desktop's editor sends.                                         *)
(***************************************************************************)
LEMMA DeskAsks ==
  ASSUME EditorInv, NEW to \in 0..4, NEW q \in 0..MaxIds, NEW then \in Thens,
         NEW kind \in AskKinds, kind # "save", kind # "list", kind # "load",
         AskEditor(NewAsk(FALSE, kind, to, q, Blank, then)), UNCHANGED excused
  PROVE  EditorInv'
  <1> DEFINE no == FALSE
             new == Blank
             a == NewAsk(no, kind, to, q, new, then)
  <1>1. /\ FreeIds # {} /\ asks' = asks \cup {a}
        /\ UNCHANGED <<bank, stored, editor, phone, excused>>
    BY DEF AskEditor
  <1>2. no \in BOOLEAN /\ ~no /\ new = Blank /\ EditorFull /\ new \in Question
    BY BlankFacts DEF EditorInv
  <1> HIDE DEF no, new
  <1>3. /\ a \in AnyAsk /\ a.narrow = no /\ a.kind = kind /\ a.new = new /\ JustAsked(a)
    BY <1>1, <1>2, NewAskFields
  <1> HIDE DEF a
  <1>4. a.new = Blank /\ a.kind \notin {"save", "list"} /\ (a.narrow => a.kind \in {"load", "upload"})
        /\ a.kind # "load"
    BY <1>2, <1>3
  <1> QED BY <1>1, <1>3, <1>4, PlainAsked

LEMMA DeskAsksSafe ==
  ASSUME EditorInv, AddQuestion \/ UploadPicture \/ PanelUpload \/ PanelDelete
  PROVE  EditorInv'
  <1>1. EditorInv /\ 0 \in 0..MaxIds /\ 2 \in 0..4 /\ 4 \in 0..4
    BY EditorBounds
  <1>2. Least(editor.panel, 2) \in 0..4
    BY EditorFields DEF Least, EditorInv, EditorFull
  <1>3. /\ "nothing" \in Thens /\ "insert" \in Thens /\ "redraw" \in Thens /\ "reload" \in Thens
        /\ "add" \in AskKinds /\ "upload" \in AskKinds /\ "discard" \in AskKinds
    BY DEF Thens, AskKinds
  <1>4. CASE AddQuestion
    <2> DEFINE kind == "add"
               then == "nothing"
    <2>1. AskEditor(NewAsk(FALSE, kind, 2, 0, Blank, then)) /\ UNCHANGED excused
      BY <1>4 DEF AddQuestion
    <2> QED BY <1>1, <1>3, <2>1, DeskAsks
  <1>5. CASE UploadPicture
    <2>1. AskEditor(NewAsk(FALSE, "upload", 4, 0, Blank, "insert")) /\ UNCHANGED excused
      BY <1>5 DEF UploadPicture
    <2> QED BY <1>1, <1>3, <2>1, DeskAsks
  <1>6. CASE PanelUpload
    <2>1. AskEditor(NewAsk(FALSE, "upload", Least(editor.panel, 2), 0, Blank, "redraw")) /\ UNCHANGED excused
      BY <1>6 DEF PanelUpload
    <2> QED BY <1>1, <1>2, <1>3, <2>1, DeskAsks
  <1>7. CASE PanelDelete
    <2>1. AskEditor(NewAsk(FALSE, "discard", Least(editor.panel, 2), 0, Blank, "reload")) /\ UNCHANGED excused
      BY <1>7 DEF PanelDelete
    <2> QED BY <1>1, <1>2, <1>3, <2>1, DeskAsks
  <1> QED BY <1>4, <1>5, <1>6, <1>7

LEMMA DeleteQuestionSafe ==
  ASSUME EditorInv, NEW q \in 1..MaxIds, DeleteQuestion(q) PROVE EditorInv'
  <1>1. AskEditor(NewAsk(FALSE, "delete", 2, q, Blank, "nothing")) /\ UNCHANGED excused
    BY DEF DeleteQuestion
  <1>2. q \in 0..MaxIds /\ 2 \in 0..4 /\ "nothing" \in Thens /\ "delete" \in AskKinds
    BY EditorBounds DEF Thens, AskKinds
  <1> QED BY <1>1, <1>2, DeskAsks

LEMMA ResolvedIs ==
  ASSUME NEW d \in Drafts, NEW known \in BOOLEAN
  PROVE  LET r == Resolved(d, known) IN
         /\ r \in Question /\ r.options = d.options
         /\ r.pic = "raw" => d.token /\ ~known
         /\ ~d.token => r.pic = "none"
  <1> DEFINE pic == IF ~d.token THEN "none" ELSE IF known THEN "linked" ELSE "raw"
             o == d.options
             r == [options |-> o, pic |-> pic]
  <1>1. pic \in {"none", "linked", "raw", "text"} /\ (pic = "raw" => d.token /\ ~known) /\ (~d.token => pic = "none")
    OBVIOUS
  <1>2. o \in Options
    BY DEF Drafts
  <1>3. Resolved(d, known) = r
    BY DEF Resolved
  <1> HIDE DEF pic, o
  <1>4. r \in Question /\ r.options = o /\ r.pic = pic
    BY <1>1, <1>2 DEF Question
  <1> HIDE DEF r
  <1> QED BY <1>1, <1>3, <1>4 DEF o

LEMMA SubmitEditSafe == ASSUME EditorInv, SubmitEdit PROVE EditorInv'
  <1> DEFINE no == FALSE
             kind == IF Draft.proposal THEN "propose" ELSE "save"
             new == Resolved(Draft, editor.known)
             then == "nothing"
             a == NewAsk(no, kind, 4, editor.sel, new, then)
  <1>1. /\ FreeIds # {} /\ asks' = asks \cup {a}
        /\ UNCHANGED <<bank, stored, editor, phone>>
        /\ editor.draft # <<>>
    BY DEF SubmitEdit, AskEditor, InForm
  <1>2. excused' = IF editor.lapse \/ ListPending THEN excused \cup {editor.sel} ELSE excused
    BY DEF SubmitEdit
  <1>3. /\ Draft \in Drafts /\ Sure(Draft.options) /\ (Draft.token => Mentions(editor))
    BY <1>1, FormHolds
  <1>4. /\ editor \in AnyEditor /\ editor.known \in BOOLEAN /\ editor.sel \in 0..MaxIds
        /\ EditorFull /\ BankFine(bank, stored, excused)
        /\ DeskSound(editor, stored) /\ ListKnown(editor, asks, stored)
    BY EditorFields DEF EditorInv, EditorFull
  <1>5. /\ new \in Question /\ new.options = Draft.options
        /\ new.pic = "raw" => Draft.token /\ ~editor.known
        /\ ~Draft.token => new.pic = "none"
    BY <1>3, <1>4, ResolvedIs
  <1>6. /\ no \in BOOLEAN /\ ~no /\ 4 \in 0..4 /\ then \in Thens /\ kind \in AskKinds
        /\ kind \in {"save", "propose"}
    BY DEF Thens, AskKinds
  <1> HIDE DEF no, new, kind, then
  <1>7. /\ a \in AnyAsk /\ a.narrow = no /\ a.kind = kind /\ a.new = new /\ a.q = editor.sel
        /\ JustAsked(a)
    BY <1>1, <1>4, <1>5, <1>6, NewAskFields
  <1> HIDE DEF a
  <1>8. new.pic = "raw" => editor.sel \in excused' \/ stored = "deleted"
    <2> SUFFICES ASSUME new.pic = "raw", stored # "deleted", ~editor.lapse PROVE editor.sel \in excused'
      BY <1>2
    <2>1. Mentions(editor) /\ ~editor.known
      BY <1>3, <1>5
    <2>2. ListsAsked(asks) # {}
      BY <1>4, <2>1 DEF ListKnown
    <2>3. ListPending
      BY <2>2 DEF ListsAsked, ListPending
    <2> QED BY <1>2, <2>3
  <1>9. stored = "never" => new.pic = "none"
    BY <1>3, <1>4, <1>5 DEF DeskSound
  <1>10. KeyFor(a.q, a.new.options)
    BY <1>3, <1>5, <1>7, SureFor
  <1>11. /\ ~a.narrow /\ a.kind # "add" /\ a.kind # "list" /\ a.kind # "load" /\ a.new.pic = new.pic
    BY <1>6, <1>7
  <1>12. AskSound(a, stored, excused')
    BY <1>4, <1>7, <1>8, <1>9, <1>10, <1>11, AskedSound
  <1> QED BY <1>1, <1>2, <1>7, <1>11, <1>12, AskSent

(***************************************************************************)
(* An editor is put into the page and taken from it.                        *)
(***************************************************************************)
\* The editor of a copy of the test, before its list came.
Seated(e, view, open, sel, n) ==
  [e EXCEPT !.open = open, !.view = view, !.sel = sel, !.panel = n]

LEMMA SeatedFields ==
  ASSUME NEW e \in AnyEditor, NEW view \in AnyBank, NEW open \in BOOLEAN, NEW sel \in 0..MaxIds,
         NEW n \in 0..4
  PROVE  LET f == Seated(e, view, open, sel, n) IN
         /\ f \in AnyEditor /\ f.view = view /\ f.draft = e.draft /\ f.form = e.form
         /\ f.field = e.field /\ f.known = e.known /\ f.lapse = e.lapse
  BY DEF AnyEditor, Seated

LEMMA NoEditorFacts ==
  /\ NoEditor \in AnyEditor /\ NoEditor.view = <<>> /\ NoEditor.draft = <<>> /\ ~NoEditor.field
  /\ ~NoEditor.known /\ ~NoEditor.lapse /\ ~Mentions(NoEditor)
  <1> DEFINE no == FALSE
             none == <<>>
             zero == 0
             f == [open |-> no, view |-> none, sel |-> zero, draft |-> none, form |-> no,
                   field |-> no, known |-> no, lapse |-> no, panel |-> zero]
  <1>1. /\ no \in BOOLEAN /\ ~no /\ none \in AnyDraft /\ none \in AnyBank /\ none = <<>> /\ Plain(none)
        /\ zero \in 0..4 /\ zero \in 0..MaxIds
    BY DraftIs, NoBank, EditorBounds
  <1>2. NoEditor = f
    BY DEF NoEditor
  <1> HIDE DEF no, none, zero
  <1>3. /\ f \in AnyEditor /\ f.view = none /\ f.draft = none /\ f.field = no
        /\ f.known = no /\ f.lapse = no
    BY <1>1 DEF AnyEditor
  <1> HIDE DEF f
  <1> QED BY <1>1, <1>2, <1>3 DEF Mentions, Tokened

LEMMA FreshEditor ==
  ASSUME NEW view \in AnyBank, NEW n \in 0..4, NEW open \in BOOLEAN, NEW sel \in 0..MaxIds
  PROVE  LET e == Seated(NoEditor, view, open, sel, n) IN
         /\ e \in AnyEditor /\ e.view = view /\ e.draft = <<>> /\ ~e.field /\ ~e.known /\ ~e.lapse
         /\ ~Plain(view) <=> Mentions(e)
  <1> DEFINE b == NoEditor
             f == Seated(b, view, open, sel, n)
  <1>1. b \in AnyEditor /\ b.draft = <<>> /\ ~b.field /\ ~b.known /\ ~b.lapse
    BY NoEditorFacts
  <1>2. Seated(NoEditor, view, open, sel, n) = f
    OBVIOUS
  <1> HIDE DEF b
  <1>3. /\ f \in AnyEditor /\ f.view = view /\ f.draft = b.draft /\ f.field = b.field
        /\ f.known = b.known /\ f.lapse = b.lapse
    BY <1>1, SeatedFields
  <1> HIDE DEF f
  <1>4. ~Plain(view) <=> Mentions(f)
    BY <1>1, <1>3 DEF Mentions, Tokened
  <1> QED BY <1>1, <1>2, <1>3, <1>4

LEMMA MountEditorSafe ==
  ASSUME EditorInv, NEW as \in SUBSET asks, NEW id \in 1..MaxAsks, NEW view \in AnyBank,
         BankKeyed(view), stored = "never" => Plain(view),
         MountEditor(view, as, id), UNCHANGED <<bank, stored, phone, excused>>
  PROVE  EditorInv'
  <1> DEFINE no == FALSE
             yes == TRUE
             new == Blank
             list == "list"
             then == "nothing"
             a == Ask(id, no, list, 2, 0, new, then)
             sel == IF view = <<>> THEN 0 ELSE Sets!Min(DOMAIN view)
             panel == Least(editor.panel, 1)
             e == Seated(NoEditor, view, yes, sel, panel)
             one == 1
  <1>1. /\ editor' = e /\ asks' = Left(as, one) \cup {a}
    BY DEF MountEditor, Opened, NoEditor, Seated
  <1>2. /\ bank \in AnyBank /\ stored \in Stocks /\ EditorFull /\ BankFine(bank, stored, excused)
        /\ as \in SUBSET AnyAsk /\ \A b \in as : AskSound(b, stored, excused)
    BY DEF EditorInv, EditorFull
  <1>3. /\ no \in BOOLEAN /\ ~no /\ yes \in BOOLEAN /\ new = Blank /\ new \in Question
        /\ list = "list" /\ list \in AskKinds /\ then \in Thens /\ then # "insert"
        /\ 2 \in 0..4 /\ 0 \in 0..MaxIds /\ one \in 0..4 /\ one < 2
    BY BlankFacts, EditorBounds DEF AskKinds, Thens
  <1>4. sel \in 0..MaxIds
    <2>1. CASE view = <<>>
      BY <1>3, <2>1
    <2>2. CASE view # <<>>
      <3> DEFINE S == DOMAIN view
      <3>1. S \in SUBSET (0..MaxIds) /\ S # {}
        BY <2>2, BankOf, NoBank, EditorBounds
      <3> QED BY <2>2, <3>1, Extremes
    <2> QED BY <2>1, <2>2
  <1>5. panel \in 0..4
    BY EditorFields DEF Least, EditorInv, EditorFull
  <1> HIDE DEF no, yes, new, list, then, sel, panel, one
  <1>6. /\ e \in AnyEditor /\ e.view = view /\ e.draft = <<>> /\ ~e.field /\ ~e.known /\ ~e.lapse
        /\ ~Plain(view) <=> Mentions(e)
    BY <1>3, <1>4, <1>5, FreshEditor
  <1> HIDE DEF e
  <1>7. /\ a \in AnyAsk /\ a.narrow = no /\ a.kind = list /\ a.to = 2 /\ a.new = new /\ a.then = then
        /\ JustAsked(a)
    BY <1>2, <1>3, AskFields
  <1> HIDE DEF a
  <1>8. AskSound(a, stored, excused)
    <2>1. ~a.narrow /\ a.kind # "save" /\ a.kind # "add" /\ a.kind # "load" /\ a.new.pic = "none" /\ a.then # "insert"
      BY <1>3, <1>7, BlankFacts
    <2> QED BY <1>2, <1>7, <2>1, AskedSound
  <1>9. /\ Left(as, one) \in SUBSET AnyAsk /\ \A b \in Left(as, one) : AskSound(b, stored, excused)
        /\ ListsAsked(Left(as, one)) = {}
    BY <1>2, <1>3, LowerSound
  <1>10. ListsAsked(asks') = {a}
    <2>1. a \in ListsAsked(asks')
      BY <1>1, <1>3, <1>7 DEF ListsAsked
    <2>2. ListsAsked(asks') \subseteq ListsAsked(Left(as, one)) \cup {a}
      BY <1>1 DEF ListsAsked
    <2> QED BY <1>9, <2>1, <2>2
  <1>11. ListKnown(e, asks', stored)
    <2>1. a.was.stored = stored
      BY <1>3, <1>7 DEF JustAsked
    <2> QED BY <1>6, <1>10, <2>1 DEF ListKnown
  <1>12. DeskSound(e, stored)
    BY <1>6 DEF DeskSound
  <1>13. asks' \in SUBSET AnyAsk /\ \A b \in asks' : AskSound(b, stored, excused)
    BY <1>1, <1>7, <1>8, <1>9
  <1> QED BY <1>1, <1>6, <1>11, <1>12, <1>13 DEF EditorInv, EditorFull

LEMMA OpenQuestionsSafe == ASSUME EditorInv, OpenQuestions PROVE EditorInv'
  <1> DEFINE id == CHOOSE i \in FreeIds : TRUE
  <1>1. id \in 1..MaxAsks
    BY DEF OpenQuestions, FreeIds
  <1>2. MountEditor(bank, asks, id) /\ UNCHANGED <<bank, stored, phone, excused>>
    BY DEF OpenQuestions
  <1>3. bank \in AnyBank /\ BankKeyed(bank) /\ (stored = "never" => Plain(bank))
    BY DEF EditorInv, EditorFull, BankFine
  <1> HIDE DEF id
  <1> QED BY <1>1, <1>2, <1>3, MountEditorSafe

\* Another page is put into the root.
LEMMA LeaveEditorSafe ==
  ASSUME EditorInv, LeaveEditor, UNCHANGED <<bank, stored, phone, excused>> PROVE EditorInv'
  <1>1. editor' = NoEditor /\ asks' = Left(asks, 0)
    BY DEF LeaveEditor
  <1>2. asks \in SUBSET AnyAsk /\ (\A a \in asks : AskSound(a, stored, excused)) /\ 0 \in 0..4
    BY DEF EditorInv, EditorFull
  <1>3. /\ asks' \in SUBSET AnyAsk /\ \A a \in asks' : AskSound(a, stored, excused)
        /\ ListsAsked(asks') = {}
    BY <1>1, <1>2, LowerSound
  <1>4. ListKnown(editor', asks', stored)
    BY <1>1, <1>3, NoEditorFacts DEF ListKnown
  <1>5. DeskSound(editor', stored) /\ editor' \in AnyEditor
    BY <1>1, NoEditorFacts, NoBank DEF DeskSound
  <1> QED BY <1>1, <1>3, <1>4, <1>5 DEF EditorInv, EditorFull

LEMMA LeaveQuestionsSafe == ASSUME EditorInv, LeaveQuestions PROVE EditorInv'
  BY LeaveEditorSafe DEF LeaveQuestions

(***************************************************************************)
(* The answers.                                                            *)
(***************************************************************************)
\* A request that is over, done or not, and of which the editor needs nothing.
LEMMA AskGone ==
  ASSUME EditorInv, NEW a \in asks, a.kind # "list", asks' = asks \ {a},
         bank' \in AnyBank, stored' \in Stocks, Later(stored, stored'),
         BankFine(bank', stored', excused),
         phone' \in AnyPhone, PhoneSound(phone', stored'), UNCHANGED <<editor, excused>>
  PROVE  EditorInv'
  <1>1. /\ \A b \in asks : b \in AnyAsk /\ AskSound(b, stored', excused)
        /\ DeskSound(editor, stored') /\ ListKnown(editor, asks, stored')
    BY Outlives DEF EditorInv, EditorFull
  <1>2. ListsAsked(asks') = ListsAsked(asks)
    BY DEF ListsAsked
  <1>3. ListKnown(editor', asks', stored')
    BY <1>1, <1>2, SameLists
  <1> QED BY <1>1, <1>3 DEF EditorInv, EditorFull

\* Done or not, when the answer is lost.
LEMMA Failed ==
  ASSUME EditorInv, NEW a \in asks, a.kind # "list", asks' = asks \ {a},
         UNCHANGED <<bank, stored>> \/ Effect(a), UNCHANGED <<editor, phone, excused>>
  PROVE  EditorInv'
  <1>1. /\ bank' \in AnyBank /\ stored' \in Stocks /\ Later(stored, stored')
        /\ BankFine(bank', stored', excused)
    <2>1. CASE UNCHANGED <<bank, stored>>
      BY <2>1 DEF EditorInv, EditorFull, Later
    <2>2. CASE Effect(a)
      BY <2>2, EffectSound
    <2> QED BY <2>1, <2>2
  <1>2. phone' \in AnyPhone /\ PhoneSound(phone', stored')
    BY <1>1, Outlives DEF EditorInv, EditorFull
  <1> QED BY <1>1, <1>2, AskGone

LEMMA AskFailedSafe == ASSUME EditorInv, NEW a \in asks, AskFailed(a) PROVE EditorInv'
  BY Failed DEF AskFailed, Unmoved

LEMMA PhoneFailedSafe == ASSUME EditorInv, NEW a \in asks, PhoneFailed(a) PROVE EditorInv'
  <1>1. a.kind # "list"
    BY DEF PhoneFailed, EditorInv, AskSound
  <1> QED BY <1>1, Failed DEF PhoneFailed

LEMMA QuestionMissingSafe == ASSUME EditorInv, NEW a \in asks, QuestionMissing(a) PROVE EditorInv'
  BY Failed DEF QuestionMissing

LEMMA ReloadedSafe == ASSUME EditorInv, NEW a \in asks, Reloaded(a) PROVE EditorInv'
  <1>1. a.kind = "reload" /\ UNCHANGED <<bank, stored, phone, excused>>
    BY DEF Reloaded, Unmoved
  <1>2. PICK view \in {a.was.bank, bank} :
          IF a.to = 1 THEN MountEditor(view, asks \ {a}, a.id)
          ELSE UNCHANGED editor /\ asks' = asks \ {a}
    BY DEF Reloaded
  <1>3. /\ a \in AnyAsk /\ AskSound(a, stored, excused) /\ bank \in AnyBank
        /\ BankFine(bank, stored, excused)
    BY DEF EditorInv, EditorFull
  <1>4. a.id \in 1..MaxAsks /\ a.was.bank \in AnyBank
    BY <1>3 DEF AnyAsk, AnyWas
  <1>5. view \in AnyBank /\ BankKeyed(view) /\ (stored = "never" => Plain(view))
    BY <1>2, <1>3, <1>4 DEF AskSound, BankFine
  <1>6. CASE a.to = 1
    <2> DEFINE as == asks \ {a}
               id == a.id
    <2>1. as \in SUBSET asks /\ id \in 1..MaxAsks /\ MountEditor(view, as, id)
      BY <1>2, <1>4, <1>6
    <2> HIDE DEF as, id
    <2> QED BY <1>1, <1>5, <2>1, MountEditorSafe
  <1>7. CASE a.to # 1
    BY <1>1, <1>2, <1>7, Failed
  <1> QED BY <1>6, <1>7

\* The test is asked for again.
LEMMA ReloadsSound ==
  ASSUME EditorInv, NEW a \in asks,
         bank' \in AnyBank, stored' \in Stocks, Later(stored, stored'), BankFine(bank', stored', excused)
  PROVE  \A r \in Reloads(a) : r \in AnyAsk /\ AskSound(r, stored', excused) /\ r.kind = "reload"
  <1> DEFINE no == FALSE
             new == Blank
             reload == "reload"
             then == "nothing"
             zero == 0
             id == a.id
             c == Ask(id, no, reload, 1, zero, new, then)
             b == bank'
             r == BankRead(c, b)
  <1>1. \A s \in Reloads(a) : s = r
    BY DEF Reloads, BankRead
  <1>2. /\ bank \in AnyBank /\ stored \in Stocks /\ id \in 1..MaxAsks
    BY DEF EditorInv, EditorFull, AnyAsk
  <1>3. /\ no \in BOOLEAN /\ ~no /\ new \in Question /\ reload \in AskKinds /\ then \in Thens
        /\ 1 \in 0..4 /\ zero \in 0..MaxIds /\ new.pic = "none" /\ reload = "reload" /\ b \in AnyBank
        /\ BankKeyed(b) /\ (stored' = "never" => Plain(b))
    BY BlankFacts, EditorBounds DEF AskKinds, Thens, BankFine
  <1> HIDE DEF no, new, reload, then, id, zero
  <1>4. /\ c \in AnyAsk /\ c.narrow = no /\ c.kind = reload /\ c.new = new /\ JustAsked(c)
    BY <1>2, <1>3, AskFields
  <1> HIDE DEF c, b
  <1>5. /\ r \in AnyAsk /\ r.narrow = no /\ r.kind = reload /\ r.new = new /\ r.was.bank = b
        /\ r.was.stored = c.was.stored
    BY <1>3, <1>4, BankReread
  <1>6. c.was.stored = "never"
    BY <1>3, <1>4 DEF JustAsked
  <1> HIDE DEF r
  <1>7. AskSound(r, stored', excused)
    BY <1>3, <1>5, <1>6 DEF AskSound
  <1> QED BY <1>1, <1>3, <1>5, <1>7

\* What the answer leaves of the other requests.
LEMMA RestSound ==
  ASSUME EditorInv, NEW a \in asks, a.kind # "list", NEW to \in 2..4, Later(stored, stored'),
         NEW more, \A r \in more : r \in AnyAsk /\ AskSound(r, stored', excused) /\ r.kind = "reload",
         asks' = Left(asks \ {a}, to) \cup more \/ asks' = (asks \ {a}) \cup more
  PROVE  /\ asks' \in SUBSET AnyAsk /\ \A b \in asks' : AskSound(b, stored', excused)
         /\ \A e : ListKnown(e, asks, stored) => ListKnown(e, asks', stored')
  <1> DEFINE as == asks \ {a}
  <1>1. /\ as \in SUBSET AnyAsk /\ \A b \in as : AskSound(b, stored, excused)
    BY DEF EditorInv, EditorFull
  <1>2. to \in 0..4 /\ to >= 2
    OBVIOUS
  <1>3. ListsAsked(as) = ListsAsked(asks)
    BY DEF ListsAsked
  <1> HIDE DEF as
  <1>4. PICK left \in {as, Left(as, to)} : asks' = left \cup more
    BY DEF as
  <1>5. /\ left \in SUBSET AnyAsk /\ \A b \in left : AskSound(b, stored, excused)
        /\ \A e : ListKnown(e, as, stored) => ListKnown(e, left, stored)
    <2>1. CASE left = as
      BY <1>1, <2>1
    <2>2. CASE left = Left(as, to)
      BY <1>1, <1>2, <2>2, LowerSound
    <2> QED BY <2>1, <2>2
  <1>6. \A b \in left : AskSound(b, stored', excused)
    BY <1>5, Outlives
  <1>7. ListsAsked(asks') = ListsAsked(left)
    BY <1>4 DEF ListsAsked
  <1>8. ASSUME NEW e, ListKnown(e, asks, stored) PROVE ListKnown(e, asks', stored')
    <2>1. ListKnown(e, as, stored)
      BY <1>3, <1>8, SameLists
    <2>2. ListKnown(e, left, stored)
      BY <1>5, <2>1
    <2>3. ListKnown(e, asks', stored)
      BY <1>7, <2>2, SameLists
    <2> QED BY <2>3, Outlives
  <1> QED BY <1>4, <1>5, <1>6, <1>8

\* An answer about a question: the draft goes, and an added question is selected.
LEMMA ChangedSafe ==
  ASSUME EditorInv, NEW a \in asks, Effect(a), Changed(a), a.kind \in {"save", "propose", "add", "delete"},
         UNCHANGED <<phone, excused>>
  PROVE  EditorInv'
  <1> DEFINE none == <<>>
             to == IF a.to >= 2 THEN 2 ELSE 4
             more == Reloads(a)
             sel == Sets!Max(DOMAIN bank')
             c == [editor EXCEPT !.draft = none]
             s == [editor EXCEPT !.sel = sel]
             d == [editor EXCEPT !.sel = sel, !.draft = none]
  <1>1. /\ bank' \in AnyBank /\ stored' \in Stocks /\ Later(stored, stored')
        /\ BankFine(bank', stored', excused) /\ (a.kind = "add" => DOMAIN bank' # {})
    BY EffectSound
  <1>2. \A r \in more : r \in AnyAsk /\ AskSound(r, stored', excused) /\ r.kind = "reload"
    BY <1>1, ReloadsSound
  <1>3. to \in 2..4 /\ none \in AnyDraft /\ none = <<>>
    BY DraftIs
  <1>4. asks' = Left(asks \ {a}, to) \cup more \/ asks' = (asks \ {a}) \cup more
    <2>1. CASE a.kind \in {"save", "propose"}
      BY <2>1 DEF Changed, Relists
    <2>2. CASE a.kind = "add"
      BY <2>2 DEF Changed, Relists
    <2>3. CASE a.kind = "delete"
      BY <2>3 DEF Changed, Relists
    <2> QED BY <2>1, <2>2, <2>3
  <1>5. \/ editor' = editor
        \/ editor' = c
        \/ a.kind = "add" /\ editor' = d
    <2>1. CASE a.kind \in {"save", "propose"}
      BY <2>1 DEF Changed, Relists
    <2>2. CASE a.kind = "add"
      BY <2>2 DEF Changed, Relists
    <2>3. CASE a.kind = "delete"
      BY <2>3 DEF Changed, Relists
    <2> QED BY <2>1, <2>2, <2>3
  <1>6. editor \in AnyEditor /\ DeskSound(editor, stored) /\ ListKnown(editor, asks, stored)
    BY DEF EditorInv, EditorFull
  <1>7. a.kind = "add" => sel \in 0..MaxIds
    <2> DEFINE S == DOMAIN bank'
    <2>1. a.kind = "add" => S \in SUBSET (0..MaxIds) /\ S # {}
      BY <1>1, BankOf, EditorBounds
    <2> QED BY <2>1, Extremes
  <1> HIDE DEF none, to, more, sel
  <1>8. c \in AnyEditor /\ c.view = editor.view /\ c.draft = none /\ c.field = editor.field /\ c.known = editor.known /\ c.lapse = editor.lapse
    BY <1>3, <1>6, DraftEditor
  <1>9. a.kind = "add" => d \in AnyEditor /\ d.view = editor.view /\ d.draft = none /\ d.field = editor.field /\ d.known = editor.known /\ d.lapse = editor.lapse
    <2> SUFFICES ASSUME a.kind = "add" PROVE d \in AnyEditor /\ d.view = editor.view /\ d.draft = none /\ d.field = editor.field /\ d.known = editor.known /\ d.lapse = editor.lapse
      OBVIOUS
    <2>1. sel \in 0..MaxIds
      BY <1>7
    <2>2. s \in AnyEditor /\ s.view = editor.view /\ s.field = editor.field /\ s.known = editor.known /\ s.lapse = editor.lapse
      BY <1>6, <2>1, SelFields
    <2>3. d = [s EXCEPT !.draft = none]
      BY <1>6 DEF AnyEditor
    <2> HIDE DEF s, d
    <2> QED BY <1>3, <2>2, <2>3, DraftEditor
  <1> HIDE DEF c, d, s
  <1>10. /\ editor' \in AnyEditor /\ editor'.view = editor.view /\ editor'.known = editor.known
         /\ editor'.lapse = editor.lapse /\ editor'.field = editor.field
         /\ editor'.draft = editor.draft \/ editor'.draft = <<>>
    BY <1>3, <1>5, <1>6, <1>8, <1>9
  <1>11. Mentions(editor') => Mentions(editor)
    BY <1>10 DEF Mentions, Tokened
  <1>12. DeskSound(editor', stored)
    BY <1>6, <1>10, <1>11 DEF DeskSound
  <1>13. ListKnown(editor', asks, stored)
    BY <1>6, <1>10, <1>11, SaidLess
  <1>14. /\ asks' \in SUBSET AnyAsk /\ \A b \in asks' : AskSound(b, stored', excused)
         /\ ListKnown(editor', asks', stored')
    BY <1>1, <1>2, <1>3, <1>4, <1>13, RestSound
  <1>15. DeskSound(editor', stored') /\ PhoneSound(phone, stored') /\ phone \in AnyPhone
    BY <1>1, <1>12, Outlives DEF EditorInv, EditorFull
  <1> QED BY <1>1, <1>10, <1>14, <1>15 DEF EditorInv, EditorFull

\* The list is asked for again after an upload or a deletion.
LEMMA RelistedSafe ==
  ASSUME EditorInv, NEW a \in asks, Effect(a), Changed(a), a.kind \in {"upload", "discard"},
         UNCHANGED <<phone, excused>>
  PROVE  EditorInv'
  <1> DEFINE no == FALSE
             new == Blank
             list == "list"
             zero == 0
             then == a.then
             to == a.to
             id == a.id
             c == Ask(id, no, list, to, zero, new, then)
             s == stored'
             r == StoredRead(c, s)
             lapse == editor.lapse \/ (a.to >= 2 /\ ListPending)
             e == [editor EXCEPT !.lapse = lapse]
  <1>1. /\ bank' \in AnyBank /\ stored' \in Stocks /\ Later(stored, stored')
        /\ BankFine(bank', stored', excused) /\ stored' # "never"
    BY EffectSound
  <1>2. editor' = e /\ asks' = (asks \ {a}) \cup {r}
    BY DEF Changed, Relists, StoredRead
  <1>3. /\ bank \in AnyBank /\ stored \in Stocks /\ a \in AnyAsk /\ editor \in AnyEditor
        /\ DeskSound(editor, stored) /\ ListKnown(editor, asks, stored)
        /\ \A b \in asks : b \in AnyAsk /\ AskSound(b, stored, excused)
        /\ phone \in AnyPhone /\ PhoneSound(phone, stored)
    BY DEF EditorInv, EditorFull
  <1>4. /\ id \in 1..MaxAsks /\ to \in 0..4 /\ then \in Thens /\ zero \in 0..MaxIds
        /\ no \in BOOLEAN /\ ~no /\ list \in AskKinds /\ list = "list" /\ new \in Question /\ new.pic = "none"
        /\ s \in Stocks
    BY <1>1, <1>3, BlankFacts, EditorBounds DEF AnyAsk, AskKinds
  <1>5. lapse \in BOOLEAN
    BY <1>3, EditorFields DEF ListPending
  <1> HIDE DEF no, new, list, zero, then, to, id, lapse
  <1>6. /\ c \in AnyAsk /\ c.narrow = no /\ c.kind = list /\ c.to = to /\ c.new = new /\ c.then = then
        /\ JustAsked(c)
    BY <1>3, <1>4, AskFields
  <1> HIDE DEF c, s
  <1>7. /\ r \in AnyAsk /\ r.narrow = no /\ r.kind = list /\ r.to = to /\ r.new = new /\ r.then = then
        /\ r.was.stored = s /\ r.was.bank = c.was.bank
    BY <1>4, <1>6, StoredReread
  <1>8. BankKeyed(c.was.bank)
    <2>1. c.kind \notin Reading
      BY <1>4, <1>6 DEF Reading
    <2> QED BY <1>6, <2>1 DEF JustAsked
  <1>9. s = stored'
    BY DEF s
  <1> HIDE DEF r
  <1>10. AskSound(r, stored', excused)
    BY <1>1, <1>4, <1>7, <1>8, <1>9 DEF AskSound
  <1>11. /\ e \in AnyEditor /\ e.view = editor.view /\ e.draft = editor.draft /\ e.field = editor.field
         /\ e.known = editor.known /\ e.lapse = lapse
    BY <1>3, <1>5, LapseFields
  <1> HIDE DEF e
  <1>12. Mentions(e) <=> Mentions(editor)
    BY <1>11 DEF Mentions
  <1>13. /\ \A b \in asks : AskSound(b, stored', excused)
         /\ DeskSound(editor, stored') /\ PhoneSound(phone, stored')
    BY <1>1, <1>3, Outlives
  <1>14. DeskSound(e, stored')
    BY <1>11, <1>12, <1>13 DEF DeskSound
  <1>15. ListKnown(e, asks', stored')
    <2> SUFFICES ASSUME ~e.lapse, stored' # "deleted"
                 PROVE  /\ \A x, y \in ListsAsked(asks') : x = y
                        /\ \A x \in ListsAsked(asks') : x.was.stored = "never" => ~Mentions(e) /\ ~e.known
                        /\ Mentions(e) => e.known \/ ListsAsked(asks') # {}
      BY DEF ListKnown
    <2>1. stored # "deleted" /\ ~editor.lapse
      BY <1>1, <1>11 DEF Later, lapse
    <2>2. CASE a.to >= 2
      <3>1. ~ListPending
        BY <1>11, <2>2 DEF lapse
      <3>2. ListsAsked(asks) = {}
        BY <3>1 DEF ListPending, ListsAsked
      <3>3. ListsAsked(asks') = {r}
        <4>1. r \in ListsAsked(asks')
          BY <1>2, <1>4, <1>7, <2>2 DEF ListsAsked, to
        <4>2. ListsAsked(asks') \subseteq ListsAsked(asks) \cup {r}
          BY <1>2 DEF ListsAsked
        <4> QED BY <3>2, <4>1, <4>2
      <3> QED BY <1>1, <1>7, <1>9, <3>3
    <2>3. CASE ~(a.to >= 2)
      <3>1. ListsAsked(asks') = ListsAsked(asks)
        BY <1>2, <1>7, <2>3 DEF ListsAsked, to
      <3> QED BY <1>3, <1>11, <1>12, <2>1, <3>1 DEF ListKnown
    <2> QED BY <2>2, <2>3
  <1> QED BY <1>1, <1>2, <1>3, <1>7, <1>10, <1>11, <1>13, <1>14, <1>15 DEF EditorInv, EditorFull

LEMMA EditorAnsweredSafe == ASSUME EditorInv, NEW a \in asks, EditorAnswered(a) PROVE EditorInv'
  <1>1. Effect(a) /\ Changed(a) /\ ~a.narrow /\ a.kind # "list" /\ a.kind # "reload" /\ UNCHANGED <<phone, excused>>
    BY DEF EditorAnswered, Unmoved
  <1>2. a.kind \in AskKinds /\ a.kind # "load"
    BY <1>1 DEF EditorInv, EditorFull, AnyAsk, AskSound
  <1>3. a.kind \in {"save", "propose", "add", "delete"} \/ a.kind \in {"upload", "discard"}
    BY <1>1, <1>2 DEF AskKinds
  <1> QED BY <1>1, <1>3, ChangedSafe, RelistedSafe

\* The form is built anew.
LEMMA RedrawnFields ==
  ASSUME NEW e \in AnyEditor
  PROVE  LET f == Redrawn(e) IN
         /\ f \in AnyEditor /\ f.view = e.view /\ f.draft = e.draft
         /\ f.known = e.known /\ f.lapse = e.lapse
         /\ Mentions(f) => Mentions(e)
  <1> DEFINE form == e.draft # <<>>
             field == e.draft # <<>> /\ e.draft[1].token
             n == Least(e.panel, 3)
             draft == e.draft
             g == Formed(e, draft, form, field)
             f == [g EXCEPT !.panel = n]
  <1>1. e.draft \in AnyDraft /\ e.panel \in 0..4 /\ n \in 0..4
    BY EditorFields DEF Least
  <1>2. form \in BOOLEAN /\ field \in BOOLEAN
    <2>1. e.draft # <<>> => e.draft[1].token \in BOOLEAN
      BY <1>1, DraftIs DEF Drafts
    <2> QED BY <2>1
  <1>3. Redrawn(e) = f
    BY DEF Redrawn, Formed, AnyEditor
  <1>4. draft = e.draft /\ (field <=> Tokened(e.draft))
    BY DEF Tokened
  <1> HIDE DEF form, field, n, draft
  <1>5. /\ g \in AnyEditor /\ g.view = e.view /\ g.draft = draft /\ g.field = field
        /\ g.known = e.known /\ g.lapse = e.lapse
    BY <1>1, <1>2, <1>4, FormedFields
  <1> HIDE DEF g
  <1>6. /\ f \in AnyEditor /\ f.view = g.view /\ f.draft = g.draft /\ f.field = g.field
        /\ f.known = g.known /\ f.lapse = g.lapse
    BY <1>1, <1>5, PanelFields
  <1> HIDE DEF f
  <1>7. Mentions(f) => Mentions(e)
    BY <1>4, <1>5, <1>6 DEF Mentions
  <1> QED BY <1>3, <1>4, <1>5, <1>6, <1>7

\* What follows a list leaves the editor with what it knew, but a token where one is inserted.
LEMMA FollowsFields ==
  ASSUME NEW a \in AnyAsk, NEW e \in AnyEditor, NEW as, Follows(a, e, as)
  PROVE  /\ editor' \in AnyEditor /\ editor'.view = e.view /\ editor'.known = e.known
         /\ editor'.lapse = e.lapse
         /\ editor'.draft # <<>> => e.draft # <<>> /\ editor'.draft[1].options = e.draft[1].options
         /\ Mentions(editor') => Mentions(e) \/ a.then = "insert"
         /\ a.to < 2 => editor' = e
         /\ \/ asks' = as
            \/ \E to \in {3, 4} : asks' = Left(as, to) \cup Reloads(a) \/ asks' = Left(as, to)
  <1>1. a.to \in 0..4
    BY DEF AnyAsk
  <1>2. CASE a.then = "insert"
    <2>1. editor' = Inserted(e, a.to) /\ asks' = as
      BY <1>2 DEF Follows
    <2> QED BY <1>1, <1>2, <2>1, InsertedFields
  <1>3. CASE a.then = "nothing"
    <2>1. editor' = e /\ asks' = as
      BY <1>3 DEF Follows
    <2> QED BY <2>1
  <1>4. CASE a.then \notin {"insert", "nothing"}
    <2>1. /\ editor' = IF a.to >= 2 THEN Redrawn(e) ELSE e
          /\ asks' = Left(as, IF a.to >= 2 THEN 3 ELSE 4)
                      \cup (IF a.then = "reload" THEN Reloads(a) ELSE {})
      BY <1>4 DEF Follows
    <2> DEFINE m == IF a.to >= 2 THEN 3 ELSE 4
    <2>2. m \in {3, 4} /\ (asks' = Left(as, m) \cup Reloads(a) \/ asks' = Left(as, m))
      BY <2>1
    <2> HIDE DEF m
    <2>3. CASE a.to >= 2
      <3>1. editor' = Redrawn(e)
        BY <2>1, <2>3
      <3> DEFINE f == Redrawn(e)
      <3>2. /\ f \in AnyEditor /\ f.view = e.view /\ f.draft = e.draft
            /\ f.known = e.known /\ f.lapse = e.lapse
            /\ Mentions(f) => Mentions(e)
        BY RedrawnFields
      <3>3. editor' = f
        BY <3>1
      <3> HIDE DEF f
      <3>4. ~(a.to < 2)
        BY <1>1, <2>3
      <3>5. /\ editor'.draft # <<>> => e.draft # <<>> /\ editor'.draft[1].options = e.draft[1].options
            /\ editor' \in AnyEditor /\ editor'.view = e.view /\ editor'.known = e.known
            /\ editor'.lapse = e.lapse /\ (Mentions(editor') => Mentions(e))
        BY <3>2, <3>3
      <3> QED BY <2>2, <3>4, <3>5
    <2>4. CASE ~(a.to >= 2)
      <3>1. editor' = e
        BY <2>1, <2>4
      <3> QED BY <2>2, <3>1
    <2> QED BY <2>3, <2>4
  <1> QED BY <1>2, <1>3, <1>4

\* The list is there, or failed; only the open editor hears of it.
LEMMA FollowsSafe ==
  ASSUME EditorInv, NEW a \in asks, a.kind = "list", NEW e \in AnyEditor,
         e.view = editor.view, e.draft = editor.draft, e.field = editor.field,
         a.to < 2 => e = editor,
         a.to >= 2 /\ ~e.lapse => /\ ~editor.lapse
                                  /\ stored # "deleted" =>
                                       e.known \/ (a.then # "insert" /\ ~Mentions(editor)),
         Follows(a, e, asks \ {a}), UNCHANGED <<bank, stored, phone, excused>>
  PROVE  EditorInv'
  <1> DEFINE as == asks \ {a}
  <1>1. /\ bank \in AnyBank /\ stored \in Stocks /\ editor \in AnyEditor /\ a \in AnyAsk
        /\ AskSound(a, stored, excused) /\ BankFine(bank, stored, excused)
        /\ DeskSound(editor, stored) /\ ListKnown(editor, asks, stored)
        /\ as \in SUBSET AnyAsk /\ \A b \in as : AskSound(b, stored, excused)
    BY DEF EditorInv, EditorFull
  <1>2. a.to \in 0..4
    BY <1>1 DEF AnyAsk
  <1>3. Follows(a, e, as)
    OBVIOUS
  <1> HIDE DEF as
  <1>4. /\ editor' \in AnyEditor /\ editor'.view = e.view /\ editor'.known = e.known
        /\ editor'.lapse = e.lapse
        /\ editor'.draft # <<>> => e.draft # <<>> /\ editor'.draft[1].options = e.draft[1].options
        /\ Mentions(editor') => Mentions(e) \/ a.then = "insert"
        /\ a.to < 2 => editor' = e
        /\ \/ asks' = as
           \/ \E to \in {3, 4} : asks' = Left(as, to) \cup Reloads(a) \/ asks' = Left(as, to)
    BY <1>1, <1>3, FollowsFields
  <1>5. Mentions(e) <=> Mentions(editor)
    BY DEF Mentions
  <1>6. a.then = "insert" => a.was.stored # "never" /\ stored # "never"
    BY <1>1 DEF AskSound
  <1>7. DeskSound(editor', stored)
    BY <1>1, <1>4, <1>5, <1>6 DEF DeskSound
  <1>8. ListKnown(editor', as, stored)
    <2>1. CASE a.to < 2
      <3>1. ListsAsked(as) = ListsAsked(asks)
        BY <1>2, <2>1 DEF ListsAsked, as
      <3> QED BY <1>1, <1>4, <2>1, <3>1, SameLists
    <2>2. CASE a.to >= 2
      <3> SUFFICES ASSUME ~editor'.lapse, stored # "deleted"
                   PROVE  ListsAsked(as) = {} /\ (Mentions(editor') => editor'.known)
        BY DEF ListKnown
      <3>1. ~editor.lapse /\ (e.known \/ (a.then # "insert" /\ ~Mentions(editor)))
        BY <1>4, <2>2
      <3>2. \A x, y \in ListsAsked(asks) : x = y
        BY <1>1, <3>1 DEF ListKnown
      <3>3. a \in ListsAsked(asks)
        BY <2>2 DEF ListsAsked
      <3>4. ListsAsked(as) = {}
        BY <3>2, <3>3 DEF ListsAsked, as
      <3>5. (Mentions(editor') => Mentions(editor) \/ a.then = "insert") /\ editor'.known = e.known
        BY <1>4, <1>5
      <3>6. Mentions(editor') => editor'.known
        <4>1. CASE e.known
          BY <3>5, <4>1
        <4>2. CASE a.then # "insert" /\ ~Mentions(editor)
          BY <3>5, <4>2
        <4> QED BY <3>1, <4>1, <4>2
      <3> QED BY <3>4, <3>6
    <2>3. a.to < 2 \/ a.to >= 2
      BY ONLY <1>2
    <2> QED BY <2>1, <2>2, <2>3
  <1>9. \A r \in Reloads(a) : r \in AnyAsk /\ AskSound(r, stored, excused) /\ r.kind = "reload"
    <2>1. /\ bank' \in AnyBank /\ stored' \in Stocks /\ Later(stored, stored')
          /\ BankFine(bank', stored', excused)
      BY <1>1 DEF Later
    <2> QED BY <2>1, ReloadsSound
  <1>10. PICK left, more : /\ asks' = left \cup more /\ more \in {{}, Reloads(a)}
                           /\ left = as \/ \E to \in {3, 4} : left = Left(as, to)
    <2>1. CASE asks' = as
      <3>1. asks' = as \cup {}
        BY <2>1
      <3> QED BY <3>1
    <2>2. CASE \E to \in {3, 4} : asks' = Left(as, to) \cup Reloads(a) \/ asks' = Left(as, to)
      <3>1. PICK to \in {3, 4} : asks' = Left(as, to) \cup Reloads(a) \/ asks' = Left(as, to) \cup {}
        BY <2>2
      <3> QED BY <3>1
    <2> QED BY <1>4, <2>1, <2>2
  <1>11. /\ left \in SUBSET AnyAsk /\ \A b \in left : AskSound(b, stored, excused)
         /\ ListKnown(editor', left, stored)
    <2>1. CASE left = as
      BY <1>1, <1>8, <2>1
    <2>2. ASSUME NEW to \in {3, 4}, left = Left(as, to)
          PROVE  /\ left \in SUBSET AnyAsk /\ \A b \in left : AskSound(b, stored, excused)
                 /\ ListKnown(editor', left, stored)
      <3>1. to \in 0..4 /\ to >= 2
        OBVIOUS
      <3> QED BY <1>1, <1>8, <2>2, <3>1, LowerSound
    <2> QED BY <1>10, <2>1, <2>2
  <1>12. ListsAsked(asks') = ListsAsked(left)
    BY <1>9, <1>10 DEF ListsAsked
  <1>13. ListKnown(editor', asks', stored)
    BY <1>11, <1>12, SameLists
  <1>14. asks' \in SUBSET AnyAsk /\ \A b \in asks' : AskSound(b, stored, excused)
    BY <1>9, <1>10, <1>11
  <1> QED BY <1>1, <1>4, <1>7, <1>13, <1>14 DEF EditorInv, EditorFull

LEMMA MaterialsListedSafe == ASSUME EditorInv, NEW a \in asks, MaterialsListed(a) PROVE EditorInv'
  <1>1. PICK seen \in {a.was.stored, stored} :
          Follows(a, IF a.to >= 2 THEN [editor EXCEPT !.known = (seen = "stored")] ELSE editor,
                  asks \ {a})
    BY DEF MaterialsListed
  <1>2. a.kind = "list" /\ UNCHANGED <<bank, stored, phone, excused>>
    BY DEF MaterialsListed, Unmoved
  <1>3. /\ editor \in AnyEditor /\ a \in AnyAsk /\ AskSound(a, stored, excused) /\ stored \in Stocks
        /\ ListKnown(editor, asks, stored)
    BY DEF EditorInv, EditorFull
  <1>4. a.was.stored \in Stocks /\ a.to \in 0..4
    BY <1>3 DEF AnyAsk, AnyWas
  <1> DEFINE known == (seen = "stored")
             k == [editor EXCEPT !.known = known]
             e == IF a.to >= 2 THEN k ELSE editor
  <1>5. Follows(a, e, asks \ {a})
    BY <1>1
  <1>6. known \in BOOLEAN
    OBVIOUS
  <1>7. a.to >= 2 /\ ~editor.lapse /\ stored # "deleted" =>
          known \/ (a.then # "insert" /\ ~Mentions(editor))
    <2> SUFFICES ASSUME a.to >= 2, ~editor.lapse, stored # "deleted", a.was.stored # "stored" \/ stored # "stored"
                 PROVE  known \/ (a.then # "insert" /\ ~Mentions(editor))
      BY <1>1
    <2>1. a.was.stored = "never"
      BY <1>3, <1>4 DEF AskSound, Stocks
    <2>2. a.then # "insert"
      BY <1>2, <1>3, <2>1 DEF AskSound
    <2>3. a \in ListsAsked(asks)
      BY <1>2 DEF ListsAsked
    <2>4. ~Mentions(editor)
      BY <1>3, <2>1, <2>3 DEF ListKnown
    <2> QED BY <2>2, <2>4
  <1> HIDE DEF known
  <1>8. /\ k \in AnyEditor /\ k.view = editor.view /\ k.draft = editor.draft /\ k.field = editor.field
        /\ k.known = known /\ k.lapse = editor.lapse
    BY <1>3, <1>6, KnownFields
  <1> HIDE DEF k
  <1>9. /\ e \in AnyEditor /\ e.view = editor.view /\ e.draft = editor.draft /\ e.field = editor.field
        /\ a.to < 2 => e = editor
        /\ a.to >= 2 => e.known = known /\ e.lapse = editor.lapse
    BY <1>3, <1>4, <1>8
  <1> HIDE DEF e
  <1>10. a.to >= 2 /\ ~e.lapse => /\ ~editor.lapse
                                  /\ stored # "deleted" =>
                                       e.known \/ (a.then # "insert" /\ ~Mentions(editor))
    BY <1>7, <1>9
  <1> QED BY <1>2, <1>5, <1>9, <1>10, FollowsSafe

LEMMA ListFailedSafe == ASSUME EditorInv, NEW a \in asks, ListFailed(a) PROVE EditorInv'
  <1> DEFINE yes == TRUE
             k == [editor EXCEPT !.lapse = yes]
             e == IF a.to >= 2 THEN k ELSE editor
  <1>1. a.kind = "list" /\ Follows(a, e, asks \ {a}) /\ UNCHANGED <<bank, stored, phone, excused>>
    BY DEF ListFailed, Unmoved
  <1>2. editor \in AnyEditor /\ a \in AnyAsk /\ a.to \in 0..4 /\ yes \in BOOLEAN /\ yes
    BY DEF EditorInv, EditorFull, AnyAsk
  <1> HIDE DEF yes
  <1>3. /\ k \in AnyEditor /\ k.view = editor.view /\ k.draft = editor.draft /\ k.field = editor.field
        /\ k.lapse = yes
    BY <1>2, LapseFields
  <1> HIDE DEF k
  <1>4. /\ e \in AnyEditor /\ e.view = editor.view /\ e.draft = editor.draft /\ e.field = editor.field
        /\ a.to < 2 => e = editor
        /\ a.to >= 2 => e.lapse
    <2>1. CASE a.to >= 2
      <3>1. e = k /\ ~(a.to < 2)
        BY <1>2, <2>1
      <3> HIDE DEF e
      <3> QED BY <1>2, <1>3, <3>1
    <2>2. CASE ~(a.to >= 2)
      <3>1. e = editor
        BY <2>2
      <3> HIDE DEF e
      <3> QED BY <1>2, <2>2, <3>1
    <2> QED BY <2>1, <2>2
  <1> HIDE DEF e
  <1> QED BY <1>1, <1>4, FollowsSafe

(***************************************************************************)
(* The phone's question screen.                                             *)
(***************************************************************************)
LEMMA PhoneFields ==
  ASSUME NEW p \in AnyPhone
  PROVE  p.q \in 1..MaxIds /\ p.q \in 0..MaxIds /\ p.view \in Question /\ p.draft \in AnyDraft
  <1>1. p.q \in 1..MaxIds /\ p.view \in Question /\ p.draft \in AnyDraft
    BY DEF AnyPhone
  <1> QED BY <1>1, EditorBounds

\* The screen of a question.
Shows(p, open, q, view) == [p EXCEPT !.open = open, !.q = q, !.view = view]

LEMMA ShowsFields ==
  ASSUME NEW p \in AnyPhone, NEW open \in BOOLEAN, NEW q \in 1..MaxIds, NEW view \in Question
  PROVE  LET r == Shows(p, open, q, view) IN
         r \in AnyPhone /\ r.q = q /\ r.view = view /\ r.draft = p.draft
  BY DEF AnyPhone, Shows

LEMMA PhoneDraft ==
  ASSUME NEW p \in AnyPhone, NEW draft \in AnyDraft
  PROVE  LET r == [p EXCEPT !.draft = draft] IN
         r \in AnyPhone /\ r.q = p.q /\ r.view = p.view /\ r.draft = draft
  BY DEF AnyPhone

LEMMA NoPhoneFacts ==
  /\ NoPhone \in AnyPhone /\ NoPhone.view = Blank /\ NoPhone.draft = <<>> /\ NoPhone.q = 1
  /\ PhoneSound(NoPhone, stored)
  <1> DEFINE no == FALSE
             none == <<>>
             one == 1
             blank == Blank
             p == [open |-> no, q |-> one, view |-> blank, draft |-> none]
  <1>1. /\ no \in BOOLEAN /\ none \in AnyDraft /\ none = <<>> /\ one \in 1..MaxIds /\ blank \in Question
        /\ blank.pic = "none" /\ KeyFor(one, blank.options)
    BY DraftIs, BlankFacts, SureFor, EditorBounds
  <1>2. NoPhone = p /\ blank = Blank /\ one = 1
    BY DEF NoPhone
  <1> HIDE DEF no, none, one, blank
  <1>3. p \in AnyPhone /\ p.q = one /\ p.view = blank /\ p.draft = none
    BY <1>1 DEF AnyPhone
  <1> HIDE DEF p
  <1>4. PhoneSound(p, stored)
    BY <1>1, <1>3 DEF PhoneSound, Tokened
  <1> QED BY <1>1, <1>2, <1>3, <1>4

LEMMA PhoneTurns ==
  ASSUME EditorInv, NEW p \in AnyPhone, PhoneBecomes(p), PhoneSound(p, stored)
  PROVE  EditorInv'
  <1>1. phone' = p /\ UNCHANGED <<bank, stored, editor, asks, excused>>
    BY DEF PhoneBecomes
  <1> QED BY <1>1 DEF EditorInv, EditorFull

LEMMA PhoneHolds ==
  ASSUME EditorInv
  PROVE  /\ phone \in AnyPhone /\ PhoneSound(phone, stored) /\ phone.draft \in AnyDraft
         /\ phone.view \in Question /\ phone.view.options \in Options /\ KeyFor(phone.q, phone.view.options)
         /\ phone.draft # <<>> => /\ phone.draft[1] \in Drafts /\ phone.draft = <<phone.draft[1]>>
                                  /\ phone.draft[1].options \in Options
                                  /\ KeyFor(phone.q, phone.draft[1].options)
  <1>1. phone \in AnyPhone /\ PhoneSound(phone, stored)
    BY DEF EditorInv, EditorFull
  <1>2. phone.draft \in AnyDraft /\ phone.view \in Question
    BY <1>1, PhoneFields
  <1>3. phone.view.options \in Options
    BY <1>2 DEF Question
  <1>4. phone.draft # <<>> => phone.draft[1] \in Drafts /\ phone.draft = <<phone.draft[1]>>
    BY <1>2, DraftIs
  <1>5. phone.draft # <<>> => phone.draft[1].options \in Options
    BY <1>4 DEF Drafts
  <1> QED BY <1>1, <1>2, <1>3, <1>4, <1>5 DEF PhoneSound

\* Another draft of the same question.
LEMMA PhoneDrafts ==
  ASSUME EditorInv, NEW d \in Drafts, KeyFor(phone.q, d.options), stored = "never" => ~d.token
  PROVE  LET p == [phone EXCEPT !.draft = <<d>>] IN p \in AnyPhone /\ PhoneSound(p, stored)
  <1> DEFINE draft == <<d>>
             p == [phone EXCEPT !.draft = draft]
  <1>1. draft \in AnyDraft /\ draft # <<>> /\ draft[1] = d
    BY DraftIs
  <1>2. phone \in AnyPhone /\ PhoneSound(phone, stored)
    BY PhoneHolds
  <1> HIDE DEF draft
  <1>3. p \in AnyPhone /\ p.q = phone.q /\ p.view = phone.view /\ p.draft = draft
    BY <1>1, <1>2, PhoneDraft
  <1> HIDE DEF p
  <1>4. PhoneSound(p, stored)
    BY <1>1, <1>2, <1>3 DEF PhoneSound, Tokened
  <1> QED BY <1>3, <1>4 DEF p, draft

LEMMA PhoneEditSafe == ASSUME EditorInv, PhoneEdit PROVE EditorInv'
  <1> DEFINE v == phone.view
             o == v.options
             token == PlainText(v)
             proposal == ~owner
             d == [options |-> o, token |-> token, proposal |-> proposal]
             p == [phone EXCEPT !.draft = <<d>>]
  <1>1. PhoneBecomes(p)
    BY DEF PhoneEdit
  <1>2. /\ o \in Options /\ KeyFor(phone.q, o) /\ token \in BOOLEAN /\ proposal \in BOOLEAN
        /\ stored = "never" => ~token
    BY PhoneHolds DEF PlainText, PhoneSound
  <1> HIDE DEF v, o, token, proposal
  <1>3. d \in Drafts /\ d.options = o /\ d.token = token
    BY <1>2, MadeDraft
  <1> HIDE DEF d
  <1>4. p \in AnyPhone /\ PhoneSound(p, stored)
    BY <1>2, <1>3, PhoneDrafts
  <1> HIDE DEF p
  <1> QED BY <1>1, <1>4, PhoneTurns

LEMMA PhoneOptionsSafe == ASSUME EditorInv, PhoneOptions PROVE EditorInv'
  <1> DEFINE yes == TRUE
  <1>1. PICK d \in Edits(phone.draft[1], yes) : PhoneBecomes([phone EXCEPT !.draft = <<d>>])
    BY DEF PhoneOptions
  <1> DEFINE c == phone.draft[1]
             p == [phone EXCEPT !.draft = <<d>>]
  <1>2. c \in Drafts /\ KeyFor(phone.q, c.options) /\ (stored = "never" => ~c.token)
    BY PhoneHolds DEF PhoneOptions, PhoneSound, Tokened
  <1>3. yes \in BOOLEAN /\ d \in Edits(c, yes) /\ OneKey(c.options)
    BY <1>1, <1>2 DEF KeyFor
  <1> HIDE DEF yes, c
  <1>4. /\ d \in Drafts /\ d.token = c.token /\ OneKey(d.options)
        /\ (\E i \in DOMAIN c.options : c.options[i]) => Sure(d.options)
    BY <1>2, <1>3, EditsKeyed
  <1>5. KeyFor(phone.q, d.options) /\ (stored = "never" => ~d.token)
    BY <1>2, <1>4 DEF KeyFor, Sure
  <1>6. p \in AnyPhone /\ PhoneSound(p, stored)
    BY <1>4, <1>5, PhoneDrafts
  <1>7. PhoneBecomes(p)
    BY <1>1
  <1> HIDE DEF p
  <1> QED BY <1>6, <1>7, PhoneTurns

\* The phone's draft with the token or without.
LEMMA PhoneTokened ==
  ASSUME EditorInv, phone.draft # <<>>, NEW token \in BOOLEAN, NEW stock, Later(stored, stock),
         stock = "never" => ~token
  PROVE  LET p == [phone EXCEPT !.draft[1].token = token] IN p \in AnyPhone /\ PhoneSound(p, stock)
  <1> DEFINE d == phone.draft[1]
             c == [d EXCEPT !.token = token]
             draft == <<c>>
             p == [phone EXCEPT !.draft[1].token = token]
             r == [phone EXCEPT !.draft = draft]
  <1>1. /\ phone \in AnyPhone /\ PhoneSound(phone, stored) /\ d \in Drafts /\ phone.draft = <<d>>
        /\ KeyFor(phone.q, d.options)
    BY PhoneHolds
  <1>2. /\ c \in Drafts /\ c.options = d.options /\ c.token = token
        /\ [<<d>> EXCEPT ![1].token = token] = <<c>>
    BY <1>1, Retokened
  <1>3. p = [phone EXCEPT !.draft = [phone.draft EXCEPT ![1].token = token]]
    BY <1>1 DEF AnyPhone
  <1>4. p = r
    BY <1>1, <1>2, <1>3
  <1> HIDE DEF c, d, p
  <1>5. draft \in AnyDraft /\ draft # <<>> /\ draft[1] = c
    BY <1>2, DraftIs
  <1> HIDE DEF draft
  <1>6. r \in AnyPhone /\ r.q = phone.q /\ r.view = phone.view /\ r.draft = draft
    BY <1>1, <1>5, PhoneDraft
  <1> HIDE DEF r
  <1>7. stock = "never" => stored = "never"
    BY DEF Later
  <1>8. PhoneSound(r, stock)
    BY <1>1, <1>2, <1>5, <1>6, <1>7 DEF PhoneSound, Tokened
  <1> QED BY <1>4, <1>6, <1>8 DEF p

LEMMA PhoneTokenSafe == ASSUME EditorInv, PhoneToken PROVE EditorInv'
  <1>1. PICK token \in {FALSE, stored = "stored"} :
          PhoneBecomes([phone EXCEPT !.draft[1].token = token])
    BY DEF PhoneToken
  <1>2. token \in BOOLEAN /\ (stored = "never" => ~token) /\ Later(stored, stored) /\ phone.draft # <<>>
    BY DEF PhoneToken, Later
  <1> DEFINE p == [phone EXCEPT !.draft[1].token = token]
  <1>3. p \in AnyPhone /\ PhoneSound(p, stored)
    BY <1>2, PhoneTokened
  <1>4. PhoneBecomes(p)
    BY <1>1
  <1> HIDE DEF p
  <1> QED BY <1>3, <1>4, PhoneTurns

LEMMA PhoneCancelSafe == ASSUME EditorInv, PhoneCancel PROVE EditorInv'
  <1> DEFINE none == <<>>
             p == [phone EXCEPT !.draft = none]
  <1>1. PhoneBecomes(p) /\ none \in AnyDraft /\ none = <<>>
    BY DraftIs DEF PhoneCancel
  <1>2. phone \in AnyPhone /\ PhoneSound(phone, stored)
    BY PhoneHolds
  <1> HIDE DEF none
  <1>3. p \in AnyPhone /\ p.q = phone.q /\ p.view = phone.view /\ p.draft = none
    BY <1>1, <1>2, PhoneDraft
  <1> HIDE DEF p
  <1>4. PhoneSound(p, stored)
    BY <1>1, <1>2, <1>3 DEF PhoneSound, Tokened
  <1> QED BY <1>1, <1>3, <1>4, PhoneTurns

\* What the phone sends.
LEMMA PhoneAsks ==
  ASSUME EditorInv, NEW kind \in {"save", "upload"}, NEW new \in Question, PhoneSends(kind, new),
         UNCHANGED <<editor, phone>>, KeyFor(phone.q, new.options), new.pic # "raw",
         stored = "never" => new.pic = "none"
  PROVE  EditorInv'
  <1> DEFINE yes == TRUE
             then == "nothing"
             q == phone.q
             a == NewAsk(yes, kind, 1, q, new, then)
  <1>1. FreeIds # {} /\ asks' = asks \cup {a} /\ UNCHANGED <<bank, stored, excused>>
    BY DEF PhoneSends
  <1>2. /\ yes \in BOOLEAN /\ kind \in AskKinds /\ then \in Thens /\ 1 \in 0..4 /\ q \in 0..MaxIds
        /\ EditorFull /\ BankFine(bank, stored, excused)
    BY PhoneHolds, PhoneFields DEF AskKinds, Thens, EditorInv
  <1>3. kind # "list" /\ kind # "load" /\ kind # "add" /\ KeyFor(q, new.options)
    OBVIOUS
  <1> HIDE DEF yes, then, q
  <1>4. /\ a \in AnyAsk /\ a.narrow = yes /\ a.kind = kind /\ a.q = q /\ a.new = new /\ JustAsked(a)
    BY <1>1, <1>2, NewAskFields
  <1> HIDE DEF a
  <1>5. AskSound(a, stored, excused)
    BY <1>2, <1>3, <1>4, AskedSound
  <1> QED BY <1>1, <1>3, <1>4, <1>5, AskSent

LEMMA MadeQuestion ==
  ASSUME NEW o \in Options, NEW pic \in {"none", "linked", "raw", "text"}
  PROVE  LET v == [options |-> o, pic |-> pic] IN v \in Question /\ v.options = o /\ v.pic = pic
  BY DEF Question

LEMMA PhoneSaveSafe == ASSUME EditorInv, PhoneSave PROVE EditorInv'
  <1> DEFINE kind == "save"
             o == phone.draft[1].options
             pic == IF phone.draft[1].token THEN "text" ELSE "none"
             new == [options |-> o, pic |-> pic]
  <1>1. PhoneSends(kind, new) /\ UNCHANGED <<editor, phone>> /\ phone.draft # <<>>
    BY DEF PhoneSave
  <1>2. o \in Options /\ KeyFor(phone.q, o) /\ PhoneSound(phone, stored)
    BY <1>1, PhoneHolds
  <1>3. /\ pic \in {"none", "linked", "raw", "text"} /\ pic # "raw" /\ kind \in {"save", "upload"}
        /\ stored = "never" => pic = "none"
    BY <1>1, <1>2 DEF PhoneSound, Tokened
  <1> HIDE DEF kind, o, pic
  <1>4. new \in Question /\ new.options = o /\ new.pic = pic
    BY <1>2, <1>3, MadeQuestion
  <1> HIDE DEF new
  <1> QED BY <1>1, <1>2, <1>3, <1>4, PhoneAsks

LEMMA PhoneUploadSafe == ASSUME EditorInv, PhoneUpload PROVE EditorInv'
  <1> DEFINE kind == "upload"
             new == Blank
  <1>1. PhoneSends(kind, new) /\ UNCHANGED <<editor, phone>> /\ kind \in {"save", "upload"}
    BY DEF PhoneUpload
  <1>2. new \in Question /\ KeyFor(phone.q, new.options) /\ new.pic = "none"
    BY BlankFacts, SureFor
  <1> HIDE DEF kind, new
  <1> QED BY <1>1, <1>2, PhoneAsks

\* A request of the phone whose screen is rendered again.
Outdated(a) == IF a.narrow THEN [a EXCEPT !.to = 0] ELSE a

LEMMA OutdatedFields ==
  ASSUME NEW a \in AnyAsk
  PROVE  LET b == Outdated(a) IN
         /\ b \in AnyAsk /\ b.narrow = a.narrow /\ b.kind = a.kind /\ b.q = a.q /\ b.new = a.new
         /\ b.then = a.then /\ b.was = a.was /\ (~a.narrow => b = a)
  <1>1. CASE a.narrow
    <2> DEFINE zero == 0
               b == [a EXCEPT !.to = zero]
    <2>1. Outdated(a) = b /\ zero \in 0..4
      BY <1>1 DEF Outdated
    <2> HIDE DEF zero
    <2>2. /\ b \in AnyAsk /\ b.narrow = a.narrow /\ b.kind = a.kind /\ b.q = a.q /\ b.new = a.new
          /\ b.then = a.then /\ b.was = a.was
      BY <2>1 DEF AnyAsk
    <2> HIDE DEF b
    <2> QED BY <1>1, <2>1, <2>2
  <1>2. CASE ~a.narrow
    BY <1>2 DEF Outdated
  <1> QED BY <1>1, <1>2

LEMMA QuestionScreenSafe ==
  ASSUME EditorInv, QuestionScreen PROVE EditorInv'
  <1> DEFINE yes == TRUE
             new == Blank
             kind == "load"
             then == "nothing"
             stale == {Outdated(b) : b \in asks}
  <1>0. yes /\ kind = "load"
    OBVIOUS
  <1>1. PICK q \in 1..MaxIds : phone' = [NoPhone EXCEPT !.q = q]
    BY DEF QuestionScreen
  <1> DEFINE a == NewAsk(yes, kind, 1, q, new, then)
             p == NoPhone
             r == [p EXCEPT !.q = q]
  <1>2. FreeIds # {} /\ UNCHANGED <<bank, stored, editor, excused>>
    BY DEF QuestionScreen
  <1>3. /\ p \in AnyPhone /\ p.view = Blank /\ p.draft = <<>> /\ phone' = r
    BY <1>1, NoPhoneFacts
  <1> HIDE DEF p
  <1>4. r \in AnyPhone /\ r.q = q /\ r.view = p.view /\ r.draft = p.draft
    BY <1>3 DEF AnyPhone
  <1> HIDE DEF r
  <1>5. PhoneSound(phone', stored) /\ phone' \in AnyPhone /\ phone'.q = q
    <2>1. KeyFor(q, Blank.options) /\ Blank.pic = "none"
      BY BlankFacts, SureFor
    <2> QED BY <1>3, <1>4, <2>1 DEF PhoneSound, Tokened
  <1>6. asks' = stale \cup {a}
    <2>1. asks' = {Outdated(b) : b \in asks} \cup {NewAsk(TRUE, "load", 1, phone'.q, Blank, "nothing")}
      BY DEF QuestionScreen, Outdated
    <2> QED BY <1>5, <2>1
  <1>7. /\ yes \in BOOLEAN /\ kind \in AskKinds /\ then \in Thens /\ 1 \in 0..4
        /\ q \in 0..MaxIds /\ new \in Question /\ new.pic = "none"
        /\ EditorFull /\ BankFine(bank, stored, excused)
    BY BlankFacts, EditorBounds DEF AskKinds, Thens, EditorInv
  <1> HIDE DEF yes, new, kind, then
  <1>8. /\ a \in AnyAsk /\ a.narrow = yes /\ a.kind = kind /\ a.new = new /\ JustAsked(a)
    BY <1>2, <1>7, NewAskFields
  <1> HIDE DEF a
  <1>9. AskSound(a, stored, excused)
    <2>1. a.kind # "save" /\ a.kind # "add" /\ a.kind # "list" /\ a.narrow /\ a.kind \in {"load", "save", "upload"}
      BY <1>0, <1>8
    <2> QED BY <1>7, <1>8, <2>1, AskedSound
  <1>10. ASSUME NEW b \in stale
         PROVE  b \in AnyAsk /\ AskSound(b, stored, excused) /\ (b.kind = "list" => b \in asks)
    <2>1. PICK c \in asks : b = Outdated(c)
      OBVIOUS
    <2>2. c \in AnyAsk /\ AskSound(c, stored, excused)
      BY DEF EditorInv, EditorFull
    <2>3. /\ b \in AnyAsk /\ b.narrow = c.narrow /\ b.kind = c.kind /\ b.q = c.q /\ b.new = c.new
          /\ b.then = c.then /\ b.was = c.was /\ (~c.narrow => b = c)
      BY <2>1, <2>2, OutdatedFields
    <2> QED BY <2>2, <2>3 DEF AskSound
  <1>11. ASSUME NEW c \in ListsAsked(asks) PROVE c \in stale
    <2>1. c \in asks /\ c.kind = "list" /\ AskSound(c, stored, excused)
      BY DEF ListsAsked, EditorInv
    <2>2. Outdated(c) = c
      BY <2>1 DEF AskSound, Outdated
    <2> QED BY <2>1, <2>2
  <1> HIDE DEF stale
  <1>12. ListsAsked(asks') = ListsAsked(asks)
    <2>1. \A c \in ListsAsked(asks') : c \in ListsAsked(asks)
      BY <1>6, <1>0, <1>8, <1>10 DEF ListsAsked
    <2>2. \A c \in ListsAsked(asks) : c \in ListsAsked(asks')
      BY <1>6, <1>11 DEF ListsAsked
    <2> QED BY <2>1, <2>2
  <1>13. ListKnown(editor, asks', stored)
    BY <1>12, SameLists DEF EditorInv
  <1>14. asks' \in SUBSET AnyAsk /\ \A b \in asks' : AskSound(b, stored, excused)
    BY <1>6, <1>8, <1>9, <1>10
  <1> QED BY <1>2, <1>5, <1>13, <1>14 DEF EditorInv, EditorFull

LEMMA QuestionLoadedSafe == ASSUME EditorInv, NEW a \in asks, QuestionLoaded(a) PROVE EditorInv'
  <1>1. a.kind = "load" /\ asks' = asks \ {a} /\ UNCHANGED <<bank, stored, editor, excused>>
    BY DEF QuestionLoaded
  <1>2. /\ a \in AnyAsk /\ AskSound(a, stored, excused) /\ bank \in AnyBank /\ stored \in Stocks
        /\ BankFine(bank, stored, excused)
    BY DEF EditorInv, EditorFull
  <1>3. a.was.bank \in AnyBank
    BY <1>2 DEF AnyAsk, AnyWas
  <1>4. \/ phone' = phone
        \/ \E view \in {a.was.bank, bank} :
             a.q \in DOMAIN view /\ phone' = Shows(NoPhone, TRUE, a.q, view[a.q])
    BY DEF QuestionLoaded, Shows
  <1>5. ASSUME NEW view \in {a.was.bank, bank}, a.q \in DOMAIN view,
               phone' = Shows(NoPhone, TRUE, a.q, view[a.q])
        PROVE  phone' \in AnyPhone /\ PhoneSound(phone', stored)
    <2> DEFINE yes == TRUE
               q == a.q
               v == view[q]
               p == NoPhone
               r == Shows(p, yes, q, v)
    <2>1. /\ view \in AnyBank /\ BankKeyed(view) /\ (stored = "never" => Plain(view))
      BY <1>2, <1>3 DEF AskSound, BankFine
    <2>2. v \in Question /\ q \in 1..MaxIds /\ KeyFor(q, v.options) /\ (stored = "never" => v.pic = "none")
      BY <1>5, <2>1, BankOf DEF BankKeyed, Plain
    <2>3. p \in AnyPhone /\ p.draft = <<>> /\ yes \in BOOLEAN /\ phone' = r
      BY <1>5, NoPhoneFacts
    <2> HIDE DEF yes, q, v, p
    <2>4. r \in AnyPhone /\ r.q = q /\ r.view = v /\ r.draft = p.draft
      BY <2>2, <2>3, ShowsFields
    <2> HIDE DEF r
    <2> QED BY <2>2, <2>3, <2>4 DEF PhoneSound, Tokened
  <1>6. phone' \in AnyPhone /\ PhoneSound(phone', stored)
    BY <1>4, <1>5, PhoneHolds
  <1> QED BY <1>1, <1>2, <1>6, AskGone DEF Later

LEMMA PhoneAnsweredSafe == ASSUME EditorInv, NEW a \in asks, PhoneAnswered(a) PROVE EditorInv'
  <1>1. /\ Effect(a) /\ asks' = asks \ {a} /\ UNCHANGED <<editor, excused>> /\ a.narrow
        /\ phone' = IF a.kind = "upload" /\ a.to = 1 /\ phone.draft # <<>>
                      THEN [phone EXCEPT !.draft[1].token = TRUE] ELSE phone
    BY DEF PhoneAnswered
  <1>2. a.kind # "list"
    BY <1>1 DEF EditorInv, AskSound
  <1>3. /\ bank' \in AnyBank /\ stored' \in Stocks /\ Later(stored, stored')
        /\ BankFine(bank', stored', excused)
        /\ a.kind = "upload" => stored' # "never"
    BY <1>1, EffectSound
  <1>4. phone' \in AnyPhone /\ PhoneSound(phone', stored')
    <2>1. CASE a.kind = "upload" /\ phone.draft # <<>> /\ phone' = [phone EXCEPT !.draft[1].token = TRUE]
      <3> DEFINE yes == TRUE
                 p == [phone EXCEPT !.draft[1].token = yes]
                 stock == stored'
      <3>1. phone' = p /\ yes \in BOOLEAN /\ Later(stored, stock) /\ (stock = "never" => ~yes)
        BY <1>3, <2>1
      <3> HIDE DEF yes, stock
      <3>2. p \in AnyPhone /\ PhoneSound(p, stock)
        BY <2>1, <3>1, PhoneTokened
      <3> HIDE DEF p
      <3> QED BY <3>1, <3>2 DEF stock
    <2>2. CASE phone' = phone
      BY <1>3, <2>2, PhoneHolds, Outlives
    <2> QED BY <1>1, <2>1, <2>2
  <1> QED BY <1>1, <1>2, <1>3, <1>4, AskGone

(***************************************************************************)
(* The editors keep their invariant.                                        *)
(***************************************************************************)
LEMMA EditorStays == ASSUME EditorInv, UNCHANGED editorVars PROVE EditorInv'
  <1>1. UNCHANGED <<bank, stored, editor, phone, asks, excused>>
    BY DEF editorVars
  <1> QED BY <1>1 DEF EditorInv, EditorFull

LEMMA EditorStepSafe ==
  ASSUME EditorInv, DeskStep \/ PhoneStep \/ OptionStep \/ PictureStep \/ AnswerStep
  PROVE  EditorInv'
  <1>1. CASE DeskStep
    BY <1>1, OpenQuestionsSafe, LeaveQuestionsSafe, PickQuestionSafe, DeleteQuestionSafe,
       StartEditSafe, CancelEditSafe, SubmitEditSafe, DeskAsksSafe DEF DeskStep
  <1>2. CASE PhoneStep
    BY <1>2, PhoneEditSafe, PhoneCancelSafe, PhoneSaveSafe DEF PhoneStep
  <1>3. CASE OptionStep
    BY <1>3, EditOptionsSafe, PhoneOptionsSafe DEF OptionStep
  <1>4. CASE PictureStep
    BY <1>4, TypeQuestionSafe, DeskAsksSafe, PanelSafe, PanelInsertSafe, PhoneTokenSafe,
       PhoneUploadSafe DEF PictureStep
  <1>5. CASE AnswerStep
    <2>1. PICK a \in asks :
            \/ EditorAnswered(a) \/ MaterialsListed(a) \/ ListFailed(a) \/ Reloaded(a) \/ AskFailed(a)
            \/ QuestionLoaded(a) \/ QuestionMissing(a) \/ PhoneAnswered(a) \/ PhoneFailed(a)
      BY <1>5 DEF AnswerStep
    <2> QED BY <2>1, EditorAnsweredSafe, MaterialsListedSafe, ListFailedSafe, ReloadedSafe,
               AskFailedSafe, QuestionLoadedSafe, QuestionMissingSafe, PhoneAnsweredSafe,
               PhoneFailedSafe
  <1> QED BY <1>1, <1>2, <1>3, <1>4, <1>5

LEMMA EditorInvStep == EditorInv /\ [ScreensNext]_screensVars => EditorInv'
  <1> SUFFICES ASSUME EditorInv, [ScreensNext]_screensVars PROVE EditorInv'
    OBVIOUS
  <1>1. CASE UNCHANGED editorVars
    BY <1>1, EditorStays
  <1>2. CASE LeaveEditor /\ UNCHANGED <<owner, bank, stored, phone, sent, excused>>
    BY <1>2, LeaveEditorSafe
  <1>3. CASE Mount
    <2>1. PICK i \in imports :
            IF Mounts(i) THEN Opens(ScreenOf(i), i.narrow)
            ELSE UNCHANGED <<badge, wizardVars, editorVars, collectionVars, inboxVars, peopleVars>>
      BY <1>3 DEF Mount
    <2>2. \/ UNCHANGED editorVars
          \/ QuestionScreen
          \/ LeaveEditor /\ UNCHANGED <<owner, bank, stored, phone, sent, excused>>
      BY <2>1 DEF Opens
    <2> QED BY <1>1, <1>2, <2>2, QuestionScreenSafe
  <1>4. CASE Route
    <2>1. UNCHANGED <<owner, bank, stored, phone, sent, excused>> /\ (UNCHANGED <<editor, asks>> \/ LeaveEditor)
      BY <1>4 DEF Route
    <2> QED BY <1>1, <1>2, <2>1 DEF editorVars
  <1>5. CASE DeskStep \/ PhoneStep \/ OptionStep \/ PictureStep \/ AnswerStep
    BY <1>5, EditorStepSafe
  <1>6. CASE UNCHANGED screensVars
    BY <1>1, <1>6 DEF screensVars
  <1> QED BY <1>1, <1>3, <1>4, <1>5, <1>6 DEF ScreensNext

Pics == {"none", "linked", "raw", "text"}
Repaired(v, o, pic) == [v EXCEPT !.options = o, !.pic = pic]

LEMMA RepairedFields ==
  ASSUME NEW v \in Question, NEW o \in Options, NEW pic \in Pics
  PROVE  LET w == Repaired(v, o, pic) IN w \in Question /\ w.options = o /\ w.pic = pic
  BY DEF Question, Repaired, Pics

LEMMA BankIn ==
  ASSUME NEW S \in SUBSET (1..MaxIds), NEW b, b = [q \in S |-> b[q]], \A q \in S : b[q] \in Question
  PROVE  b \in AnyBank
  <1>1. b \in [S -> Question]
    OBVIOUS
  <1> QED BY <1>1 DEF AnyBank

\* A question that the test starts with.
LEMMA FirstQuestion ==
  ASSUME NEW q, NEW pic \in Pics
  PROVE  LET v == [Blank EXCEPT !.options[1] = (q \notin Unkeyed), !.pic = pic] IN
         v \in Question /\ v.pic = pic /\ KeyFor(q, v.options)
  <1> DEFINE yes == TRUE
             no == FALSE
             key == (q \notin Unkeyed)
             two == <<yes, no>>
             o == <<key, no>>
             b == Blank
             v == Repaired(b, o, pic)
  <1>1. [two EXCEPT ![1] = key] = o
    <2> HIDE DEF yes, no, key
    <2> QED OBVIOUS
  <1>2. key \in BOOLEAN /\ no \in BOOLEAN /\ ~no /\ (q \notin Unkeyed => key)
    OBVIOUS
  <1> HIDE DEF yes, no, key
  <1>3. /\ o \in Seq(BOOLEAN) /\ Len(o) = 2 /\ DOMAIN o = 1..2 /\ o[1] = key /\ o[2] = no
    BY <1>2
  <1>4. o \in Options
    <2>1. o \in [1..2 -> BOOLEAN] /\ 2 \in 2..Most
      BY <1>3, LimitFacts
    <2> QED BY <2>1, OptionFacts
  <1>5. KeyFor(q, o)
    <2>1. 1 \in DOMAIN o /\ \A i \in DOMAIN o : i = 1 \/ i = 2
      BY ONLY <1>3
    <2> HIDE DEF o
    <2>2. (q \notin Unkeyed => o[1]) /\ ~o[2]
      BY ONLY <1>2, <1>3, Zenon
    <2> QED BY <2>1, <2>2 DEF KeyFor, OneKey
  <1>7. b \in Question /\ b.options = two
    <2> DEFINE none == "none"
    <2>1. b = [options |-> two, pic |-> none]
      BY DEF Blank, yes, no
    <2> HIDE DEF b, two, none
    <2>2. b.options = two
      BY <2>1
    <2> QED BY <2>2, BlankFacts DEF b
  <1>8. [b EXCEPT !.options[1] = key, !.pic = pic] = v
    <2> DEFINE t == [b.options EXCEPT ![1] = key]
    <2> HIDE DEF b, two, key, o
    <2>1. t = o
      BY <1>1, <1>7
    <2>2. [b EXCEPT !.options[1] = key, !.pic = pic] = [b EXCEPT !.options = t, !.pic = pic]
      OBVIOUS
    <2> HIDE DEF t
    <2> QED BY <2>1, <2>2 DEF Repaired
  <1> HIDE DEF o, b, two
  <1>9. b \in Question
    BY <1>7
  <1>10. v \in Question /\ v.options = o /\ v.pic = pic
    <2> DEFINE w == Repaired(b, o, pic)
    <2>1. w \in Question /\ w.options = o /\ w.pic = pic
      BY <1>4, <1>9, RepairedFields
    <2> QED BY <2>1
  <1> HIDE DEF v
  <1>11. v \in Question /\ v.pic = pic /\ KeyFor(q, v.options)
    BY <1>5, <1>10
  <1> QED BY <1>8, <1>11 DEF key, b

LEMMA FirstBank ==
  ASSUME NEW ids \in SUBSET (1..MaxIds), NEW pic \in Pics,
         bank = [q \in ids |-> [Blank EXCEPT !.options[1] = (q \notin Unkeyed), !.pic = pic]]
  PROVE  bank \in AnyBank /\ BankKeyed(bank) /\ \A q \in DOMAIN bank : bank[q].pic = pic
  <1>1. DOMAIN bank = ids
    OBVIOUS
  <1>2. ASSUME NEW q \in ids
        PROVE  bank[q] \in Question /\ bank[q].pic = pic /\ KeyFor(q, bank[q].options)
    <2> DEFINE v == [Blank EXCEPT !.options[1] = (q \notin Unkeyed), !.pic = pic]
    <2>1. bank[q] = v
      OBVIOUS
    <2>2. v \in Question /\ v.pic = pic /\ KeyFor(q, v.options)
      BY FirstQuestion
    <2> HIDE DEF v
    <2> QED BY <2>1, <2>2
  <1>3. bank = [q \in ids |-> bank[q]]
    OBVIOUS
  <1>4. bank \in AnyBank
    BY ONLY <1>2, <1>3, BankIn
  <1> QED BY <1>1, <1>2, <1>4 DEF BankKeyed

LEMMA EditorInvInit == EditorInit => EditorInv
  <1> SUFFICES ASSUME EditorInit PROVE EditorInv
    OBVIOUS
  <1>1. PICK ids \in SUBSET (1..MaxIds), pic \in {"none", "linked"} :
          /\ bank = [q \in ids |-> [Blank EXCEPT !.options[1] = (q \notin Unkeyed), !.pic = pic]]
          /\ stored = IF pic = "none" THEN "never" ELSE "stored"
    BY DEF EditorInit
  <1>2. editor = NoEditor /\ phone = NoPhone /\ asks = {}
    BY DEF EditorInit
  <1>3. bank \in AnyBank /\ BankKeyed(bank) /\ \A q \in DOMAIN bank : bank[q].pic = pic
    <2>1. pic \in Pics
      BY DEF Pics
    <2> QED BY <1>1, <2>1, FirstBank
  <1>4. BankFine(bank, stored, excused) /\ stored \in Stocks
    BY <1>1, <1>3 DEF BankFine, BankKeyed, Plain, Stocks
  <1>5. DeskSound(editor, stored) /\ editor \in AnyEditor
    BY <1>2, NoEditorFacts, NoBank DEF DeskSound
  <1>6. PhoneSound(phone, stored) /\ phone \in AnyPhone
    BY <1>2, NoPhoneFacts
  <1>7. ListKnown(editor, asks, stored)
    <2>1. ListsAsked(asks) = {}
      BY <1>2 DEF ListsAsked
    <2> QED BY <1>2, <2>1, NoEditorFacts DEF ListKnown
  <1> QED BY <1>2, <1>3, <1>4, <1>5, <1>6, <1>7 DEF EditorInv, EditorFull

LEMMA EditorInvHolds == ScreensSpec => []EditorInv
  <1>1. ScreensInit => EditorInv
    BY EditorInvInit DEF ScreensInit
  <1> QED BY <1>1, EditorInvStep, PTL DEF ScreensSpec

LEMMA EditorInvKeyed == EditorInv => KeyKept
  <1> SUFFICES ASSUME EditorInv, NEW q \in DOMAIN bank
               PROVE  LET key == Keyed(bank[q].options) IN
                      Cardinality(key) <= 1 /\ (q \notin Unkeyed => key # {})
    BY DEF KeyKept
  <1> DEFINE o == bank[q].options
             key == Keyed(o)
  <1>1. KeyFor(q, o)
    BY DEF EditorInv, BankFine, BankKeyed
  <1>2. q \notin Unkeyed => key # {}
    BY <1>1 DEF KeyFor, Keyed
  <1>3. \A i, j \in key : i = j
    BY <1>1 DEF KeyFor, OneKey, Keyed
  <1>4. Cardinality(key) <= 1
    <2> HIDE DEF key
    <2>1. CASE key = {}
      BY <2>1, FS_EmptySet
    <2>2. CASE key # {}
      <3>1. PICK i \in key : TRUE
        BY <2>2
      <3>2. key = {i}
        BY <1>3, <3>1
      <3>3. Cardinality({i}) = 1
        BY FS_Singleton
      <3> QED BY <3>2, <3>3
    <2> QED BY <2>1, <2>2
  <1> QED BY <1>2, <1>4

\* Whatever is marked, removed, added and saved on either screen, however requests cross: a
\* question never has two correct options, and none only if it came without (renderOpts,
\* paintOpts, startEdit, readDraft).
THEOREM KeySound == ScreensSpec => []KeyKept
  BY EditorInvHolds, EditorInvKeyed, PTL

\* An image is saved without its file only when the list of the materials was missing, late or
\* doubtful, or the material was deleted (refreshMaterials, makeTokenToolbar, tokensToBlocks).
THEOREM PicturesSound == ScreensSpec => []PicturesResolve
  <1>1. EditorInv => PicturesResolve
    BY DEF EditorInv, BankFine, PicturesResolve
  <1> QED BY <1>1, EditorInvHolds, PTL
=============================================================================
