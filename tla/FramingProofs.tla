----------------------------- MODULE FramingProofs -----------------------------
(***************************************************************************)
(* Theorems about RequestFraming, for any symbols, streams and results, and*)
(* any size of a read and of a query.                                      *)
(***************************************************************************)
EXTENDS RequestFraming, SequenceTheorems, WellFoundedInduction, TLAPS

-----------------------------------------------------------------------------
(* Least and greatest elements                                             *)

LEMMA Least ==
    ASSUME NEW S, S \subseteq Nat, S # {}
    PROVE  Min(S) \in S /\ \A y \in S : Min(S) <= y
  <1>1. PICK x \in S : \A y \in S : ~(<<y, x>> \in OpToRel(<, Nat))
    BY NatLessThanWellFounded, WFMin
  <1>2. ASSUME NEW y \in S PROVE x <= y
    <2>1. x \in Nat /\ y \in Nat
      OBVIOUS
    <2>2. ~(<<y, x>> \in {ss \in Nat \X Nat : ss[1] < ss[2]})
      BY <1>1 DEF OpToRel
    <2>3. ~(y < x)
      BY <2>1, <2>2
    <2> QED
      BY <2>1, <2>3
  <1>3. \E z \in S : \A y \in S : z <= y
    BY <1>2
  <1> QED
    BY <1>3, Zenon DEF Min

LEMMA LeastIs ==
    ASSUME NEW S, S \subseteq Nat, NEW x \in S, \A y \in S : x <= y
    PROVE  Min(S) = x
  <1>1. Min(S) \in S /\ Min(S) <= x
    BY Least
  <1>2. Min(S) \in Nat /\ x \in Nat /\ x <= Min(S)
    BY <1>1
  <1> QED
    BY <1>1, <1>2

LEMMA Greatest ==
    ASSUME NEW S, NEW n \in Nat, S \subseteq 1 .. n, S # {}
    PROVE  Max(S) \in S /\ \A y \in S : Max(S) >= y
  <1> DEFINE T == {n - y : y \in S}
  <1>0. \A y \in S : y \in 1 .. n
    OBVIOUS
  <1>1. T \subseteq Nat /\ T # {}
    <2>1. \A y \in S : n - y \in Nat
      BY <1>0
    <2>2. PICK y \in S : TRUE
      OBVIOUS
    <2>3. n - y \in T
      BY <2>2
    <2> QED
      BY <2>1, <2>3
  <1>2. Min(T) \in T /\ \A t \in T : Min(T) <= t
    BY <1>1, Least
  <1>3. PICK x \in S : Min(T) = n - x
    BY <1>2
  <1>4. \A y \in S : n - x <= n - y
    BY <1>2, <1>3
  <1>5. \A y \in S : x >= y
    BY <1>0, <1>4
  <1> QED
    BY <1>5, Zenon DEF Max

-----------------------------------------------------------------------------
(* Prefixes, and what is found in them                                     *)

LEMMA PrefixProperties ==
    ASSUME NEW S, NEW s \in Seq(S), NEW n \in 0 .. Len(s)
    PROVE  /\ Prefix(s, n) \in Seq(S) /\ Len(Prefix(s, n)) = n
           /\ \A i \in 1 .. n : Prefix(s, n)[i] = s[i]
  BY SubSeqProperties, ElementOfSeq DEF Prefix

LEMMA PrefixOfPrefix ==
    ASSUME NEW S, NEW s \in Seq(S), NEW n \in 0 .. Len(s), NEW m \in 0 .. n
    PROVE  Prefix(Prefix(s, n), m) = Prefix(s, m)
  <1>1. /\ Prefix(s, n) \in Seq(S) /\ Len(Prefix(s, n)) = n
        /\ \A i \in 1 .. n : Prefix(s, n)[i] = s[i]
    BY PrefixProperties
  <1>2. m \in 0 .. Len(s)
    OBVIOUS
  <1>3. /\ Prefix(s, m) \in Seq(S) /\ Len(Prefix(s, m)) = m
        /\ \A i \in 1 .. m : Prefix(s, m)[i] = s[i]
    BY <1>2, PrefixProperties
  <1>4. /\ Prefix(Prefix(s, n), m) \in Seq(S) /\ Len(Prefix(Prefix(s, n), m)) = m
        /\ \A i \in 1 .. m : Prefix(Prefix(s, n), m)[i] = Prefix(s, n)[i]
    BY <1>1, PrefixProperties
  <1> QED
    BY <1>1, <1>3, <1>4, SeqEqual

\* A delimiter that is found in a prefix is the first of the whole.
LEMMA FoundInPrefix ==
    ASSUME NEW S, NEW s \in Seq(S), NEW n \in 0 .. Len(s), Found(Prefix(s, n)) # {}
    PROVE  /\ Found(s) # {} /\ Min(Found(s)) = Min(Found(Prefix(s, n)))
           /\ Min(Found(Prefix(s, n))) \in 1 .. n - 1
  <1> DEFINE p == Prefix(s, n)
  <1>1. Len(p) = n /\ \A i \in 1 .. n : p[i] = s[i]
    BY PrefixProperties
  <1>2. Found(p) \subseteq 1 .. n - 1 /\ Found(s) \subseteq Nat
    BY <1>1 DEF Found
  <1>3. Min(Found(p)) \in Found(p) /\ \A y \in Found(p) : Min(Found(p)) <= y
    BY <1>2, Least
  <1>4. \A i \in 1 .. n - 1 : i \in Found(p) <=> i \in Found(s)
    BY <1>1 DEF Found
  <1> HIDE DEF p
  <1>5. Min(Found(p)) \in Found(s)
    BY <1>2, <1>3, <1>4
  <1>6. ASSUME NEW y \in Found(s) PROVE Min(Found(p)) <= y
    <2>1. y \in Nat /\ y >= 1 /\ Min(Found(p)) \in 1 .. n - 1
      BY <1>2, <1>3 DEF Found
    <2>2. CASE y \in 1 .. n - 1
      BY <2>2, <1>3, <1>4
    <2> QED
      BY <2>1, <2>2
  <1>7. Min(Found(s)) = Min(Found(p))
    BY <1>2, <1>5, <1>6, LeastIs
  <1> QED
    BY <1>2, <1>3, <1>5, <1>7 DEF p

\* A query consists of symbols.
LEMMA Trimmed ==
    ASSUME NEW S, NEW s \in Seq(S)
    PROVE  Trim(s) \in Seq(S)
  <1> DEFINE ink == {i \in DOMAIN s : s[i] # Blank}
  <1>1. CASE ink = {}
    BY <1>1 DEF Trim
  <1>2. CASE ink # {}
    <2>1. Len(s) \in Nat /\ ink \subseteq 1 .. Len(s)
      OBVIOUS
    <2>2. Min(ink) \in 1 .. Len(s)
      BY <2>1, <1>2, Least
    <2>3. Max(ink) \in 1 .. Len(s)
      BY <2>1, <1>2, Greatest
    <2>4. \A i \in Min(ink) .. Max(ink) : s[i] \in S
      BY <2>1, <2>2, <2>3, ElementOfSeq
    <2>5. SubSeq(s, Min(ink), Max(ink)) \in Seq(S)
      BY <2>2, <2>3, <2>4, SubSeqProperties
    <2>6. Trim(s) = SubSeq(s, Min(ink), Max(ink))
      BY <1>2 DEF Trim
    <2> QED
      BY <2>5, <2>6
  <1> QED
    BY <1>1, <1>2

-----------------------------------------------------------------------------
(* Texts                                                                   *)

\* What the assumption says of the sizes, and of the texts.
LEMMA Sizes ==
    ChunkSize \in Nat /\ ChunkSize >= 1 /\ MAX_QUERY_SIZE \in Nat
  <1>1. ChunkSize \in Nat \ {0} /\ MAX_QUERY_SIZE \in Nat
    BY FramingAssumption, Zenon
  <1> QED
    BY <1>1

LEMMA Texts ==
    /\ Blank \in Symbols /\ Delimiter[1] \in Symbols /\ Delimiter[2] \in Symbols
    /\ "none" \notin Symbols /\ "too large" \notin Symbols
    /\ \A s \in Streams : s \in Seq(Symbols)
    /\ \A s \in Results : s \in Seq(Symbols)
  BY FramingAssumption DEF Delimiter, Blank

LEMMA LengthOfTooLarge == Len(TooLarge) = 1 /\ TooLarge[1] = "too large"
  BY DEF TooLarge

\* All that a reply is made of.
Glyphs == Symbols \cup {"too large", "read only", "report", "failed"}

LEMMA TextsAreGlyphs ==
    /\ \A s \in Seq(Symbols) : s \in Seq(Glyphs)
    /\ {TooLarge, Violation, Report, Failure} \subseteq Seq(Glyphs)
    /\ {<<Blank>>, Delimiter} \subseteq Seq(Glyphs)
  <1>1. ASSUME NEW s \in Seq(Symbols) PROVE s \in Seq(Glyphs)
    BY SeqMonotonic DEF Glyphs
  <1>2. {TooLarge, Violation, Report, Failure} \subseteq Seq(Glyphs)
    BY DEF TooLarge, Violation, Report, Failure, Glyphs
  <1>3. Blank \in Glyphs /\ "<E" \in Glyphs /\ "OQ>" \in Glyphs
    BY Texts DEF Glyphs, Delimiter
  <1>4. {<<Blank>>, Delimiter} \subseteq Seq(Glyphs)
    BY <1>3 DEF Delimiter
  <1> QED
    BY <1>1, <1>2, <1>4

LEMMA AddTwo ==
    ASSUME NEW S, NEW a \in Seq(S), NEW x \in S, NEW y \in S
    PROVE  /\ a \o <<x, y>> \in Seq(S) /\ Len(a \o <<x, y>>) = Len(a) + 2
           /\ \A i \in 1 .. Len(a) : (a \o <<x, y>>)[i] = a[i]
           /\ (a \o <<x, y>>)[Len(a) + 1] = x
           /\ (a \o <<x, y>>)[Len(a) + 2] = y
  <1>1. <<x, y>> \in Seq(S) /\ Len(<<x, y>>) = 2 /\ Len(a) \in Nat
    OBVIOUS
  <1> QED
    BY <1>1, ConcatProperties

\* A reply is its text and four symbols more.
LEMMA FramedProperties ==
    ASSUME NEW text \in Seq(Glyphs)
    PROVE  /\ Framed(text) \in Seq(Glyphs) /\ Len(Framed(text)) = Len(text) + 4
           /\ \A i \in 1 .. Len(text) : Framed(text)[i] = text[i]
           /\ Framed(text)[Len(text) + 1] = Blank
           /\ Framed(text)[Len(text) + 2] = Delimiter[1]
           /\ Framed(text)[Len(text) + 3] = Delimiter[2]
           /\ Framed(text)[Len(text) + 4] = Blank
  <1>0. <<Blank>> \in Seq(Glyphs) /\ Delimiter \in Seq(Glyphs) /\ Len(Delimiter) = 2
        /\ Len(text) \in Nat
    BY TextsAreGlyphs DEF Delimiter
  <1> DEFINE a == text \o <<Blank>>
             b == a \o Delimiter
  <1>1. /\ a \in Seq(Glyphs) /\ Len(a) = Len(text) + 1
        /\ \A i \in 1 .. Len(text) : a[i] = text[i]
        /\ a[Len(text) + 1] = Blank
    BY <1>0, ConcatProperties
  <1> HIDE DEF a
  <1>2. /\ b \in Seq(Glyphs) /\ Len(b) = Len(text) + 3
        /\ \A i \in 1 .. Len(text) + 1 : b[i] = a[i]
        /\ b[Len(text) + 2] = Delimiter[1] /\ b[Len(text) + 3] = Delimiter[2]
    <2>1. b = a \o <<"<E", "OQ>">> /\ Delimiter[1] = "<E" /\ Delimiter[2] = "OQ>"
      BY DEF Delimiter
    <2>2. "<E" \in Glyphs /\ "OQ>" \in Glyphs
      BY <2>1, Texts DEF Glyphs
    <2> HIDE DEF b
    <2> DEFINE c == a \o <<"<E", "OQ>">>
    <2>3. /\ c \in Seq(Glyphs) /\ Len(c) = Len(a) + 2
          /\ \A i \in 1 .. Len(a) : c[i] = a[i]
          /\ c[Len(a) + 1] = "<E" /\ c[Len(a) + 2] = "OQ>"
      BY <1>1, <2>2, AddTwo
    <2>4. Len(a) + 1 = Len(text) + 2 /\ Len(a) + 2 = Len(text) + 3
      BY <1>0, <1>1
    <2>5. b = c
      BY <2>1
    <2> HIDE DEF c
    <2>6. Len(b) = Len(text) + 3
      BY <1>0, <1>1, <2>3, <2>5
    <2>7. /\ b \in Seq(Glyphs) /\ \A i \in 1 .. Len(text) + 1 : b[i] = a[i]
          /\ b[Len(text) + 2] = "<E" /\ b[Len(text) + 3] = "OQ>"
      BY <1>1, <2>3, <2>4, <2>5, Zenon
    <2> QED
      BY <2>1, <2>6, <2>7, Zenon
  <1> HIDE DEF b
  <1>3. /\ b \o <<Blank>> \in Seq(Glyphs) /\ Len(b \o <<Blank>>) = Len(text) + 4
        /\ \A i \in 1 .. Len(text) + 3 : (b \o <<Blank>>)[i] = b[i]
        /\ (b \o <<Blank>>)[Len(text) + 4] = Blank
    BY <1>0, <1>2, ConcatProperties
  <1>4. Framed(text) = b \o <<Blank>>
    BY DEF Framed, a, b
  <1> QED
    BY <1>0, <1>1, <1>2, <1>3, <1>4

LEMMA FramedNotEmpty == \A text \in Seq(Glyphs) : Framed(text) # <<>>
  <1> SUFFICES ASSUME NEW text \in Seq(Glyphs), Framed(text) = <<>> PROVE FALSE
    OBVIOUS
  <1>1. Len(<<>>) = Len(text) + 4 /\ Len(text) \in Nat
    BY FramedProperties, LenProperties
  <1> QED
    BY <1>1

\* No other text looks like the refusal of a query that is too large.
LEMMA OnlyTooLarge ==
    ASSUME NEW text \in Results \cup {Report, Violation, Failure},
           Framed(text) = Framed(TooLarge)
    PROVE  FALSE
  <1>1. text \in Seq(Glyphs) /\ TooLarge \in Seq(Glyphs)
    BY TextsAreGlyphs, Texts
  <1>2. Len(text) = 1
    <2>1. Len(text) + 4 = Len(TooLarge) + 4
      BY <1>1, FramedProperties
    <2>2. Len(text) \in Nat
      BY <1>1, LenProperties
    <2>3. Len(text) + 4 = 1 + 4
      BY <2>1, LengthOfTooLarge, Zenon
    <2>4. \A k \in Nat : k + 4 = 1 + 4 => k = 1
      OBVIOUS
    <2> QED
      BY <2>2, <2>3, <2>4, Zenon
  <1>3. text[1] = TooLarge[1]
    <2>0. 1 \in 1 .. 1
      OBVIOUS
    <2>1. 1 \in 1 .. Len(text) /\ 1 \in 1 .. Len(TooLarge)
      BY <2>0, <1>2, LengthOfTooLarge, Zenon
    <2>2. Framed(text)[1] = text[1] /\ Framed(TooLarge)[1] = TooLarge[1]
      BY <1>1, <2>1, FramedProperties, Zenon
    <2> QED
      BY <2>2
  <1>4. text[1] = "too large"
    BY <1>3, LengthOfTooLarge
  <1>5. CASE text \in Results
    <2>1. text \in Seq(Symbols)
      BY <1>5, Texts
    <2>2. text[1] \in Symbols
      <3>1. 1 \in 1 .. Len(text)
        BY <1>2
      <3> QED
        BY <2>1, <3>1, ElementOfSeq, Zenon
    <2> QED
      BY <2>2, <1>4, Texts
  <1>6. CASE text \in {Report, Violation, Failure}
    <2>1. Report[1] # "too large" /\ Violation[1] # "too large"
      BY DEF Report, Violation
    <2>2. Failure[1] # "too large"
      BY DEF Failure
    <2> QED
      BY <1>4, <1>6, <2>1, <2>2, Zenon
  <1> QED
    BY <1>5, <1>6

-----------------------------------------------------------------------------
(* The invariant                                                           *)

\* Before it is served a request has no reply, and what has been read of it is
\* within the limit.
ReplyInv ==
    /\ reply \in Seq(Glyphs)
    /\ at \in {"read", "serve"} => reply = <<>> /\ written = 0
    /\ at = "read" => Len(buffer) <= MAX_QUERY_SIZE

IInv == TypeOK /\ ReplyInv /\ QueryAsSent

LEMMA InvInit == Init => IInv
  <1> SUFFICES ASSUME Init PROVE IInv
    OBVIOUS
  <1>1. sent \in Seq(Symbols) /\ Len(sent) \in Nat
    <2>1. sent \in Seq(Symbols)
      BY Texts, Zenon DEF Init
    <2> QED
      BY <2>1, LenProperties
  <1>2. buffer = Prefix(sent, 0) /\ Len(buffer) = 0
    BY <1>1, SubSeqEmpty DEF Init, Prefix
  <1>3. TypeOK
    BY <1>1, <1>2, Sizes DEF Init, TypeOK
  <1>4. ReplyInv
    BY <1>2, Sizes DEF Init, ReplyInv
  <1>5. reply # Framed(TooLarge)
    BY TextsAreGlyphs, FramedNotEmpty, Zenon DEF Init
  <1>6. QueryAsSent
    BY <1>5 DEF Init, QueryAsSent
  <1> QED
    BY <1>3, <1>4, <1>6 DEF IInv

\* read() returns: the three cases.
LEMMA Reading ==
    ASSUME IInv, NEW n \in 1 .. ChunkSize, Read(n)
    PROVE  IInv'
  <1> DEFINE m == Len(buffer) + n
  <1>1. /\ sent' = sent /\ sent \in Seq(Symbols) /\ Len(sent) \in Nat
        /\ Len(buffer) \in Nat /\ m \in 0 .. Len(sent)
        /\ buffer' = Prefix(sent, m)
        /\ at = "read" /\ query = NoQuery /\ reply = <<>> /\ written = 0
        /\ Len(buffer) <= MAX_QUERY_SIZE
        /\ UNCHANGED <<written, received, client>>
    <2>1. /\ sent' = sent /\ sent \in Seq(Symbols) /\ Len(sent) \in Nat
          /\ buffer' = Prefix(sent, m) /\ m <= Len(sent)
          /\ at = "read" /\ query = NoQuery /\ reply = <<>> /\ written = 0
          /\ Len(buffer) <= MAX_QUERY_SIZE
          /\ UNCHANGED <<written, received, client>>
      BY DEF IInv, TypeOK, ReplyInv, Read, listening
    <2>2. PICK k \in 0 .. Len(sent) : buffer = Prefix(sent, k)
      BY DEF IInv, TypeOK
    <2>3. Len(buffer) = k
      BY <2>1, <2>2, PrefixProperties
    <2> QED
      BY <2>1, <2>3
  <1> HIDE DEF m
  <1>2. Len(buffer') = m /\ buffer' \in Seq(Symbols)
    BY <1>1, PrefixProperties
  <1>3. m <= MAX_QUERY_SIZE + ChunkSize
    BY <1>1, Sizes DEF m
  <1>4. /\ client \in {"waits", "answered", "cut", "left"}
        /\ received \in 0 .. Len(reply) /\ written \in received .. Len(reply)
    BY DEF IInv, TypeOK
  <1>5. received = 0
    BY <1>1, <1>4
  <1>6. CASE m > MAX_QUERY_SIZE
    <2>1. at' = "write" /\ reply' = Framed(TooLarge) /\ query' = <<>>
      BY <1>2, <1>6 DEF Read, Exceeds
    <2>2. reply' \in Seq(Glyphs) /\ Len(reply') \in Nat
      BY <2>1, TextsAreGlyphs, FramedProperties
    <2>3. TypeOK'
      BY <1>1, <1>2, <1>3, <1>4, <1>5, <2>1, <2>2 DEF TypeOK, NoQuery
    <2>4. ReplyInv'
      BY <2>1, <2>2 DEF ReplyInv
    <2>5. QueryAsSent'
      BY <1>1, <1>6, <2>1, Sizes DEF QueryAsSent
    <2> QED
      BY <2>3, <2>4, <2>5 DEF IInv
  <1>7. CASE m <= MAX_QUERY_SIZE /\ Found(buffer') # {}
    <2>1. /\ query' = Trim(Prefix(buffer', Min(Found(buffer')) - 1))
          /\ at' = IF query' = <<>> THEN "close" ELSE "serve"
          /\ reply' = reply
      BY <1>2, <1>7, <1>1, Sizes DEF Read, Exceeds, Search
    <2>2. /\ Found(sent) # {} /\ Min(Found(sent)) = Min(Found(buffer'))
          /\ Min(Found(buffer')) \in 1 .. m - 1
      BY <1>1, <1>7, FoundInPrefix
    <2>3. Min(Found(buffer')) - 1 \in 0 .. m
      BY <2>2, <1>1
    <2>4. query' = Trim(Prefix(sent, Min(Found(sent)) - 1))
      BY <2>1, <2>2, <2>3, <1>1, PrefixOfPrefix
    <2>5. query' \in Seq(Symbols)
      BY <2>1, <2>3, <1>2, PrefixProperties, Trimmed
    <2>6. query' # NoQuery
      <3> SUFFICES ASSUME query' = NoQuery PROVE FALSE
        OBVIOUS
      <3>1. Len(query') = 1 /\ query'[1] = "none"
        BY DEF NoQuery
      <3>2. query'[1] \in Symbols
        BY <3>1, <2>5, ElementOfSeq
      <3> QED
        BY <3>1, <3>2, Texts
    <2>7. TypeOK'
      BY <1>1, <1>2, <1>3, <1>4, <2>1, <2>6 DEF TypeOK
    <2>8. ReplyInv'
      BY <2>1, <1>1 DEF ReplyInv, IInv
    <2>9. reply' # Framed(TooLarge)
      BY <2>1, <1>1, TextsAreGlyphs, FramedNotEmpty, Zenon
    <2>10. Min(Found(sent)) < MAX_QUERY_SIZE
      BY <2>2, <1>1, <1>7, Sizes
    <2>11. QueryAsSent'
      BY <1>1, <2>2, <2>4, <2>9, <2>10 DEF QueryAsSent
    <2> QED
      BY <2>7, <2>8, <2>11 DEF IInv
  <1>8. CASE m <= MAX_QUERY_SIZE /\ Found(buffer') = {}
    <2>1. UNCHANGED <<at, query, reply>>
      BY <1>2, <1>8, <1>1, Sizes DEF Read, Exceeds, Search
    <2>2. TypeOK'
      BY <1>1, <1>2, <1>3, <1>4, <2>1 DEF TypeOK
    <2>3. ReplyInv'
      BY <1>1, <1>2, <1>8, <2>1 DEF ReplyInv, IInv
    <2>4. QueryAsSent'
      BY <1>1, <2>1 DEF QueryAsSent, IInv
    <2> QED
      BY <2>2, <2>3, <2>4 DEF IInv
  <1> QED
    BY <1>1, <1>6, <1>7, <1>8, Sizes

\* A step that leaves stream, query and reply alone, or closes without a query.
LEMMA SameRequest ==
    ASSUME IInv, UNCHANGED <<sent, buffer, reply>>,
           query' = query \/ (at = "read" /\ query' = <<>>),
           query' = NoQuery <=> at' = "read",
           at' = at \/ at' \in {"write", "close", "closed"},
           at' = "serve" => UNCHANGED written,
           at' = "read" => UNCHANGED written,
           received' \in 0 .. Len(reply), written' \in received' .. Len(reply),
           client' \in {"waits", "answered", "cut", "left"}
    PROVE  IInv'
  <1>1. TypeOK'
    <2>1. at' \in {"read", "serve", "write", "close", "closed"}
      BY DEF IInv, TypeOK
    <2> QED
      BY <2>1 DEF IInv, TypeOK
  <1>2. ReplyInv'
    BY DEF IInv, ReplyInv
  <1>3. QueryAsSent'
    BY DEF IInv, QueryAsSent
  <1> QED
    BY <1>1, <1>2, <1>3 DEF IInv

\* A reply is chosen: it is not the refusal of what is too large.
LEMMA Serving ==
    ASSUME IInv, NEW text \in Results \cup {Report, Violation, Failure}, Serve(text)
    PROVE  IInv'
  <1>1. /\ at = "serve" /\ at' = "write" /\ reply' = Framed(text)
        /\ UNCHANGED <<sent, buffer, query, written, received, client>>
    BY DEF Serve, reading, listening
  <1>2. text \in Seq(Glyphs)
    BY TextsAreGlyphs, Texts
  <1>3. reply' \in Seq(Glyphs) /\ Len(reply') \in Nat
    BY <1>1, <1>2, FramedProperties
  <1>4. reply = <<>> /\ written = 0 /\ received = 0
    BY <1>1 DEF IInv, TypeOK, ReplyInv
  <1>5. TypeOK'
    BY <1>1, <1>3, <1>4 DEF IInv, TypeOK
  <1>6. ReplyInv'
    BY <1>1, <1>3 DEF ReplyInv
  <1>7. reply' # Framed(TooLarge)
    BY <1>1, OnlyTooLarge, Zenon
  <1>8. QueryAsSent'
    BY <1>1, <1>7 DEF IInv, QueryAsSent
  <1> QED
    BY <1>5, <1>6, <1>8 DEF IInv

LEMMA InvNext == IInv /\ [Next]_vars => IInv'
  <1> SUFFICES ASSUME IInv, [Next]_vars PROVE IInv'
    OBVIOUS
  <1>0. /\ Len(reply) \in Nat
        /\ received \in 0 .. Len(reply) /\ written \in received .. Len(reply)
        /\ client \in {"waits", "answered", "cut", "left"}
        /\ query = NoQuery <=> at = "read"
    BY LenProperties DEF IInv, TypeOK, ReplyInv
  <1>1. ASSUME NEW n \in 1 .. ChunkSize, Read(n) PROVE IInv'
    BY <1>1, Reading
  <1>2. CASE ReadFails
    <2>1. query' # NoQuery
      BY <1>2 DEF ReadFails, NoQuery
    <2> QED
      BY <1>0, <1>2, <2>1, SameRequest DEF ReadFails, replying, listening
  <1>3. ASSUME NEW text \in Results \cup {Report, Violation, Failure}, Serve(text)
        PROVE  IInv'
    BY <1>3, Serving
  <1>4. ASSUME NEW n \in 1 .. Len(reply), Write(n) PROVE IInv'
    <2>1. /\ UNCHANGED <<sent, buffer, reply, query, received, client>>
          /\ at = "write" /\ at' \in {"write", "close"}
      BY <1>4 DEF Write, reading, listening
    <2>2. /\ received' \in 0 .. Len(reply) /\ written' \in received' .. Len(reply)
          /\ client' \in {"waits", "answered", "cut", "left"}
      BY <1>0, <1>4, <2>1 DEF Write
    <2> QED
      BY <1>0, <2>1, <2>2, SameRequest
  <1>5. ASSUME NEW n \in 1 .. Len(reply), Receive(n) PROVE IInv'
    <2>1. UNCHANGED <<sent, buffer, reply, query, at, written>>
      BY <1>5 DEF Receive, reading, replying
    <2>2. /\ received' \in 0 .. Len(reply) /\ written' \in received' .. Len(reply)
          /\ client' \in {"waits", "answered", "cut", "left"}
      BY <1>0, <1>5, <2>1 DEF Receive
    <2> QED
      BY <1>0, <2>1, <2>2, SameRequest
  <1>6. CASE WriteFails
    <2>1. /\ UNCHANGED <<sent, buffer, reply, query, written, received, client>>
          /\ at = "write" /\ at' = "close"
      BY <1>6 DEF WriteFails, reading, replying, listening
    <2>2. /\ received' \in 0 .. Len(reply) /\ written' \in received' .. Len(reply)
          /\ client' \in {"waits", "answered", "cut", "left"}
      BY <1>0, <1>6, <2>1 DEF WriteFails
    <2> QED
      BY <1>0, <2>1, <2>2, SameRequest
  <1>7. CASE Close
    <2>1. /\ UNCHANGED <<sent, buffer, reply, query, received, client>>
          /\ at = "close" /\ at' = "closed"
      BY <1>7 DEF Close, reading, listening
    <2>2. /\ received' \in 0 .. Len(reply) /\ written' \in received' .. Len(reply)
          /\ client' \in {"waits", "answered", "cut", "left"}
      BY <1>0, <1>7, <2>1 DEF Close
    <2> QED
      BY <1>0, <2>1, <2>2, SameRequest
  <1>8. CASE ConnectionEnds
    <2>1. UNCHANGED <<sent, buffer, reply, query, at, written, received>>
      BY <1>8 DEF ConnectionEnds, reading, replying
    <2>2. /\ received' \in 0 .. Len(reply) /\ written' \in received' .. Len(reply)
          /\ client' \in {"waits", "answered", "cut", "left"}
      BY <1>0, <1>8, <2>1 DEF ConnectionEnds
    <2> QED
      BY <1>0, <2>1, <2>2, SameRequest
  <1>9. CASE Leave
    <2>1. UNCHANGED <<sent, buffer, reply, query, at, written, received>>
      BY <1>9 DEF Leave, reading, replying
    <2>2. /\ received' \in 0 .. Len(reply) /\ written' \in received' .. Len(reply)
          /\ client' \in {"waits", "answered", "cut", "left"}
      BY <1>0, <1>9, <2>1 DEF Leave
    <2> QED
      BY <1>0, <2>1, <2>2, SameRequest
  <1>10. CASE UNCHANGED vars
    <2>1. UNCHANGED <<sent, buffer, reply, query, at, written, received, client>>
      BY <1>10 DEF vars, reading, replying, listening
    <2>2. /\ received' \in 0 .. Len(reply) /\ written' \in received' .. Len(reply)
          /\ client' \in {"waits", "answered", "cut", "left"}
      BY <1>0, <1>10, <2>1
    <2> QED
      BY <1>0, <2>1, <2>2, SameRequest
  <1> QED
    BY <1>1, <1>2, <1>3, <1>4, <1>5, <1>6, <1>7, <1>8, <1>9, <1>10
       DEF Next, Done

\* The invariant holds, however a request is cut and answered.
THEOREM FramingInvariant == Spec => []IInv
  BY InvInit, InvNext, PTL DEF Spec

\* Every variable keeps its type, and the buffer its bound (CacheEngine.hpp:152).
THEOREM FramingTypeCorrect == Spec => []TypeOK
  <1>1. IInv => TypeOK
    BY DEF IInv
  <1> QED
    BY <1>1, FramingInvariant, PTL

\* However the stream is cut, the query is the text before its first delimiter,
\* and nothing within the limit is refused as too large (CacheEngine.hpp:150-168).
THEOREM QueriesAreAsSent == Spec => []QueryAsSent
  <1>1. IInv => QueryAsSent
    BY DEF IInv
  <1> QED
    BY <1>1, FramingInvariant, PTL

-----------------------------------------------------------------------------
(* Answers                                                                 *)

LEMMA FoundInPiece ==
    ASSUME NEW S, NEW s \in Seq(S), NEW n \in 0 .. Len(s)
    PROVE  Found(Prefix(s, n)) = {i \in Found(s) : i < n}
  <1>1. Len(Prefix(s, n)) = n /\ \A i \in 1 .. n : Prefix(s, n)[i] = s[i]
    BY PrefixProperties
  <1>2. Len(s) \in Nat /\ n \in Nat /\ n <= Len(s)
    BY LenProperties
  <1>3. PICK p : p = Prefix(s, n)
    OBVIOUS
  <1>4. Found(p) = {i \in 1 .. n - 1 : p[i] = Delimiter[1] /\ p[i + 1] = Delimiter[2]}
    BY <1>1, <1>3 DEF Found
  <1>5. \A i \in 1 .. n - 1 : p[i] = s[i] /\ p[i + 1] = s[i + 1] /\ i \in 1 .. Len(s) - 1
    BY <1>1, <1>2, <1>3
  <1>6. \A i \in 1 .. Len(s) - 1 : i < n <=> i \in 1 .. n - 1
    BY <1>2
  <1> QED
    BY <1>3, <1>4, <1>5, <1>6 DEF Found

\* A framed text ends in a delimiter, its only one if the text has none.
LEMMA FoundFramed ==
    ASSUME NEW text \in Seq(Glyphs)
    PROVE  /\ Len(text) + 2 \in Found(Framed(text))
           /\ Found(text) = {} => Found(Framed(text)) = {Len(text) + 2}
  <1>1. PICK n \in Nat : n = Len(text)
    BY LenProperties
  <1>2. PICK f : f = Framed(text)
    OBVIOUS
  <1>3. /\ Len(f) = n + 4 /\ \A i \in 1 .. n : f[i] = text[i]
        /\ f[n + 1] = Blank /\ f[n + 2] = Delimiter[1]
        /\ f[n + 3] = Delimiter[2] /\ f[n + 4] = Blank
    BY <1>1, <1>2, FramedProperties
  <1>4. Blank # Delimiter[1] /\ Blank # Delimiter[2] /\ Delimiter[1] # Delimiter[2]
    BY DEF Blank, Delimiter
  <1>5. n + 2 \in Found(f)
    <2>1. n + 2 \in 1 .. Len(f) - 1 /\ (n + 2) + 1 = n + 3
      BY <1>3
    <2> QED
      BY <1>3, <2>1 DEF Found
  <1>6. ASSUME Found(text) = {}, NEW i \in Found(f) PROVE i = n + 2
    <2>1. i \in 1 .. n + 3 /\ f[i] = Delimiter[1] /\ f[i + 1] = Delimiter[2]
      BY <1>3 DEF Found
    <2>2. i # n + 1 /\ i # n + 3
      BY <1>3, <1>4, <2>1
    <2>3. i # n
      BY <1>3, <1>4, <2>1
    <2>4. i \notin 1 .. n - 1
      <3> SUFFICES ASSUME i \in 1 .. n - 1 PROVE FALSE
        OBVIOUS
      <3>1. i \in 1 .. n /\ i + 1 \in 1 .. n
        OBVIOUS
      <3>2. text[i] = Delimiter[1] /\ text[i + 1] = Delimiter[2]
        BY <1>3, <2>1, <3>1
      <3> QED
        BY <1>1, <1>6, <3>2 DEF Found
    <2> QED
      BY <2>1, <2>2, <2>3, <2>4
  <1> QED
    BY <1>1, <1>2, <1>5, <1>6

\* Blanks behind a text are trimmed off.
LEMMA TrimBlanks ==
    ASSUME NEW s \in Seq(Glyphs), NEW t \in Seq(Glyphs), Len(s) <= Len(t),
           \A i \in 1 .. Len(s) : t[i] = s[i],
           \A i \in Len(s) + 1 .. Len(t) : t[i] = Blank
    PROVE  Trim(t) = Trim(s)
  <1> DEFINE ink == {i \in DOMAIN s : s[i] # Blank}
  <1>1. PICK n \in Nat, m \in Nat :
            n = Len(s) /\ m = Len(t) /\ DOMAIN s = 1 .. n /\ DOMAIN t = 1 .. m
    BY LenProperties
  <1>2. {i \in DOMAIN t : t[i] # Blank} = ink
    <2>1. ASSUME NEW i \in 1 .. m PROVE t[i] # Blank <=> i \in 1 .. n /\ s[i] # Blank
      <3>1. i \in 1 .. n \/ i \in n + 1 .. m
        BY <1>1
      <3>2. i \in n + 1 .. m => i \notin 1 .. n
        BY <1>1
      <3> QED
        BY <1>1, <3>1, <3>2
    <2>2. \A i \in 1 .. n : i \in 1 .. m
      BY <1>1
    <2> QED
      BY <1>1, <2>1, <2>2
  <1>3. CASE ink = {}
    BY <1>2, <1>3 DEF Trim
  <1>4. CASE ink # {}
    <2>1. ink \subseteq 1 .. n /\ ink \subseteq Nat
      BY <1>1
    <2> HIDE DEF ink
    <2>2. Min(ink) \in 1 .. n
      <3>1. Min(ink) \in ink
        BY <2>1, <1>4, Least
      <3> QED
        BY <2>1, <3>1
    <2>3. Max(ink) \in 1 .. n
      BY <2>1, <1>4, Greatest
    <2> DEFINE a == Min(ink)
               b == Max(ink)
               u == SubSeq(s, a, b)
               v == SubSeq(t, a, b)
    <2>4. a \in 1 .. n /\ b \in 1 .. n
      BY <2>2, <2>3
    <2>t. Trim(s) = u /\ Trim(t) = v
      BY <1>2, <1>4 DEF Trim, ink
    <2> HIDE DEF a, b
    <2>5. \A i \in a .. b : i \in 1 .. n /\ s[i] \in Glyphs /\ t[i] = s[i]
      BY <1>1, <2>4, ElementOfSeq
    <2>6. /\ u \in Seq(Glyphs) /\ Len(u) = IF a <= b THEN b - a + 1 ELSE 0
          /\ \A i \in 1 .. b - a + 1 : u[i] = s[a + i - 1]
      BY <2>4, <2>5, SubSeqProperties
    <2>7. /\ v \in Seq(Glyphs) /\ Len(v) = IF a <= b THEN b - a + 1 ELSE 0
          /\ \A i \in 1 .. b - a + 1 : v[i] = t[a + i - 1]
      BY <2>4, <2>5, SubSeqProperties
    <2> HIDE DEF u, v
    <2>8. ASSUME NEW i \in 1 .. Len(u) PROVE u[i] = v[i]
      <3>1. i \in 1 .. b - a + 1
        BY <2>4, <2>6
      <3>2. a + i - 1 \in a .. b
        BY <2>4, <3>1
      <3> QED
        BY <2>5, <2>6, <2>7, <3>1, <3>2
    <2>9. u = v
      BY <2>6, <2>7, <2>8, SeqEqual
    <2> QED
      BY <2>t, <2>9
  <1> QED
    BY <1>3, <1>4

\* What the client makes of a reply of which it has the delimiter.
LEMMA AnswerIsText ==
    ASSUME NEW text \in Seq(Glyphs), Found(text) = {}, reply = Framed(text),
           received \in 0 .. Len(reply), Found(Prefix(reply, received)) # {}
    PROVE  Answer = Trim(text)
  <1> DEFINE s == Prefix(reply, received)
             inDelimiter == Found(s) \cup {i + 1 : i \in Found(s)}
             t == [i \in DOMAIN s |-> IF i \in inDelimiter THEN Blank ELSE s[i]]
  <1>1. PICK n \in Nat : n = Len(text)
    BY LenProperties
  <1>2. /\ reply \in Seq(Glyphs) /\ Len(reply) = n + 4
        /\ \A i \in 1 .. n : reply[i] = text[i]
        /\ reply[n + 1] = Blank /\ reply[n + 4] = Blank
    BY <1>1, FramedProperties
  <1>3. /\ s \in Seq(Glyphs) /\ Len(s) = received /\ DOMAIN s = 1 .. received
        /\ \A i \in 1 .. received : s[i] = reply[i]
    <2>1. /\ Prefix(reply, received) \in Seq(Glyphs)
          /\ Len(Prefix(reply, received)) = received
          /\ \A i \in 1 .. received : Prefix(reply, received)[i] = reply[i]
      BY <1>2, PrefixProperties
    <2> HIDE DEF s
    <2>2. /\ s \in Seq(Glyphs) /\ Len(s) = received
          /\ \A i \in 1 .. received : s[i] = reply[i]
      BY <2>1 DEF s
    <2>3. DOMAIN s = 1 .. Len(s)
      BY <2>2, LenProperties
    <2> QED
      BY <2>2, <2>3
  <1>4. Found(s) = {i \in {n + 2} : i < received}
    BY <1>1, <1>2, FoundInPiece, FoundFramed
  <1>5. Found(s) = {n + 2} /\ n + 2 < received /\ received \in Nat /\ received <= n + 4
    BY <1>2, <1>4
  <1>6. inDelimiter = {n + 2, n + 3}
    BY <1>5
  <1> HIDE DEF s
  <1>7. t \in Seq(Glyphs) /\ Len(t) = received
    <2>1. \A i \in 1 .. received : s[i] \in Glyphs
      BY <1>3, ElementOfSeq
    <2>2. Blank \in Glyphs
      BY Texts DEF Glyphs
    <2>3. t \in [1 .. received -> Glyphs]
      BY <1>3, <2>1, <2>2
    <2> QED
      BY <1>5, <2>3
  <1>8. \A i \in 1 .. received : t[i] = IF i \in {n + 2, n + 3} THEN Blank ELSE reply[i]
    BY <1>3, <1>6
  <1>9. ASSUME NEW i \in 1 .. n PROVE t[i] = text[i]
    <2>1. i \in 1 .. received /\ i \notin {n + 2, n + 3}
      BY <1>5
    <2> HIDE DEF t
    <2> QED
      BY <1>2, <1>8, <2>1
  <1>10. ASSUME NEW i \in n + 1 .. received PROVE t[i] = Blank
    <2>1. /\ i \in 1 .. received
          /\ i = n + 1 \/ i = n + 4 \/ i \in {n + 2, n + 3}
      BY <1>5
    <2> HIDE DEF t
    <2> QED
      BY <1>2, <1>8, <2>1
  <1>11. Answer = Trim(t)
    BY DEF Answer, s
  <1> HIDE DEF t
  <1>12. Trim(t) = Trim(text)
    BY <1>1, <1>5, <1>7, <1>9, <1>10, TrimBlanks
  <1> QED
    BY <1>11, <1>12

LEMMA TextOfReply ==
    ASSUME NEW text \in Seq(Glyphs), reply = Framed(text)
    PROVE  Text = text
  <1>1. <<>> \in Seq(Glyphs) /\ Len(<<>>) = 0
    OBVIOUS
  <1>2. Len(Framed(<<>>)) = 4
    <2>1. Len(Framed(<<>>)) = Len(<<>>) + 4
      BY <1>1, FramedProperties
    <2> QED
      BY <1>1, <2>1
  <1>3. PICK n \in Nat : n = Len(text)
    BY LenProperties
  <1>4. /\ reply \in Seq(Glyphs) /\ Len(reply) = n + 4
        /\ \A i \in 1 .. n : reply[i] = text[i]
    BY <1>3, FramedProperties
  <1>5. Len(reply) - Len(Framed(<<>>)) = n /\ n \in 0 .. Len(reply)
    <2>1. PICK k : k = Len(Framed(<<>>))
      OBVIOUS
    <2>2. k = 4
      BY <1>2, <2>1
    <2>3. Len(reply) - k = n
      BY <1>4, <2>2
    <2>4. n \in 0 .. Len(reply)
      BY <1>4
    <2> QED
      BY <2>1, <2>3, <2>4
  <1>6. /\ Prefix(reply, n) \in Seq(Glyphs) /\ Len(Prefix(reply, n)) = n
        /\ \A i \in 1 .. n : Prefix(reply, n)[i] = reply[i]
    BY <1>4, <1>5, PrefixProperties
  <1>7. Prefix(reply, n) = text
    BY <1>3, <1>4, <1>6, SeqEqual
  <1> QED
    BY <1>5, <1>7 DEF Text

-----------------------------------------------------------------------------
(* What the connection has of the reply                                    *)

\* A reply is a framed text; whoever waits has not seen its delimiter, who was
\* answered has; and a connection that is closed on someone who waits was given
\* up, has input that was not read, or the whole reply is on its way.
WholeInv ==
    /\ \/ reply = <<>>
       \/ \E text \in Results \cup {TooLarge, Report, Violation, Failure} :
             reply = Framed(text)
    /\ at = "write" => reply # <<>>
    /\ client = "waits" => Found(Prefix(reply, received)) = {}
    /\ client = "answered" => Found(Prefix(reply, received)) # {}
    /\ client = "cut" => at = "closed" /\ (query = <<>> \/ Unread)
    /\ client = "waits" /\ at \in {"close", "closed"} =>
          query = <<>> \/ Unread \/ (reply # <<>> /\ written = Len(reply))

LEMMA NothingReceived ==
    ASSUME NEW s \in Seq(Glyphs)
    PROVE  Found(Prefix(s, 0)) = {}
  <1>1. Len(s) \in Nat
    BY LenProperties
  <1>2. Found(Prefix(s, 0)) = {i \in Found(s) : i < 0}
    BY <1>1, FoundInPiece
  <1> QED
    BY <1>1, <1>2 DEF Found

LEMMA WholeInit == Init => WholeInv
  <1> SUFFICES ASSUME Init PROVE WholeInv
    OBVIOUS
  <1>1. /\ reply = <<>> /\ received = 0 /\ client = "waits" /\ at = "read"
    BY DEF Init
  <1>2. Found(Prefix(<<>>, 0)) = {}
    <2>1. <<>> \in Seq(Glyphs)
      OBVIOUS
    <2> QED
      BY <2>1, NothingReceived
  <1> QED
    BY <1>1, <1>2 DEF WholeInv

\* A reply is chosen: the client has nothing of it.
LEMMA Choosing ==
    ASSUME IInv, WholeInv, at \in {"read", "serve"},
           NEW text \in Results \cup {TooLarge, Report, Violation, Failure},
           reply' = Framed(text), at' = "write",
           UNCHANGED <<received, client>>
    PROVE  WholeInv'
  <1>1. reply = <<>> /\ received = 0
    BY DEF IInv, TypeOK, ReplyInv
  <1>2. text \in Seq(Glyphs)
    BY TextsAreGlyphs, Texts
  <1>3. reply' \in Seq(Glyphs) /\ reply' # <<>>
    BY <1>2, FramedProperties, FramedNotEmpty
  <1>4. Found(Prefix(reply', 0)) = {}
    BY <1>3, NothingReceived
  <1>5. <<>> \in Seq(Glyphs)
    OBVIOUS
  <1>6. Found(Prefix(<<>>, 0)) = {}
    BY <1>5, NothingReceived
  <1>7. client # "answered" /\ client # "cut"
    BY <1>1, <1>6 DEF WholeInv
  <1> QED
    BY <1>1, <1>3, <1>4, <1>7 DEF WholeInv

\* A step that gives the client nothing.
LEMMA NoNews ==
    ASSUME WholeInv, UNCHANGED <<reply, received>>,
           at' = "write" => at = "write",
           client' = client \/ client' \in {"cut", "left"},
           client' = "cut" => at' = "closed" /\ (query' = <<>> \/ Unread'),
           client' = "waits" /\ at' \in {"close", "closed"} =>
               query' = <<>> \/ Unread' \/ (reply # <<>> /\ written' = Len(reply))
    PROVE  WholeInv'
  <1>1. client' \in {"waits", "answered"} => client' = client
    OBVIOUS
  <1> QED
    BY <1>1 DEF WholeInv

\* Who waits on a closed connection after all of a reply has been received would
\* have seen its delimiter.
LEMMA CutShort ==
    ASSUME IInv, WholeInv, client = "waits", received = Len(reply), reply # <<>>
    PROVE  FALSE
  <1>1. PICK text \in Results \cup {TooLarge, Report, Violation, Failure} :
            reply = Framed(text)
    BY DEF WholeInv
  <1>2. text \in Seq(Glyphs)
    BY TextsAreGlyphs, Texts
  <1>3. Len(text) \in Nat
    BY <1>2, LenProperties
  <1>4. reply \in Seq(Glyphs) /\ Len(reply) = Len(text) + 4
    BY <1>1, <1>2, FramedProperties
  <1>5. received \in 0 .. Len(reply)
    BY <1>3, <1>4
  <1>6. Len(text) + 2 \in Found(reply)
    BY <1>1, <1>2, FoundFramed
  <1>7. Len(text) + 2 < received
    BY <1>3, <1>4
  <1>8. Found(Prefix(reply, received)) = {i \in Found(reply) : i < received}
    BY <1>4, <1>5, FoundInPiece
  <1>9. Len(text) + 2 \in Found(Prefix(reply, received))
    BY <1>6, <1>7, <1>8
  <1> QED
    BY <1>9 DEF WholeInv

LEMMA WholeNext == IInv /\ WholeInv /\ [Next]_vars => WholeInv'
  <1> SUFFICES ASSUME IInv, WholeInv, [Next]_vars PROVE WholeInv'
    OBVIOUS
  <1>0. /\ client = "cut" => at = "closed" /\ (query = <<>> \/ Unread)
        /\ client = "waits" /\ at \in {"close", "closed"} =>
              query = <<>> \/ Unread \/ (reply # <<>> /\ written = Len(reply))
    BY DEF WholeInv
  <1>1. ASSUME NEW n \in 1 .. ChunkSize, Read(n) PROVE WholeInv'
    <2>1. at = "read" /\ UNCHANGED <<sent, written, received, client>>
      BY <1>1 DEF Read, listening
    <2>2. CASE at' = "write" /\ reply' = Framed(TooLarge) /\ query' = <<>>
      BY <2>1, <2>2, Choosing
    <2>3. CASE at' = "close" /\ query' = <<>> /\ UNCHANGED reply
      BY <1>0, <2>1, <2>3, NoNews
    <2>4. CASE at' \in {"serve", "read"} /\ UNCHANGED reply
      BY <1>0, <2>1, <2>4, NoNews
    <2>5. \/ at' = "write" /\ reply' = Framed(TooLarge) /\ query' = <<>>
          \/ at' = "close" /\ query' = <<>> /\ UNCHANGED reply
          \/ at' \in {"serve", "read"} /\ UNCHANGED reply
      BY <1>1, <2>1 DEF Read
    <2> QED
      BY <2>2, <2>3, <2>4, <2>5
  <1>2. CASE ReadFails
    <2>1. /\ at = "read" /\ at' = "close" /\ query' = <<>>
          /\ UNCHANGED <<reply, received, client>>
      BY <1>2 DEF ReadFails, replying, listening
    <2> QED
      BY <1>0, <2>1, NoNews
  <1>3. ASSUME NEW text \in Results \cup {Report, Violation, Failure}, Serve(text)
        PROVE  WholeInv'
    <2>1. /\ at = "serve" /\ at' = "write" /\ reply' = Framed(text)
          /\ UNCHANGED <<received, client>>
      BY <1>3 DEF Serve, listening
    <2>2. text \in Results \cup {TooLarge, Report, Violation, Failure}
      OBVIOUS
    <2> QED
      BY <2>1, <2>2, Choosing
  <1>4. ASSUME NEW n \in 1 .. Len(reply), Write(n) PROVE WholeInv'
    <2>1. /\ at = "write" /\ UNCHANGED <<sent, buffer, query, reply, received, client>>
          /\ at' = IF written' = Len(reply) THEN "close" ELSE "write"
      BY <1>4 DEF Write, reading, listening
    <2>2. reply # <<>>
      BY <2>1 DEF WholeInv
    <2> QED
      BY <1>0, <2>1, <2>2, NoNews
  <1>5. ASSUME NEW n \in 1 .. Len(reply), Receive(n) PROVE WholeInv'
    <2>1. /\ client = "waits" /\ UNCHANGED <<sent, buffer, query, at, reply, written>>
          /\ client' = IF Found(Prefix(reply, received')) # {} THEN "answered"
                                                               ELSE "waits"
      BY <1>5 DEF Receive, reading, replying
    <2>2. Prefix(reply', received') = Prefix(reply, received')
      BY <2>1
    <2>3. Unread' = Unread
      BY <2>1 DEF Unread
    <2> QED
      BY <1>0, <2>1, <2>2, <2>3 DEF WholeInv
  <1>6. CASE WriteFails
    <2>1. /\ at = "write" /\ client # "waits" /\ at' = "close"
          /\ UNCHANGED <<reply, received, client>>
      BY <1>6 DEF WriteFails, replying, listening
    <2> QED
      BY <1>0, <2>1, NoNews
  <1>7. CASE Close
    <2>1. /\ at = "close" /\ at' = "closed"
          /\ UNCHANGED <<sent, buffer, query, reply, received, client>>
          /\ Unread \/ written' = written
      BY <1>7 DEF Close, reading, listening
    <2>2. Unread' = Unread
      BY <2>1 DEF Unread
    <2> QED
      BY <1>0, <2>1, <2>2, NoNews
  <1>8. CASE ConnectionEnds
    <2>1. /\ client = "waits" /\ at = "closed" /\ received = written
          /\ client' = "cut"
          /\ UNCHANGED <<sent, buffer, query, at, reply, received, written>>
      BY <1>8 DEF ConnectionEnds, reading, replying
    <2>2. Unread' = Unread
      BY <2>1 DEF Unread
    <2>3. query = <<>> \/ Unread
      BY <1>0, <2>1, CutShort
    <2> QED
      BY <2>1, <2>2, <2>3, NoNews
  <1>9. CASE Leave
    <2>1. client' = "left" /\ UNCHANGED <<at, reply, received>>
      BY <1>9 DEF Leave, reading, replying
    <2> QED
      BY <2>1, NoNews
  <1>10. CASE UNCHANGED vars
    <2>1. UNCHANGED <<sent, buffer, query, at, reply, written, received, client>>
      BY <1>10 DEF vars, reading, replying, listening
    <2>2. Unread' = Unread
      BY <2>1 DEF Unread
    <2> QED
      BY <1>0, <2>1, <2>2, NoNews
  <1> QED
    BY <1>1, <1>2, <1>3, <1>4, <1>5, <1>6, <1>7, <1>8, <1>9, <1>10
       DEF Next, Done

LEMMA WholeIsWhole == IInv /\ WholeInv => AnswerWhole
  <1> SUFFICES ASSUME IInv, WholeInv PROVE AnswerWhole
    OBVIOUS
  <1>1. ASSUME client = "answered", Found(Text) = {} PROVE Answer = Trim(Text)
    <2>1. Found(Prefix(reply, received)) # {}
      BY <1>1 DEF WholeInv
    <2>2. received \in 0 .. Len(reply) /\ reply \in Seq(Glyphs)
      BY DEF IInv, TypeOK, ReplyInv
    <2>3. reply # <<>>
      <3> SUFFICES ASSUME reply = <<>> PROVE FALSE
        OBVIOUS
      <3>1. received = 0
        BY <2>2
      <3> QED
        BY <2>1, <2>2, <3>1, NothingReceived
    <2>4. PICK text \in Results \cup {TooLarge, Report, Violation, Failure} :
              reply = Framed(text)
      BY <2>3 DEF WholeInv
    <2>5. text \in Seq(Glyphs)
      BY TextsAreGlyphs, Texts
    <2>6. Text = text
      BY <2>4, <2>5, TextOfReply
    <2>7. Answer = Trim(text)
      BY <1>1, <2>1, <2>2, <2>4, <2>5, <2>6, AnswerIsText
    <2> QED
      BY <2>6, <2>7
  <1>2. client = "cut" => query = <<>> \/ Unread
    BY DEF WholeInv
  <1> QED
    BY <1>1, <1>2 DEF AnswerWhole

\* A client that gets an answer gets the whole text the server wrote, through any
\* number of partial writes and reads, and one that waited in vain was given up or
\* had sent more than was read (CacheEngine.hpp:117-130, 249-251).
THEOREM AnswersAreWhole == Spec => []AnswerWhole
  <1>1. Spec => []WholeInv
    BY FramingInvariant, WholeInit, WholeNext, PTL DEF Spec
  <1> QED
    BY <1>1, FramingInvariant, WholeIsWhole, PTL

=============================================================================
