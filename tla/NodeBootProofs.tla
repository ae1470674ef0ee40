--------------------------- MODULE NodeBootProofs ---------------------------
(***************************************************************************)
(* Proofs about NodeBoot for every set of configuration files and any      *)
(* number of descriptors and faults: a line lost by a constructor that     *)
(* threw keeps the node down for good, the static node's configuration is  *)
(* the adapter's unless a start has failed, the loader reads a file of any *)
(* length as it is written, and a started node has both radios complete.   *)
(***************************************************************************)
EXTENDS NodeBoot, TLAPS, WellFoundedInduction, FiniteSetTheorems

ResetLine(r) == LineOf(config[1], r, "reset")
Constructing == {"openSpi", "openGpioChip", "requestGpioLines"}

(* The reset line is the first one a radio requests: who holds or has lost *)
(* any line holds or has lost that one.                                    *)
ResetFirst ==
    /\ \A r \in Radio : held[r] # {} => ResetLine(r) \in held[r]
    /\ leakedLines # {} => \E r \in Radio : ResetLine(r) \in leakedLines
    /\ pc = "requestGpioLines" /\ held[radio] = {} => todo # <<>> /\ Head(todo) = "reset"

(* No line is both held and lost; nothing is before there is a node.       *)
Apart ==
    /\ \A r \in Radio : held[r] \cap leakedLines = {}
    /\ config = <<>> => /\ leakedLines = {} /\ \A r \in Radio : held[r] = {}
                        /\ pc = "idle" /\ ~m_started

(* Which radios are complete by where start() is.                          *)
Built ==
    /\ pc \in Constructing /\ radio = "RadiosTx" => held["RadiosRx"] # {}
    /\ pc \in {"configure", "listen"} \/ m_started => \A r \in Radio : held[r] # {}
    /\ m_started => pc \in {"idle", "hung"}

Shape ==
    /\ radio \in Radio
    /\ held = [r \in Radio |-> held[r]]

LeakInv == Shape /\ Apart /\ ResetFirst /\ Built

LEMMA Singleton ==
    ASSUME NEW S, NEW p \in S
    PROVE  <<p>> \in Seq(S) /\ <<>> \in Seq(S)
OBVIOUS

LEMMA PairFirst ==
    ASSUME NEW S, NEW a \in S, NEW b \in S, NEW s \in Seq(S), NEW t \in Seq(S),
           NEW u \in Seq(S), NEW v \in Seq(S)
    PROVE  LET w == <<a, b>> \o s \o t \o u \o v IN w # <<>> /\ Head(w) = a
OBVIOUS

LEMMA PinsStart ==
    ASSUME NEW cfg, NEW r
    PROVE  PinsOf(cfg, r) # <<>> /\ Head(PinsOf(cfg, r)) = "reset"
<1> DEFINE PinNames == {"reset", "busy", "dio1", "dio2", "dio3", "tx_enable"}
<1>0. {"reset", "busy"} \cup {"dio1", "dio2", "dio3", "tx_enable"} \subseteq PinNames
  OBVIOUS
<1> HIDE DEF PinNames
<1>1. ASSUME NEW flag, NEW p \in PinNames
      PROVE  Optional(cfg, r, flag, p) \in Seq(PinNames)
  BY Singleton DEF Optional
<1>2. /\ Optional(cfg, r, "has_dio1", "dio1") \in Seq(PinNames)
      /\ Optional(cfg, r, "has_dio2", "dio2") \in Seq(PinNames)
      /\ Optional(cfg, r, "has_dio3", "dio3") \in Seq(PinNames)
      /\ Optional(cfg, r, "has_tx_enable", "tx_enable") \in Seq(PinNames)
  BY <1>0, <1>1
<1>3. "reset" \in PinNames /\ "busy" \in PinNames
  BY <1>0
<1> QED
  BY <1>2, <1>3, PairFirst DEF PinsOf

LEMMA LeakInit == Init => LeakInv
BY DEF Init, LeakInv, Shape, Apart, ResetFirst, Built, Radio, Constructing

(* A constructor that throws.                                              *)
LEMMA ThrowKeeps ==
    ASSUME LeakInv, NEW extra, constructorThrows(extra), pc \in Constructing
    PROVE  LeakInv'
<1> USE DEF LeakInv, constructorThrows, releaseAll, giveUp, envVars, nodeVars
<1>1. Shape' /\ Built'
  BY DEF Shape, Built, Constructing
<1>2. Apart'
  BY DEF Apart, Constructing
<1>3. ResetFirst'
  BY DEF ResetFirst, Shape, ResetLine, LineOf
<1> QED
  BY <1>1, <1>2, <1>3

(* A failure after both constructors.                                      *)
LEMMA FailureKeeps ==
    ASSUME LeakInv, startThrows, pc \in {"configure", "listen"}
    PROVE  LeakInv'
BY DEF LeakInv, startThrows, releaseAll, giveUp, envVars, nodeVars, Shape, Built, Apart,
       Constructing, ResetFirst, ResetLine, LineOf

(* A step that leaves the handles and the configuration alone.             *)
LEMMA QuietStep ==
    ASSUME LeakInv, UNCHANGED <<config, held, leakedLines>>,
           radio' \in Radio, config # <<>>, pc' # "requestGpioLines", Built'
    PROVE  LeakInv'
BY DEF LeakInv, Shape, Apart, ResetFirst, ResetLine, LineOf

LEMMA LeakNext == LeakInv /\ [Next]_vars => LeakInv'
<1> SUFFICES ASSUME LeakInv, [Next]_vars
             PROVE  LeakInv'
  OBVIOUS
<1> USE DEF envVars, nodeVars, handleVars
<1>0. CASE UNCHANGED vars
  BY <1>0 DEF vars, LeakInv, Shape, Apart, ResetFirst, Built, ResetLine, LineOf
<1>1. CASE ensureNodeStarted
  BY <1>1 DEF ensureNodeStarted, LeakInv, Shape, Apart, ResetFirst, Built, ResetLine, LineOf,
              Radio, Constructing
<1>2. CASE validateConfig
  BY <1>2, ThrowKeeps DEF validateConfig, Constructing
<1>3. CASE openSpi
  <2>1. CASE UNCHANGED <<config, held, leakedLines, radio, m_started>> /\ pc' = "openGpioChip"
    BY <1>3, <2>1, QuietStep DEF openSpi, LeakInv, Shape, Apart, Built, Constructing
  <2>2. CASE \E extra : constructorThrows(extra)
    BY <1>3, <2>2, ThrowKeeps DEF openSpi, Constructing
  <2> QED
    BY <1>3, <2>1, <2>2 DEF openSpi
<1>4. CASE openGpioChip
  <2>1. CASE /\ UNCHANGED <<config, held, leakedLines, radio, m_started>>
             /\ pc' = "requestGpioLines" /\ todo' = PinsOf(config[1], radio)
    BY <1>4, <2>1, PinsStart
    DEF openGpioChip, LeakInv, Shape, Apart, ResetFirst, ResetLine, LineOf, Built, Constructing
  <2>2. CASE constructorThrows(0)
    BY <1>4, <2>2, ThrowKeeps DEF openGpioChip, Constructing
  <2> QED
    BY <1>4, <2>1, <2>2 DEF openGpioChip
<1>5. CASE requestRefused
  BY <1>5, ThrowKeeps DEF requestRefused, Constructing
<1>6. CASE requestGranted
  <2>1. /\ UNCHANGED <<config, leakedLines, radio, pc, m_started>>
        /\ held' = [held EXCEPT ![radio] = @ \cup {NextLine}]
        /\ NextLine \notin leakedLines /\ pc = "requestGpioLines" /\ todo # <<>>
    BY <1>6 DEF requestGranted, Grantable, LineFree
  <2>2. held'[radio] = held[radio] \cup {NextLine} /\ \A r \in Radio \ {radio} : held'[r] = held[r]
    BY <2>1 DEF LeakInv, Shape
  <2>3. Shape' /\ config # <<>>
    BY <2>1, <2>2 DEF LeakInv, Shape, Apart
  <2>7. Built'
    <3>1. \A r \in Radio : held[r] # {} => held'[r] # {}
      BY <2>2
    <3> QED
      BY <2>1, <3>1 DEF LeakInv, Built, Constructing, Radio
  <2>4. Apart'
    BY <2>1, <2>2, <2>3 DEF LeakInv, Apart, Shape
  <2>5. held[radio] = {} => NextLine = ResetLine(radio)
    BY <2>1 DEF LeakInv, ResetFirst, NextLine, ResetLine
  <2>6. ResetFirst'
    BY <2>1, <2>2, <2>5 DEF LeakInv, ResetFirst, ResetLine, LineOf, Shape
  <2> QED
    BY <2>3, <2>4, <2>6, <2>7 DEF LeakInv
<1>7. CASE applyInitial
  <2>1. pc = "requestGpioLines" /\ held[radio] # {} /\ config # <<>> /\ ~m_started
    BY <1>7 DEF applyInitial, LeakInv, ResetFirst, Apart, Built
  <2>2. CASE constructorThrows(0)
    BY <2>1, <2>2, ThrowKeeps DEF Constructing
  <2>3. CASE /\ UNCHANGED <<config, held, leakedLines, m_started>>
             /\ \/ radio = "RadiosRx" /\ pc' = "openSpi" /\ radio' = "RadiosTx"
                \/ radio = "RadiosTx" /\ pc' = "configure" /\ radio' = "RadiosRx"
    <3>1. Built'
      BY <2>1, <2>3 DEF LeakInv, Built, Constructing, Radio
    <3> QED
      BY <2>1, <2>3, <3>1, QuietStep DEF Radio
  <2> QED
    BY <1>7, <2>2, <2>3 DEF applyInitial, LeakInv, Shape, Radio
<1>8. CASE configure_radio
  <2>1. CASE startThrows
    BY <1>8, <2>1, FailureKeeps DEF configure_radio
  <2>2. CASE /\ UNCHANGED <<config, held, leakedLines, m_started>>
             /\ pc' \in {"configure", "listen", "hung"} /\ radio' \in Radio
    BY <1>8, <2>2, QuietStep DEF configure_radio, LeakInv, Apart, Built, Constructing
  <2> QED
    BY <1>8, <2>1, <2>2 DEF configure_radio, LeakInv, Shape, Radio
<1>9. CASE setRx
  <2>1. CASE startThrows
    BY <1>9, <2>1, FailureKeeps DEF setRx
  <2>2. CASE UNCHANGED <<config, held, leakedLines, radio>> /\ pc' \in {"idle", "hung"}
    BY <1>9, <2>2, QuietStep DEF setRx, LeakInv, Shape, Apart, Built, Constructing
  <2> QED
    BY <1>9, <2>1, <2>2 DEF setRx
<1>10. CASE nodeFails
  BY <1>10, QuietStep DEF nodeFails, LeakInv, Shape, Apart, Built, Constructing
<1>11. CASE Environment
  <2>1. UNCHANGED <<config, held, leakedLines, radio, todo, pc, m_started>>
    BY <1>11 DEF Environment, editFile, busySticks, receptionEnds
  <2> QED
    BY <2>1 DEF LeakInv, Shape, Apart, ResetFirst, Built, ResetLine, LineOf
<1> QED
  BY <1>0, <1>1, <1>2, <1>3, <1>4, <1>5, <1>6, <1>7, <1>8, <1>9, <1>10, <1>11
  DEF Next, Start, Constructor

(* Once a constructor has thrown after its first line was granted, no      *)
(* later attempt of ensureNodeStarted succeeds: every attempt asks for the *)
(* lost reset line again, because the configuration never changes.         *)
THEOREM LeakIsForever == Spec => []NeverUpAfterLineLeak
<1>1. LeakInv => NeverUpAfterLineLeak
  BY DEF LeakInv, Apart, ResetFirst, Built, NeverUpAfterLineLeak
<1> QED
  BY LeakInit, LeakNext, <1>1, PTL DEF Spec

-----------------------------------------------------------------------------
(* Between ticks a node that was built and is not up has failed.           *)
StaleInv ==
    /\ StaleOnlyAfterFailure
    /\ config # <<>> /\ pc = "idle" /\ ~m_started => retried
    /\ config = <<>> => pc = "idle" /\ ~m_started

LEMMA StaleNext == StaleInv /\ [Next]_vars => StaleInv'
<1> SUFFICES ASSUME StaleInv, [Next]_vars
             PROVE  StaleInv'
  OBVIOUS
<1> USE DEF StaleInv, StaleOnlyAfterFailure, envVars, nodeVars, handleVars
<1>0. CASE UNCHANGED vars
  BY <1>0 DEF vars
<1>1. CASE ensureNodeStarted
  BY <1>1 DEF ensureNodeStarted
<1>2. ASSUME NEW extra, constructorThrows(extra), config # <<>>
      PROVE  StaleInv'
  BY <1>2 DEF constructorThrows, giveUp
<1>3. ASSUME startThrows, config # <<>>
      PROVE  StaleInv'
  BY <1>3 DEF startThrows, giveUp
<1>4. CASE Constructor
  BY <1>2, <1>4 DEF Constructor, validateConfig, openSpi, openGpioChip, requestRefused,
                    requestGranted, applyInitial
<1>5. CASE configure_radio
  BY <1>3, <1>5 DEF configure_radio
<1>6. CASE setRx
  BY <1>3, <1>6 DEF setRx
<1>7. CASE nodeFails
  BY <1>7 DEF nodeFails
<1>8. CASE Environment
  BY <1>8 DEF Environment, editFile, busySticks, receptionEnds
<1> QED
  BY <1>0, <1>1, <1>4, <1>5, <1>6, <1>7, <1>8 DEF Next, Start

(* The static node runs on the configuration the adapter holds, unless a   *)
(* start has failed and the file was read again (the function-local static *)
(* of ensureNodeStarted).                                                  *)
THEOREM ConfigFresh == Spec => []StaleOnlyAfterFailure
<1>1. Init => StaleInv
  BY DEF Init, StaleInv, StaleOnlyAfterFailure
<1>2. StaleInv => StaleOnlyAfterFailure
  BY DEF StaleInv
<1> QED
  BY StaleNext, <1>1, <1>2, PTL DEF Spec

-----------------------------------------------------------------------------
(* The loader.                                                             *)

(* Every nonempty set of naturals has a least element.                     *)
LEMMA Least ==
    ASSUME NEW T, T \subseteq Nat, T # {}
    PROVE  \E x \in T : \A y \in T : x <= y
<1>1. PICK x \in T : \A y \in T : ~(<<y, x>> \in OpToRel(<, Nat))
  BY NatLessThanWellFounded, WFMin
<1>2. \A y \in T : ~(y < x)
  BY <1>1 DEF OpToRel
<1> QED
  BY <1>2

(* ... and every bounded one a greatest: what Max computes.                *)
LEMMA Greatest ==
    ASSUME NEW n \in Nat, NEW T, T \subseteq 0..n, T # {}
    PROVE  Max(T) \in T /\ \A y \in T : y <= Max(T)
<1> DEFINE U == {n - y : y \in T}
<1>0. \A y \in T : y \in Int /\ n - y \in Nat
  OBVIOUS
<1>1. U \subseteq Nat /\ U # {}
  BY <1>0
<1>2. PICK u \in U : \A v \in U : u <= v
  BY <1>1, Least
<1>3. PICK x \in T : u = n - x
  BY <1>2
<1>4. \A y \in T : y <= x
  <2> TAKE y \in T
  <2>1. n - y \in U
    OBVIOUS
  <2>2. n - x <= n - y
    BY <1>2, <1>3, <2>1
  <2> QED
    BY <1>0, <2>2
<1> QED
  BY <1>4 DEF Max

(* The scanner's state before the first line; Scans says that g is the run *)
(* of the scanner over the first n lines. Such a run exists, by induction  *)
(* on n, so the recursive function of the loader is one.                   *)
Start0 == [section |-> None, sub |-> None, cfg |-> DefaultConfig]

Scans(g, lines, n) ==
    g = [i \in 0..n |-> IF i = 0 THEN Start0 ELSE scanLine(g[i - 1], lines[i])]

LEMMA ScanExists ==
    ASSUME NEW lines, NEW n \in Nat
    PROVE  \E g : Scans(g, lines, n)
<1> DEFINE Bad == {m \in Nat : ~ \E g : Scans(g, lines, m)}
<1>1. SUFFICES ASSUME Bad # {}
               PROVE  FALSE
  OBVIOUS
<1>2. PICK m \in Bad : \A k \in Bad : m <= k
  BY <1>1, Least
<1>3. m # 0
  <2> DEFINE g == [i \in 0..0 |-> Start0]
  <2>1. Scans(g, lines, 0)
    BY DEF Scans
  <2> QED
    BY <2>1
<1>4. PICK g : Scans(g, lines, m - 1)
  BY <1>2, <1>3
<1> DEFINE h == [i \in 0..m |-> IF i = m THEN scanLine(g[m - 1], lines[m]) ELSE g[i]]
<1>5. Scans(h, lines, m)
  BY <1>2, <1>3, <1>4 DEF Scans
<1> QED
  BY <1>2, <1>5

LEMMA ScanFinal ==
    ASSUME NEW lines, Len(lines) \in Nat
    PROVE  \E g : Scans(g, lines, Len(lines)) /\ loadNodeConfigFromYaml(lines) = g[Len(lines)].cfg
<1>1. PICK g : Scans(g, lines, Len(lines))
  BY ScanExists
<1> QED
  BY <1>1, Zenon DEF loadNodeConfigFromYaml, Scans, Start0
LEMMA HeadersApart == DOMAIN SectionHeaders \cap DOMAIN SubHeaders = {}
BY DEF SectionHeaders, SubHeaders

(* The last header of a kind, when one more line is read.                  *)
LEMMA LastHeaderIs ==
    ASSUME NEW lines, NEW i \in Nat \ {0}, NEW hs
    PROVE  LET j == LastHeader(lines, i, hs)
           IN  /\ j \in 0..i - 1
               /\ j # 0 => IsHeader(lines[j], hs)
               /\ \A k \in 1..i - 1 : IsHeader(lines[k], hs) => k <= j
<1> DEFINE before == {j \in 1..i - 1 : IsHeader(lines[j], hs)}
<1>1. CASE before = {}
  <2>1. LastHeader(lines, i, hs) = 0
    BY <1>1 DEF LastHeader
  <2> QED
    BY <1>1, <2>1
<1>2. CASE before # {}
  <2>1. before \subseteq 0..i - 1 /\ i - 1 \in Nat
    OBVIOUS
  <2>2. Max(before) \in before /\ \A y \in before : y <= Max(before)
    BY <1>2, <2>1, Greatest
  <2>3. LastHeader(lines, i, hs) = Max(before)
    BY <1>2 DEF LastHeader
  <2> QED
    BY <2>2, <2>3
<1> QED
  BY <1>1, <1>2

LEMMA LastHeaderNext ==
    ASSUME NEW lines, NEW i \in Nat \ {0}, NEW hs
    PROVE  LastHeader(lines, i + 1, hs) =
               IF IsHeader(lines[i], hs) THEN i ELSE LastHeader(lines, i, hs)
<1> DEFINE j == LastHeader(lines, i, hs)
           k == LastHeader(lines, i + 1, hs)
<1>1. /\ j \in 0..i - 1 /\ (j # 0 => IsHeader(lines[j], hs))
      /\ \A m \in 1..i - 1 : IsHeader(lines[m], hs) => m <= j
  BY LastHeaderIs
<1>2. /\ k \in 0..(i + 1) - 1 /\ (k # 0 => IsHeader(lines[k], hs))
      /\ \A m \in 1..(i + 1) - 1 : IsHeader(lines[m], hs) => m <= k
  BY i + 1 \in Nat \ {0}, LastHeaderIs
<1> HIDE DEF j, k
<1>3. CASE IsHeader(lines[i], hs)
  BY <1>2, <1>3 DEF k
<1>4. CASE ~IsHeader(lines[i], hs)
  <2>1. k <= j
    BY <1>1, <1>2, <1>4
  <2>2. j <= k
    BY <1>1, <1>2
  <2> QED
    BY <1>1, <1>2, <1>4, <2>1, <2>2 DEF j, k
<1> QED
  BY <1>3, <1>4

(* What a header does to the section and the sub-section.                  *)
LEMMA ScopeNext ==
    ASSUME NEW lines, KnownLines(lines), NEW i \in 1..Len(lines)
    PROVE  /\ IsHeader(lines[i], DOMAIN SectionHeaders) =>
                /\ SectionAt(lines, i + 1) = SectionHeaders[lines[i].name]
                /\ SubAt(lines, i + 1) = None
           /\ IsHeader(lines[i], DOMAIN SubHeaders) =>
                /\ SectionAt(lines, i + 1) = SectionAt(lines, i)
                /\ SubAt(lines, i + 1) = SubHeaders[lines[i].name]
           /\ lines[i].kind # "header" =>
                /\ SectionAt(lines, i + 1) = SectionAt(lines, i)
                /\ SubAt(lines, i + 1) = SubAt(lines, i)
<1> DEFINE a == LastHeader(lines, i, DOMAIN SectionHeaders)
           b == LastHeader(lines, i, DOMAIN SubHeaders)
           a1 == LastHeader(lines, i + 1, DOMAIN SectionHeaders)
           b1 == LastHeader(lines, i + 1, DOMAIN SubHeaders)
<1>0. i \in Nat \ {0}
  BY DEF KnownLines
<1>1. a \in 0..i - 1 /\ b \in 0..i - 1
  BY <1>0, LastHeaderIs
<1>2. /\ a1 = IF IsHeader(lines[i], DOMAIN SectionHeaders) THEN i ELSE a
      /\ b1 = IF IsHeader(lines[i], DOMAIN SubHeaders) THEN i ELSE b
  BY <1>0, LastHeaderNext
<1>3. ~(IsHeader(lines[i], DOMAIN SectionHeaders) /\ IsHeader(lines[i], DOMAIN SubHeaders))
  BY HeadersApart DEF IsHeader
<1>4. /\ SectionAt(lines, i) = IF a = 0 THEN None ELSE SectionHeaders[lines[a].name]
      /\ SectionAt(lines, i + 1) = IF a1 = 0 THEN None ELSE SectionHeaders[lines[a1].name]
      /\ SubAt(lines, i) = IF b <= a THEN None ELSE SubHeaders[lines[b].name]
      /\ SubAt(lines, i + 1) = IF b1 <= a1 THEN None ELSE SubHeaders[lines[b1].name]
  BY DEF SectionAt, SubAt
<1> HIDE DEF a, b, a1, b1
<1>5. CASE IsHeader(lines[i], DOMAIN SectionHeaders)
  <2>1. a1 = i /\ b1 = b
    BY <1>2, <1>3, <1>5
  <2> QED
    BY <1>0, <1>1, <1>3, <1>4, <1>5, <2>1 DEF IsHeader
<1>6. CASE IsHeader(lines[i], DOMAIN SubHeaders)
  <2>1. a1 = a /\ b1 = i
    BY <1>2, <1>3, <1>6
  <2> QED
    BY <1>0, <1>1, <1>3, <1>4, <1>6, <2>1 DEF IsHeader
<1>7. CASE lines[i].kind # "header"
  <2>1. a1 = a /\ b1 = b
    BY <1>2, <1>7 DEF IsHeader
  <2> QED
    BY <1>4, <1>7, <2>1 DEF IsHeader
<1> QED
  BY <1>5, <1>6, <1>7

(* What the first n lines say of a field.                                  *)
WritersTo(lines, n, f) == {j \in Writers(lines, f) : j <= n}
Said(lines, n, f) ==
    LET w == WritersTo(lines, n, f)
    IN  IF w = {} THEN DefaultOf(f) ELSE Parsed(TypeOfField(f), lines[Max(w)].value)

ScanState(lines, n) ==
    [section |-> SectionAt(lines, n + 1), sub |-> SubAt(lines, n + 1),
     cfg |-> [f \in Fields |-> Said(lines, n, f)]]

(* A field changes exactly at a line that writes it.                       *)
LEMMA SaidNext ==
    ASSUME NEW lines, KnownLines(lines), NEW i \in 1..Len(lines), NEW f
    PROVE  Said(lines, i, f) = IF i \in Writers(lines, f) THEN Parsed(TypeOfField(f), lines[i].value)
                               ELSE Said(lines, i - 1, f)
<1> DEFINE w == WritersTo(lines, i, f)
           v == WritersTo(lines, i - 1, f)
<1>0. Writers(lines, f) \subseteq 1..Len(lines) /\ Len(lines) \in Nat
  BY DEF Writers, KnownLines
<1>1. CASE i \in Writers(lines, f)
  <2>1. w \subseteq 0..Len(lines) /\ i \in w /\ \A y \in w : y <= i
    BY <1>0, <1>1 DEF WritersTo
  <2>2. Max(w) \in w /\ \A y \in w : y <= Max(w)
    BY <1>0, <2>1, Greatest
  <2>3. Max(w) = i
    BY <1>0, <2>1, <2>2
  <2> QED
    BY <1>1, <2>1, <2>3 DEF Said
<1>2. CASE i \notin Writers(lines, f)
  <2>1. w = v
    BY <1>0, <1>2 DEF WritersTo
  <2> QED
    BY <1>2, <2>1 DEF Said
<1> QED
  BY <1>1, <1>2

LEMMA FieldParts ==
    ASSUME NEW f \in Fields
    PROVE  f = <<f[1], f[2]>>
BY DEF Fields

LEMMA ScanStep ==
    ASSUME NEW lines, KnownLines(lines), NEW i \in 1..Len(lines)
    PROVE  ScanState(lines, i) = scanLine(ScanState(lines, i - 1), lines[i])
<1> DEFINE s == ScanState(lines, i - 1)
           line == lines[i]
<1>1. s = [section |-> SectionAt(lines, i), sub |-> SubAt(lines, i),
           cfg |-> [f \in Fields |-> Said(lines, i - 1, f)]]
  <2>1. (i - 1) + 1 = i
    BY DEF KnownLines
  <2> QED
    BY <2>1 DEF ScanState
<1>2. line.kind \in {"header", "key", "other"}
  BY DEF KnownLines
<1>3. CASE line.kind # "key"
  <2>1. \A f \in Fields : Said(lines, i, f) = Said(lines, i - 1, f)
    <3> TAKE f \in Fields
    <3>1. i \notin Writers(lines, f)
      BY <1>3 DEF Writers
    <3> QED
      BY <3>1, SaidNext
  <2>2. ScanState(lines, i).cfg = s.cfg
    BY <1>1, <2>1 DEF ScanState
  <2>3. CASE line.kind = "other"
    <3>1. scanLine(s, line) = s
      BY <2>3 DEF scanLine
    <3>2. SectionAt(lines, i + 1) = SectionAt(lines, i) /\ SubAt(lines, i + 1) = SubAt(lines, i)
      BY <2>3, ScopeNext
    <3> QED
      BY <1>1, <2>1, <3>1, <3>2 DEF ScanState
  <2>4. CASE line.kind = "header" /\ line.name \in DOMAIN SectionHeaders
    <3>1. scanLine(s, line) = [s EXCEPT !.section = SectionHeaders[line.name], !.sub = None]
      BY <2>4 DEF scanLine, header
    <3>2. SectionAt(lines, i + 1) = SectionHeaders[line.name] /\ SubAt(lines, i + 1) = None
      BY <2>4, ScopeNext DEF IsHeader
    <3>3. scanLine(s, line) = [section |-> SectionHeaders[line.name], sub |-> None, cfg |-> s.cfg]
      BY <1>1, <3>1
    <3> QED
      BY <1>1, <2>1, <3>2, <3>3 DEF ScanState
  <2>5. CASE line.kind = "header" /\ line.name \in DOMAIN SubHeaders
    <3>1. scanLine(s, line) = [s EXCEPT !.sub = SubHeaders[line.name]]
      BY <2>5, HeadersApart DEF scanLine, header
    <3>2. /\ SectionAt(lines, i + 1) = SectionAt(lines, i)
          /\ SubAt(lines, i + 1) = SubHeaders[line.name]
      BY <2>5, ScopeNext DEF IsHeader
    <3>3. scanLine(s, line)
            = [section |-> SectionAt(lines, i), sub |-> SubHeaders[line.name], cfg |-> s.cfg]
      BY <1>1, <3>1
    <3> QED
      BY <1>1, <2>1, <3>2, <3>3 DEF ScanState
  <2> QED
    BY <1>2, <1>3, <2>3, <2>4, <2>5 DEF KnownLines
<1>4. CASE line.kind = "key"
  <2> DEFINE g == <<SectionAt(lines, i), line.name>>
             Hit == g \in Fields /\ InScope(g, SectionAt(lines, i), SubAt(lines, i))
                    /\ Ok(TypeOfField(g), line.value)
  <2>1. SectionAt(lines, i + 1) = SectionAt(lines, i) /\ SubAt(lines, i + 1) = SubAt(lines, i)
    BY <1>4, ScopeNext
  <2>2. scanLine(s, line) = IF Hit THEN [s EXCEPT !.cfg[g] = Parsed(TypeOfField(g), line.value)] ELSE s
    BY <1>1, <1>4 DEF scanLine, key
  <2>3. \A f \in Fields : i \in Writers(lines, f) <=> f = g /\ Hit
    <3> TAKE f \in Fields
    <3>1. f = <<f[1], f[2]>> /\ g[1] = SectionAt(lines, i) /\ g[2] = line.name
      BY FieldParts
    <3>2. i \in Writers(lines, f) <=> /\ line.name = f[2]
                                      /\ InScope(f, SectionAt(lines, i), SubAt(lines, i))
                                      /\ Ok(TypeOfField(f), line.value)
      BY <1>4 DEF Writers
    <3>3. InScope(f, SectionAt(lines, i), SubAt(lines, i)) => f[1] = SectionAt(lines, i)
      BY DEF InScope
    <3> QED
      BY <3>1, <3>2, <3>3
  <2>4. \A f \in Fields : Said(lines, i, f) = IF f = g /\ Hit THEN Parsed(TypeOfField(g), line.value)
                                              ELSE Said(lines, i - 1, f)
    BY <2>3, SaidNext
  <2> HIDE DEF g, Hit
  <2>5. CASE Hit
    BY <1>1, <2>1, <2>2, <2>4, <2>5 DEF ScanState
  <2>6. CASE ~Hit
    BY <1>1, <2>1, <2>2, <2>4, <2>6 DEF ScanState
  <2> QED
    BY <2>5, <2>6
<1> QED
  BY <1>3, <1>4

LEMMA ScanStart ==
    ASSUME NEW lines, KnownLines(lines)
    PROVE  ScanState(lines, 0) = Start0
<1>1. 0 + 1 = 1 /\ 1 \in Nat \ {0}
  OBVIOUS
<1>a. ASSUME NEW hs PROVE LastHeader(lines, 1, hs) = 0
  <2>1. LastHeader(lines, 1, hs) \in 0..1 - 1
    BY <1>1, LastHeaderIs
  <2> QED
    BY <2>1
<1>2. /\ LastHeader(lines, 1, DOMAIN SectionHeaders) = 0
      /\ LastHeader(lines, 1, DOMAIN SubHeaders) = 0
  BY <1>a
<1>3. SectionAt(lines, 1) = None /\ SubAt(lines, 1) = None
  BY <1>2 DEF SectionAt, SubAt
<1>4. \A f \in Fields : Said(lines, 0, f) = DefaultOf(f)
  <2> TAKE f \in Fields
  <2>1. WritersTo(lines, 0, f) = {}
    BY DEF WritersTo, Writers, KnownLines
  <2> QED
    BY <2>1 DEF Said
<1> QED
  BY <1>1, <1>3, <1>4 DEF ScanState, Start0, DefaultConfig

(* The scanner's result is what the file says, for every file.             *)
LEMMA LoaderExact ==
    ASSUME NEW lines, KnownLines(lines)
    PROVE  loadNodeConfigFromYaml(lines) = Written(lines)
<1> DEFINE n == Len(lines)
<1>0. n \in Nat
  BY DEF KnownLines
<1>1. PICK g : Scans(g, lines, n) /\ loadNodeConfigFromYaml(lines) = g[n].cfg
  BY <1>0, ScanFinal
<1>2. \A i \in 0..n : g[i] = ScanState(lines, i)
  <2> DEFINE Off == {i \in 0..n : g[i] # ScanState(lines, i)}
  <2>1. SUFFICES ASSUME Off # {}
                 PROVE  FALSE
    OBVIOUS
  <2>2. PICK m \in Off : \A k \in Off : m <= k
    BY <1>0, <2>1, Least, Off \subseteq Nat
  <2>3. CASE m = 0
    <3>1. g[0] = Start0
      BY <1>0, <1>1 DEF Scans
    <3> QED
      BY <2>2, <2>3, <3>1, ScanStart
  <2>4. CASE m # 0
    <3>1. m \in 1..n /\ m - 1 \in 0..n /\ m - 1 \notin Off
      BY <1>0, <2>2, <2>4
    <3>2. g[m - 1] = ScanState(lines, m - 1)
      BY <3>1
    <3>3. g[m] = scanLine(g[m - 1], lines[m])
      BY <1>1, <3>1 DEF Scans
    <3> QED
      BY <2>2, <3>1, <3>2, <3>3, ScanStep
  <2> QED
    BY <2>3, <2>4
<1>3. loadNodeConfigFromYaml(lines) = [f \in Fields |-> Said(lines, n, f)]
  <2>1. g[n] = ScanState(lines, n)
    BY <1>0, <1>2
  <2>2. ScanState(lines, n).cfg = [f \in Fields |-> Said(lines, n, f)]
    BY DEF ScanState
  <2> QED
    BY <1>1, <2>1, <2>2
<1>4. \A f \in Fields : WritersTo(lines, n, f) = Writers(lines, f)
  BY <1>0 DEF WritersTo, Writers
<1> QED
  BY <1>3, <1>4 DEF Said, Written

-----------------------------------------------------------------------------
(* The start.                                                              *)

PinNames == {"reset", "busy", "dio1", "dio2", "dio3", "tx_enable"}

LEMMA ConcatLen ==
    ASSUME NEW S, NEW a \in S, NEW b \in S, NEW s \in Seq(S), NEW t \in Seq(S),
           NEW u \in Seq(S), NEW v \in Seq(S),
           Len(s) \in {0, 1}, Len(t) \in {0, 1}, Len(u) \in {0, 1}, Len(v) \in {0, 1}
    PROVE  LET w == <<a, b>> \o s \o t \o u \o v IN w \in Seq(S) /\ Len(w) \in 2..6
<1>1. /\ <<a, b>> \o s \o t \o u \o v \in Seq(S)
      /\ Len(<<a, b>> \o s \o t \o u \o v) = 2 + Len(s) + Len(t) + Len(u) + Len(v)
  OBVIOUS
<1>2. \A i, j, k, l \in {0, 1} : 2 + i + j + k + l \in 2..6
  OBVIOUS
<1>3. 2 + Len(s) + Len(t) + Len(u) + Len(v) \in 2..6
  BY <1>2, Zenon
<1> QED
  BY <1>1, <1>3, Zenon

(* A radio has two to six pins.                                            *)
LEMMA PinsBound ==
    ASSUME NEW cfg, NEW r
    PROVE  PinsOf(cfg, r) \in Seq(PinNames) /\ Len(PinsOf(cfg, r)) \in 2..6
<1>0. {"reset", "busy"} \cup {"dio1", "dio2", "dio3", "tx_enable"} \subseteq PinNames
  BY DEF PinNames
<1>1. ASSUME NEW flag, NEW p \in PinNames
      PROVE  Optional(cfg, r, flag, p) \in Seq(PinNames) /\ Len(Optional(cfg, r, flag, p)) \in {0, 1}
  BY Singleton DEF Optional
<1>2. /\ /\ Optional(cfg, r, "has_dio1", "dio1") \in Seq(PinNames)
         /\ Len(Optional(cfg, r, "has_dio1", "dio1")) \in {0, 1}
      /\ /\ Optional(cfg, r, "has_dio2", "dio2") \in Seq(PinNames)
         /\ Len(Optional(cfg, r, "has_dio2", "dio2")) \in {0, 1}
      /\ /\ Optional(cfg, r, "has_dio3", "dio3") \in Seq(PinNames)
         /\ Len(Optional(cfg, r, "has_dio3", "dio3")) \in {0, 1}
      /\ /\ Optional(cfg, r, "has_tx_enable", "tx_enable") \in Seq(PinNames)
         /\ Len(Optional(cfg, r, "has_tx_enable", "tx_enable")) \in {0, 1}
  BY <1>0, <1>1
<1>3. "reset" \in PinNames /\ "busy" \in PinNames
  BY <1>0
<1> QED
  BY <1>2, <1>3, ConcatLen DEF PinsOf

Pins(r) == PinsOf(config[1], r)
Asserted(r) == config[1][<<r, "tx_enable_behavior">>] = "StaticAsserted"

(* The state as far as the counters and the sequences go.                  *)
BootType ==
    /\ file \in Files \cup Edits
    /\ readable \in BOOLEAN
    /\ config = <<>> \/ config = <<config[1]>>
    /\ m_started \in BOOLEAN
    /\ pc \in {"idle", "openSpi", "openGpioChip", "requestGpioLines", "configure",
               "listen", "hung"}
    /\ radio \in Radio
    /\ todo \in Seq(PinNames) /\ Len(todo) <= 6
    /\ held = [r \in Radio |-> held[r]]
    /\ opened \in [Radio -> Nat]
    /\ leakedFds \in Nat
    /\ Fds <= MaxFds
    /\ pin \in [Radio -> BOOLEAN]
    /\ listening \in {"no", "once", "forever"}
    /\ stuck \subseteq Radio
    /\ faults \in 0..MaxFaults
    /\ retried \in BOOLEAN /\ dead \in BOOLEAN

(* A radio nothing was opened for, and one whose constructor has returned. *)
Closed(r) == held[r] = {} /\ opened[r] = 0
Complete(r) ==
    /\ held[r] = LinesOf(config[1], r)
    /\ opened[r] = 2 + Len(Pins(r))
    /\ IsFiniteSet(held[r]) /\ Cardinality(held[r]) = Len(Pins(r))
    /\ pin[r] <=> Asserted(r)

(* The lines requested so far: the pins before those still to do.          *)
GrantedOf(cfg, r, rest, lines, fds) ==
    \E k \in Nat :
        /\ k + Len(rest) = Len(PinsOf(cfg, r))
        /\ \A i \in 1..Len(rest) : rest[i] = PinsOf(cfg, r)[k + i]
        /\ lines = {LineOf(cfg, r, PinsOf(cfg, r)[i]) : i \in 1..k}
        /\ fds = 2 + k
        /\ IsFiniteSet(lines) /\ Cardinality(lines) = k

Granted(r) == GrantedOf(config[1], r, todo, held[r], opened[r])

(* How far each radio is, by where start() is.                             *)
Stages ==
    /\ pc = "idle" /\ ~m_started => \A r \in Radio : Closed(r)
    /\ pc \in Constructing =>
        /\ radio = "RadiosRx" => Closed("RadiosTx")
        /\ radio = "RadiosTx" => Complete("RadiosRx")
    /\ pc = "openSpi" => Closed(radio)
    /\ pc = "openGpioChip" => held[radio] = {} /\ opened[radio] = 1
    /\ pc = "requestGpioLines" => Granted(radio)
    /\ pc \in {"configure", "listen"} \/ m_started => \A r \in Radio : Complete(r)
    /\ m_started => pc \in {"idle", "hung"}
    /\ config = <<>> => pc = "idle" /\ ~m_started
    /\ held["RadiosRx"] \cap held["RadiosTx"] = {}

(* The chip was given the timeout the static node's configuration holds.   *)
ListenInv ==
    m_started => (listening = "forever" <=> \/ config[1][<<"Timeouts", "continuous_rx">>]
                                            \/ config[1][<<"Timeouts", "rx_ms">>] = 65535)

BootInv == BootType /\ Stages /\ LoadedAsWritten /\ ListenInv

LEMMA BootInit == Init => BootInv
<1> SUFFICES ASSUME Init PROVE BootInv
  OBVIOUS
<1>1. BootType
  <2>1. Fds = 0 /\ Fds <= MaxFds
    BY BoundAssumption DEF Init, Fds, Radio
  <2>2. faults \in 0..MaxFaults
    BY BoundAssumption DEF Init
  <2>3. todo \in Seq(PinNames) /\ Len(todo) <= 6
    BY DEF Init
  <2>4. /\ held = [r \in Radio |-> held[r]] /\ opened \in [Radio -> Nat]
        /\ pin \in [Radio -> BOOLEAN] /\ radio \in Radio
    BY DEF Init, Radio
  <2> QED
    BY <2>1, <2>2, <2>3, <2>4 DEF Init, BootType
<1>2. Stages
  BY DEF Init, Stages, Closed, Radio, Constructing
<1> QED
  BY <1>1, <1>2 DEF Init, BootInv, LoadedAsWritten, ListenInv

(* A constructor that throws: what it had opened is lost, nothing is live. *)
LEMMA BootThrow ==
    ASSUME BootInv, NEW extra \in {0, 1}, constructorThrows(extra), pc \in Constructing,
           Fds + extra <= MaxFds, faults' \in 0..MaxFaults
    PROVE  BootInv'
<1> USE DEF constructorThrows, releaseAll, giveUp, envVars, nodeVars
<1>0. ~m_started /\ config # <<>>
  BY DEF BootInv, Stages, Constructing
<1>1. leakedFds' \in Nat /\ Fds' <= MaxFds
  <2>1. /\ opened["RadiosRx"] \in Nat /\ opened["RadiosTx"] \in Nat /\ leakedFds \in Nat
        /\ radio = "RadiosRx" \/ radio = "RadiosTx"
        /\ opened'["RadiosRx"] = 0 /\ opened'["RadiosTx"] = 0
        /\ leakedFds' = leakedFds + opened[radio] + extra
    BY DEF BootInv, BootType, Radio
  <2>2. leakedFds + opened["RadiosRx"] + opened["RadiosTx"] + extra <= MaxFds
    BY DEF Fds
  <2>3. leakedFds' \in Nat /\ leakedFds' <= MaxFds
    <3>1. \A a, b, c \in Nat : a + b + c + extra <= MaxFds =>
              /\ a + b + extra \in Nat /\ a + b + extra <= MaxFds
              /\ a + c + extra \in Nat /\ a + c + extra <= MaxFds
      BY BoundAssumption
    <3>2. leakedFds' \in {leakedFds + opened["RadiosRx"] + extra, leakedFds + opened["RadiosTx"] + extra}
      BY <2>1
    <3> QED
      BY <2>1, <2>2, <3>1, <3>2
  <2> QED
    BY <2>1, <2>3 DEF Fds
<1>2. BootType'
  BY <1>1 DEF BootInv, BootType, Radio
<1>3. Stages'
  BY <1>0 DEF BootInv, Stages, Closed, Constructing, Radio
<1>4. LoadedAsWritten' /\ ListenInv'
  BY <1>0 DEF LoadedAsWritten, ListenInv
<1> QED
  BY <1>2, <1>3, <1>4 DEF BootInv

(* A failure after both constructors.                                      *)
LEMMA BootFailure ==
    ASSUME BootInv, startThrows, pc \in {"configure", "listen"}
    PROVE  BootInv'
<1> USE DEF startThrows, releaseAll, giveUp, envVars, nodeVars, Fault
<1>0. ~m_started /\ config # <<>>
  BY DEF BootInv, Stages
<1>1. Fds' <= MaxFds
  <2>1. /\ opened["RadiosRx"] \in Nat /\ opened["RadiosTx"] \in Nat /\ leakedFds \in Nat
        /\ opened'["RadiosRx"] = 0 /\ opened'["RadiosTx"] = 0
        /\ Fds <= MaxFds
    BY DEF BootInv, BootType, Radio
  <2> QED
    BY <2>1, BoundAssumption DEF Fds
<1>2. BootType'
  BY <1>1, BoundAssumption DEF BootInv, BootType, Radio
<1>3. Stages'
  BY <1>0 DEF BootInv, Stages, Closed, Constructing, Radio
<1>4. LoadedAsWritten' /\ ListenInv'
  BY <1>0 DEF LoadedAsWritten, ListenInv
<1> QED
  BY <1>2, <1>3, <1>4 DEF BootInv

(* A radio stays as complete as it is while its handles, its pin and the   *)
(* configuration do.                                                       *)
LEMMA CompleteKept ==
    ASSUME NEW r \in Radio, UNCHANGED config, held'[r] = held[r], opened'[r] = opened[r]
    PROVE  /\ pin'[r] = pin[r] => (Complete(r)' <=> Complete(r))
           /\ Closed(r)' <=> Closed(r)
BY DEF Complete, Closed, Pins, Asserted

(* A step that leaves handles, configuration and file alone.               *)
LEMMA FdsKept ==
    ASSUME UNCHANGED <<leakedFds, opened>>
    PROVE  Fds' = Fds
BY DEF Fds

(* The constructor asks for the next line.                                 *)
LEMMA GrantedNext ==
    ASSUME BootInv, requestGranted
    PROVE  Granted(radio)'
<1> USE DEF envVars, nodeVars
<1>0. /\ pc = "requestGpioLines" /\ todo # <<>> /\ Grantable
      /\ UNCHANGED <<config, radio>> /\ todo' = Tail(todo)
      /\ held' = [held EXCEPT ![radio] = @ \cup {NextLine}]
      /\ opened' = [opened EXCEPT ![radio] = @ + 1]
  BY DEF requestGranted
<1>1. /\ radio \in Radio /\ todo \in Seq(PinNames) /\ held = [r \in Radio |-> held[r]]
      /\ opened \in [Radio -> Nat] /\ Granted(radio)
  BY <1>0 DEF BootInv, BootType, Stages
<1>2. held'[radio] = held[radio] \cup {NextLine} /\ opened'[radio] = opened[radio] + 1
  BY <1>0, <1>1
<1>3. PICK k \in Nat :
        /\ k + Len(todo) = Len(Pins(radio))
        /\ \A i \in 1..Len(todo) : todo[i] = Pins(radio)[k + i]
        /\ held[radio] = {LineOf(config[1], radio, Pins(radio)[i]) : i \in 1..k}
        /\ opened[radio] = 2 + k
        /\ IsFiniteSet(held[radio]) /\ Cardinality(held[radio]) = k
  BY <1>1 DEF Granted, GrantedOf, Pins
<1>4. /\ Len(todo') = Len(todo) - 1 /\ Len(todo) \in Nat \ {0}
      /\ \A i \in 1..Len(todo') : todo'[i] = todo[i + 1]
      /\ Head(todo) = todo[1]
  BY <1>0, <1>1
<1>5. NextLine = LineOf(config[1], radio, Pins(radio)[k + 1]) /\ NextLine \notin held[radio]
  BY <1>0, <1>1, <1>3, <1>4 DEF NextLine, Grantable, LineFree
<1>6. held'[radio] = {LineOf(config[1], radio, Pins(radio)[i]) : i \in 1..k + 1}
  <2>1. \A i : i \in 1..k + 1 <=> i \in 1..k \/ i = k + 1
    OBVIOUS
  <2> QED
    BY <1>2, <1>3, <1>5, <2>1
<1>7. IsFiniteSet(held'[radio]) /\ Cardinality(held'[radio]) = k + 1
  <2> DEFINE H == held[radio]
             L == NextLine
  <2>1. IsFiniteSet(H) /\ Cardinality(H) = k /\ L \notin H
    BY <1>3, <1>5
  <2> HIDE DEF H, L
  <2>2. IsFiniteSet(H \cup {L}) /\ Cardinality(H \cup {L}) = k + 1
    BY <2>1, FS_AddElement
  <2> QED
    BY <1>2, <2>2 DEF H, L
<1>8. \A i \in 1..Len(todo') : todo'[i] = Pins(radio)[(k + 1) + i]
  <2> TAKE i \in 1..Len(todo')
  <2>1. i + 1 \in 1..Len(todo) /\ k + (i + 1) = (k + 1) + i
    BY <1>3, <1>4
  <2>2. todo'[i] = todo[i + 1] /\ todo[i + 1] = Pins(radio)[k + (i + 1)]
    BY <1>3, <1>4, <2>1
  <2> QED
    BY <2>1, <2>2
<1>9. (k + 1) + Len(todo') = Len(Pins(radio)) /\ opened'[radio] = 2 + (k + 1) /\ k + 1 \in Nat
  BY <1>2, <1>3, <1>4
<1>10. Pins(radio)' = Pins(radio) /\ radio' = radio /\ config' = config
  BY <1>0 DEF Pins
<1> DEFINE m == k + 1
<1>11. /\ m \in Nat
       /\ m + Len(todo') = Len(Pins(radio))
       /\ \A i \in 1..Len(todo') : todo'[i] = Pins(radio)[m + i]
       /\ held'[radio] = {LineOf(config[1], radio, Pins(radio)[i]) : i \in 1..m}
       /\ opened'[radio] = 2 + m
       /\ IsFiniteSet(held'[radio]) /\ Cardinality(held'[radio]) = m
  BY <1>6, <1>7, <1>8, <1>9
<1> HIDE DEF m
<1> QED
  <2>1. GrantedOf(config[1], radio, todo', held'[radio], opened'[radio])
    BY <1>11 DEF GrantedOf, Pins
  <2> QED
    BY <1>10, <2>1 DEF Granted

(* All lines granted is a complete constructor, once the pin is set.       *)
LEMMA GrantedAll ==
    ASSUME NEW r \in Radio, Granted(r), todo = <<>>
    PROVE  /\ held[r] = LinesOf(config[1], r) /\ opened[r] = 2 + Len(Pins(r))
           /\ IsFiniteSet(held[r]) /\ Cardinality(held[r]) = Len(Pins(r))
<1>1. PICK k \in Nat :
        /\ k + Len(todo) = Len(Pins(r))
        /\ held[r] = {LineOf(config[1], r, Pins(r)[i]) : i \in 1..k}
        /\ opened[r] = 2 + k
        /\ IsFiniteSet(held[r]) /\ Cardinality(held[r]) = k
  BY DEF Granted, GrantedOf, Pins
<1>2. k = Len(Pins(r))
  BY <1>1
<1> QED
  BY <1>1, <1>2 DEF LinesOf, Pins

(* Steps that leave handles, pins and configuration alone.                 *)
Kept == UNCHANGED <<config, held, opened, leakedFds, pin>>

LEMMA KeptParts ==
    ASSUME Kept
    PROVE  /\ Fds' = Fds
           /\ \A r \in Radio : (Closed(r)' <=> Closed(r)) /\ (Complete(r)' <=> Complete(r))
           /\ UNCHANGED <<held, opened, config>>
BY DEF Kept, Fds, Closed, Complete, Pins, Asserted

LEMMA LoadedFile == \A f \in Files \cup Edits : Loaded[f] = Written(f)
BY FileAssumption, LoaderExact DEF Loaded

(* Before the first request nothing is granted.                            *)
LEMMA GrantedNothing ==
    ASSUME NEW cfg, NEW r
    PROVE  GrantedOf(cfg, r, PinsOf(cfg, r), {}, 2)
<1> DEFINE P == PinsOf(cfg, r)
<1>1. Len(P) \in Nat
  BY PinsBound
<1> HIDE DEF P
<1>2. 0 + Len(P) = Len(P) /\ \A i \in 1..Len(P) : P[i] = P[0 + i]
  BY <1>1
<1>3. {} = {LineOf(cfg, r, P[i]) : i \in 1..0} /\ 2 = 2 + 0 /\ 0 \in Nat
  OBVIOUS
<1>4. IsFiniteSet({}) /\ Cardinality({}) = 0
  BY FS_EmptySet
<1> QED
  BY <1>2, <1>3, <1>4 DEF GrantedOf, P

(* Every step of ensureNodeStarted, of start() and of the environment      *)
(* keeps the stage each radio is in.                                       *)
LEMMA BootNext == BootInv /\ [Next]_vars => BootInv'
<1> SUFFICES ASSUME BootInv, [Next]_vars
             PROVE  BootInv'
  OBVIOUS
<1> USE DEF envVars, nodeVars, handleVars
<1>0. CASE UNCHANGED vars
  <2>1. Kept /\ UNCHANGED <<pc, radio, todo, m_started>>
    BY <1>0 DEF vars, Kept
  <2>2. Stages'
    BY <2>1, KeptParts DEF BootInv, BootType, Stages, Constructing, Radio, Granted
  <2>3. BootType'
    BY <1>0, <2>1, KeptParts DEF BootInv, BootType, vars
  <2> QED
    BY <1>0, <2>2, <2>3 DEF BootInv, LoadedAsWritten, ListenInv, vars
<1>1. CASE ensureNodeStarted
  <2>0. /\ pc = "idle" /\ ~m_started /\ pc' = "openSpi" /\ radio' = "RadiosRx"
        /\ UNCHANGED <<file, readable, stuck, held, opened, leakedFds, pin, todo, m_started, listening,
                       faults, retried, dead>>
        /\ m_nodeConfig' = Loaded[file]
        /\ config' = IF config = <<>> THEN <<m_nodeConfig'>> ELSE config
    BY <1>1 DEF ensureNodeStarted
  <2>1. config' = <<config'[1]>> /\ config' # <<>>
    BY <2>0 DEF BootInv, BootType
  <2>2. Fds' = Fds
    BY <2>0 DEF Fds
  <2>3. BootType'
    BY <2>0, <2>1, <2>2 DEF BootInv, BootType, Radio
  <2>4. \A r \in Radio : Closed(r)'
    BY <2>0 DEF BootInv, Stages, Closed
  <2>5. Stages'
    BY <2>0, <2>1, <2>4 DEF BootInv, Stages, Constructing, Radio
  <2>6. LoadedAsWritten'
    BY <2>0, LoadedFile DEF BootInv, BootType, LoadedAsWritten
  <2> QED
    BY <2>0, <2>3, <2>5, <2>6 DEF BootInv, ListenInv
<1>2. ASSUME NEW extra \in {0, 1}, constructorThrows(extra), pc \in Constructing,
             UNCHANGED faults \/ Fault, extra = 1 => Fds < MaxFds
      PROVE  BootInv'
  <2>1. faults' \in 0..MaxFaults
    BY <1>2, BoundAssumption DEF Fault, BootInv, BootType
  <2>2. Fds \in Nat /\ Fds <= MaxFds
    <3>1. leakedFds \in Nat /\ opened["RadiosRx"] \in Nat /\ opened["RadiosTx"] \in Nat
      BY DEF BootInv, BootType, Radio
    <3> QED
      BY <3>1 DEF BootInv, BootType, Fds
  <2>3. Fds + extra <= MaxFds
    BY <1>2, <2>2, BoundAssumption
  <2> QED
    BY <1>2, <2>1, <2>3, BootThrow
<1>3. CASE validateConfig
  BY <1>2, <1>3 DEF validateConfig, Constructing
<1>4. CASE openSpi
  <2>1. CASE \E extra \in {0, 1} : constructorThrows(extra)
    BY <1>2, <1>4, <2>1 DEF openSpi, Constructing, constructorThrows
  <2>2. CASE /\ Fds < MaxFds /\ opened' = [opened EXCEPT ![radio] = 1] /\ pc' = "openGpioChip"
             /\ UNCHANGED <<file, readable, stuck, m_nodeConfig, config, m_started, radio, todo,
                            held, leakedFds, pin, listening, faults, retried, dead>>
    <3>0. pc = "openSpi" /\ ~m_started /\ config # <<>>
      BY <1>4 DEF openSpi, BootInv, Stages
    <3>1. /\ radio \in Radio /\ opened \in [Radio -> Nat] /\ opened[radio] = 0 /\ held[radio] = {}
          /\ leakedFds \in Nat
      BY <3>0 DEF BootInv, BootType, Stages, Closed
    <3>2. opened'[radio] = 1 /\ \A r \in Radio \ {radio} : opened'[r] = opened[r]
      BY <2>2, <3>1
    <3>3. Fds' <= MaxFds
      <4>1. Fds' = Fds + 1 /\ Fds \in Nat
        BY <2>2, <3>1, <3>2 DEF Fds, Radio
      <4> QED
        BY <2>2, <4>1, BoundAssumption
    <3>4. BootType'
      BY <2>2, <3>1, <3>3 DEF BootInv, BootType
    <3>5. /\ radio = "RadiosRx" => Closed("RadiosTx")'
          /\ radio = "RadiosTx" => Complete("RadiosRx")'
      BY <2>2, <3>0, <3>2, CompleteKept DEF BootInv, Stages, Constructing, Radio
    <3>6. Stages'
      BY <2>2, <3>0, <3>1, <3>2, <3>5 DEF BootInv, Stages, Constructing
    <3> QED
      BY <2>2, <3>0, <3>4, <3>6 DEF BootInv, LoadedAsWritten, ListenInv
  <2> QED
    BY <1>4, <2>1, <2>2 DEF openSpi
<1>5. CASE openGpioChip
  <2>1. CASE constructorThrows(0)
    BY <1>2, <1>5, <2>1 DEF openGpioChip, Constructing, constructorThrows
  <2>2. CASE /\ Fds < MaxFds /\ opened' = [opened EXCEPT ![radio] = 2]
             /\ pc' = "requestGpioLines" /\ todo' = PinsOf(config[1], radio)
             /\ UNCHANGED <<file, readable, stuck, m_nodeConfig, config, m_started, radio,
                            held, leakedFds, pin, listening, faults, retried, dead>>
    <3>0. pc = "openGpioChip" /\ ~m_started /\ config # <<>>
      BY <1>5 DEF openGpioChip, BootInv, Stages
    <3>1. /\ radio \in Radio /\ opened \in [Radio -> Nat] /\ opened[radio] = 1 /\ held[radio] = {}
          /\ leakedFds \in Nat
      BY <3>0 DEF BootInv, BootType, Stages
    <3>2. opened'[radio] = 2 /\ \A r \in Radio \ {radio} : opened'[r] = opened[r]
      BY <2>2, <3>1
    <3>3. Fds' <= MaxFds
      <4>1. Fds' = Fds + 1 /\ Fds \in Nat
        BY <2>2, <3>1, <3>2 DEF Fds, Radio
      <4> QED
        BY <2>2, <4>1, BoundAssumption
    <3>4. todo' \in Seq(PinNames) /\ Len(todo') \in 2..6
      BY <2>2, PinsBound
    <3>5. BootType'
      <4>1. opened' \in [Radio -> Nat]
        BY <2>2, <3>1
      <4>2. Len(todo') <= 6
        BY <3>4
      <4> QED
        BY <2>2, <3>3, <3>4, <4>1, <4>2 DEF BootInv, BootType
    <3>6. /\ radio = "RadiosRx" => Closed("RadiosTx")'
          /\ radio = "RadiosTx" => Complete("RadiosRx")'
      BY <2>2, <3>0, <3>2, CompleteKept DEF BootInv, Stages, Constructing, Radio
    <3>7. Granted(radio)'
      <4>1. held'[radio] = {} /\ opened'[radio] = 2
        BY <2>2, <3>1, <3>2
      <4> QED
        BY <2>2, <4>1, GrantedNothing DEF Granted
    <3>8. Stages'
      BY <2>2, <3>0, <3>1, <3>2, <3>6, <3>7 DEF BootInv, Stages, Constructing
    <3> QED
      BY <2>2, <3>0, <3>5, <3>8 DEF BootInv, LoadedAsWritten, ListenInv
  <2> QED
    BY <1>5, <2>1, <2>2 DEF openGpioChip
<1>6. CASE requestRefused
  BY <1>2, <1>6 DEF requestRefused, Constructing
<1>7. CASE requestGranted
  <2>0. /\ pc = "requestGpioLines" /\ todo # <<>> /\ Grantable /\ todo' = Tail(todo)
        /\ held' = [held EXCEPT ![radio] = @ \cup {NextLine}]
        /\ opened' = [opened EXCEPT ![radio] = @ + 1]
        /\ UNCHANGED <<file, readable, stuck, m_nodeConfig, config, m_started, pc, radio,
                       leakedFds, pin, listening, faults, retried, dead>>
    BY <1>7 DEF requestGranted
  <2>1. /\ radio \in Radio /\ opened \in [Radio -> Nat] /\ held = [r \in Radio |-> held[r]]
        /\ leakedFds \in Nat /\ todo \in Seq(PinNames) /\ Len(todo) <= 6 /\ ~m_started /\ config # <<>>
    BY <2>0 DEF BootInv, BootType, Stages
  <2>2. /\ opened'[radio] = opened[radio] + 1 /\ held'[radio] = held[radio] \cup {NextLine}
        /\ \A r \in Radio \ {radio} : opened'[r] = opened[r] /\ held'[r] = held[r]
        /\ \A r \in Radio : NextLine \notin held[r]
    BY <2>0, <2>1 DEF Grantable, LineFree
  <2>3. Fds' <= MaxFds
    <3>1. Fds' = Fds + 1 /\ Fds \in Nat
      BY <2>0, <2>1, <2>2 DEF Fds, Radio
    <3> QED
      BY <2>0, <3>1, BoundAssumption DEF Grantable
  <2>4. todo' \in Seq(PinNames) /\ Len(todo') <= 6
    BY <2>0, <2>1
  <2>5. opened' \in [Radio -> Nat] /\ held' = [r \in Radio |-> held'[r]]
    <3>1. opened[radio] + 1 \in Nat
      BY <2>1
    <3>2. opened' \in [Radio -> Nat]
      BY <2>0, <2>1, <3>1
    <3>3. held' = [r \in Radio |-> held'[r]]
      BY <2>0, <2>1
    <3> QED
      BY <3>2, <3>3
  <2>6. BootType'
    BY <2>0, <2>3, <2>4, <2>5 DEF BootInv, BootType
  <2>7. /\ radio = "RadiosRx" => Closed("RadiosTx")'
        /\ radio = "RadiosTx" => Complete("RadiosRx")'
    BY <2>0, <2>2, CompleteKept DEF BootInv, Stages, Constructing, Radio
  <2>8. held'["RadiosRx"] \cap held'["RadiosTx"] = {}
    BY <2>1, <2>2 DEF BootInv, Stages, Radio
  <2>9. Stages'
    BY <1>7, <2>0, <2>1, <2>7, <2>8, GrantedNext DEF BootInv, Stages, Constructing
  <2> QED
    BY <2>0, <2>1, <2>6, <2>9 DEF BootInv, LoadedAsWritten, ListenInv
<1>8. CASE applyInitial
  <2>0. pc = "requestGpioLines" /\ todo = <<>> /\ ~m_started /\ config # <<>> /\ radio \in Radio
    BY <1>8 DEF applyInitial, BootInv, BootType, Stages
  <2>1. CASE constructorThrows(0)
    BY <1>2, <1>8, <2>0, <2>1 DEF applyInitial, Constructing, constructorThrows, Fault
  <2>2. CASE /\ pin' = [pin EXCEPT ![radio] = Asserted(radio)]
             /\ \/ radio = "RadiosRx" /\ pc' = "openSpi" /\ radio' = "RadiosTx"
                \/ radio = "RadiosTx" /\ pc' = "configure" /\ radio' = "RadiosRx"
             /\ UNCHANGED <<file, readable, stuck, m_nodeConfig, config, m_started, todo, held,
                            opened, leakedFds, listening, faults, retried, dead>>
    <3>1. pin' \in [Radio -> BOOLEAN] /\ pin'[radio] = Asserted(radio)
          /\ \A r \in Radio \ {radio} : pin'[r] = pin[r]
      BY <2>0, <2>2 DEF BootInv, BootType, Asserted
    <3>2. Fds' = Fds
      BY <2>2, FdsKept
    <3>3. BootType'
      BY <2>2, <3>1, <3>2 DEF BootInv, BootType, Radio
    <3>4. ASSUME NEW r \in Radio, r = radio
          PROVE  Complete(r)'
      <4>1. /\ held[r] = LinesOf(config[1], r) /\ opened[r] = 2 + Len(Pins(r))
            /\ IsFiniteSet(held[r]) /\ Cardinality(held[r]) = Len(Pins(r))
        BY <2>0, <3>4, GrantedAll DEF BootInv, Stages
      <4> QED
        BY <2>2, <3>1, <3>4, <4>1 DEF Complete, Pins, Asserted
    <3>5. CASE radio = "RadiosRx"
      <4>1. Complete("RadiosRx")' /\ Closed("RadiosTx")'
        BY <2>0, <2>2, <3>4, <3>5, CompleteKept DEF BootInv, Stages, Constructing, Radio
      <4>2. Stages'
        BY <2>0, <2>2, <3>5, <4>1 DEF BootInv, Stages, Constructing
      <4> QED
        BY <2>0, <2>2, <3>3, <3>5, <4>2 DEF BootInv, LoadedAsWritten, ListenInv
    <3>6. CASE radio = "RadiosTx"
      <4>1. Complete("RadiosRx")' /\ Complete("RadiosTx")'
        BY <2>0, <2>2, <3>1, <3>4, <3>6, CompleteKept DEF BootInv, Stages, Constructing, Radio
      <4>2. Stages'
        BY <2>0, <2>2, <3>6, <4>1 DEF BootInv, Stages, Constructing, Radio
      <4> QED
        BY <2>0, <2>2, <3>3, <3>6, <4>2 DEF BootInv, LoadedAsWritten, ListenInv
    <3> QED
      BY <2>2, <3>5, <3>6
  <2> QED
    BY <1>8, <2>0, <2>1, <2>2 DEF applyInitial, applyInitialTxEnableState, Cfg, Asserted, Radio
<1>9. ASSUME Kept, UNCHANGED <<file, readable, m_nodeConfig, m_started, todo, listening, faults,
                              retried, dead, stuck>>,
             config # <<>>, radio' \in Radio,
             \/ pc = "configure" /\ pc' \in {"configure", "listen", "hung"}
             \/ pc = "listen" /\ pc' = "hung"
      PROVE  BootInv'
  <2>1. BootType'
    BY <1>9, KeptParts DEF BootInv, BootType, Kept
  <2>2. Stages'
    BY <1>9, KeptParts DEF BootInv, Stages, Kept, Constructing
  <2> QED
    BY <1>9, <2>1, <2>2 DEF BootInv, LoadedAsWritten, ListenInv, Stages
<1>10. CASE configure_radio
  <2>0. pc = "configure" /\ config # <<>>
    BY <1>10 DEF configure_radio, BootInv, Stages
  <2>1. CASE startThrows
    BY <2>0, <2>1, BootFailure
  <2>2. CASE ~startThrows
    BY <1>9, <1>10, <2>0, <2>2 DEF configure_radio, Kept, BootInv, BootType, Radio
  <2> QED
    BY <2>1, <2>2
<1>11. CASE setRx
  <2>0. pc = "listen" /\ config # <<>> /\ \A r \in Radio : Complete(r)
    BY <1>11 DEF setRx, BootInv, Stages
  <2>1. CASE startThrows
    BY <2>0, <2>1, BootFailure
  <2>2. CASE pc' = "hung"
    BY <1>9, <1>11, <2>0, <2>2 DEF setRx, Kept, BootInv, BootType, startThrows, giveUp
  <2>3. CASE ~startThrows /\ pc' # "hung"
    <3> DEFINE b == config[1][<<"RadiosRx", "tx_enable_behavior">>]
               p == HalPreRx(b, HalPostTx(b, pin["RadiosRx"]))
    <3>1. /\ pin' = [pin EXCEPT !["RadiosRx"] = p]
          /\ listening' = IF RxTimeout = 65535 THEN "forever" ELSE "once"
          /\ m_started' = TRUE /\ pc' = "idle"
          /\ UNCHANGED <<file, readable, stuck, m_nodeConfig, config, radio, todo, held, opened,
                         leakedFds, faults, retried, dead>>
      BY <1>11, <2>3 DEF setRx
    <3>2. pin["RadiosRx"] \in BOOLEAN /\ (pin["RadiosRx"] <=> Asserted("RadiosRx"))
      BY <2>0 DEF BootInv, BootType, Complete, Radio
    <3>3. p \in BOOLEAN /\ (p <=> Asserted("RadiosRx"))
      BY <3>2 DEF HalPreRx, HalPostTx, Asserted
    <3>4. /\ pin' \in [Radio -> BOOLEAN] /\ pin'["RadiosRx"] = p
          /\ pin'["RadiosTx"] = pin["RadiosTx"]
      BY <3>1, <3>3 DEF BootInv, BootType, Radio
    <3>5. Fds' = Fds
      BY <3>1, FdsKept
    <3>6. BootType'
      BY <3>1, <3>4, <3>5 DEF BootInv, BootType
    <3>7. \A r \in Radio : Complete(r)'
      BY <2>0, <3>1, <3>3, <3>4 DEF Complete, Pins, Asserted, Radio
    <3>8. Stages'
      BY <2>0, <3>1, <3>7 DEF BootInv, Stages, Constructing
    <3>9. ListenInv'
      BY <3>1 DEF ListenInv, RxTimeout
    <3> QED
      BY <3>1, <3>6, <3>8, <3>9 DEF BootInv, LoadedAsWritten
  <2> QED
    BY <2>1, <2>2, <2>3
<1>12. CASE nodeFails
  <2>0. /\ pc = "idle" /\ m_started /\ pc' \in {"idle", "hung"} /\ Kept
        /\ faults' = faults \/ Fault
        /\ dead' = dead \/ dead' = TRUE
        /\ UNCHANGED <<file, readable, m_nodeConfig, m_started, radio, todo, listening, retried, stuck>>
    BY <1>12 DEF nodeFails, Kept
  <2>1. faults' \in 0..MaxFaults
    BY <2>0, BoundAssumption DEF Fault, BootInv, BootType
  <2>2. BootType'
    BY <2>0, <2>1, KeptParts DEF BootInv, BootType, Kept
  <2>3. Stages'
    BY <2>0, KeptParts DEF BootInv, Stages, Kept, Constructing
  <2> QED
    BY <2>0, <2>2, <2>3 DEF BootInv, LoadedAsWritten, ListenInv, Kept
<1>13. CASE Environment
  <2>0. /\ Kept /\ UNCHANGED <<pc, radio, todo, m_started, m_nodeConfig, retried, dead>>
        /\ faults' = faults \/ Fault
        /\ file' = file \/ (file' \in Edits /\ pc = "idle")
        /\ readable' \in {readable, TRUE} /\ stuck' \subseteq Radio \cup stuck
        /\ listening' = listening \/ (listening = "once" /\ listening' = "no")
    BY <1>13 DEF Environment, editFile, busySticks, receptionEnds, Kept
  <2>1. faults' \in 0..MaxFaults
    BY <2>0, BoundAssumption DEF Fault, BootInv, BootType
  <2>2. BootType'
    BY <2>0, <2>1, KeptParts DEF BootInv, BootType, Kept
  <2>3. Stages'
    BY <2>0, KeptParts DEF BootInv, BootType, Stages, Kept, Constructing, Radio, Granted
  <2> QED
    BY <2>0, <2>2, <2>3 DEF BootInv, LoadedAsWritten, ListenInv, Kept
<1> QED
  BY <1>0, <1>1, <1>3, <1>4, <1>5, <1>6, <1>7, <1>8, <1>10, <1>11, <1>12, <1>13
  DEF Next, Start, Constructor

(* Type correctness: in particular the descriptors in use, leaked ones     *)
(* included, never exceed what the process may have.                       *)
THEOREM BootTyped == Spec => []TypeOK
<1>1. BootInv => TypeOK
  <2> SUFFICES ASSUME BootInv PROVE TypeOK
    OBVIOUS
  <2>1. Fds \in 0..MaxFds
    <3>1. leakedFds \in Nat /\ opened["RadiosRx"] \in Nat /\ opened["RadiosTx"] \in Nat
      BY DEF BootInv, BootType, Radio
    <3> QED
      BY <3>1, BoundAssumption DEF BootInv, BootType, Fds
  <2>2. Len(config) \in {0, 1}
    BY DEF BootInv, BootType
  <2>3. Len(todo) \in 0..6
    <3>1. Len(todo) \in Nat /\ Len(todo) <= 6
      BY DEF BootInv, BootType
    <3>2. \A n \in Nat : n <= 6 => n \in 0..6
      OBVIOUS
    <3> QED
      BY <3>1, <3>2, Zenon
  <2> QED
    BY <2>1, <2>2, <2>3 DEF BootInv, BootType, TypeOK
<1> QED
  BY BootInit, BootNext, <1>1, PTL DEF Spec

(* What loadNodeConfigFromYaml makes of any file is what the file says:    *)
(* for every sequence of lines, by induction on the scan.                  *)
THEOREM LoaderFaithful == Spec => []LoadedAsWritten
<1>1. BootInv => LoadedAsWritten
  BY DEF BootInv
<1> QED
  BY BootInit, BootNext, <1>1, PTL DEF Spec

(* A node that reports itself started has both radios complete: every      *)
(* configured line held by the radio it belongs to and by no other, as     *)
(* many lines and descriptors as configured pins, and the TX-enable pin    *)
(* where its behaviour wants it.                                           *)
THEOREM BothRadiosUp == Spec => []StartedComplete
<1>1. BootInv => StartedComplete
  BY DEF BootInv, Stages, Complete, Pins, Asserted, StartedComplete, Radio
<1> QED
  BY BootInit, BootNext, <1>1, PTL DEF Spec

(* The static node's configuration is what the file it was built from      *)
(* says; later files do not reach it.                                      *)
OriginInv == config # <<>> => config[1] = Written(origin)

LEMMA OriginNext == BootInv /\ OriginInv /\ [Next]_vars => OriginInv'
<1> SUFFICES ASSUME BootInv, OriginInv, [Next]_vars
             PROVE  OriginInv'
  OBVIOUS
<1>1. CASE ensureNodeStarted
  <2>1. /\ file \in Files \cup Edits
        /\ m_nodeConfig' = Loaded[file]
        /\ config' = IF config = <<>> THEN <<m_nodeConfig'>> ELSE config
        /\ origin' = IF config = <<>> THEN file ELSE origin
    BY <1>1 DEF ensureNodeStarted, BootInv, BootType
  <2>2. Loaded[file] = Written(file)
    BY <2>1, LoadedFile
  <2>3. CASE config = <<>>
    <3>1. config'[1] = Written(file) /\ origin' = file
      BY <2>1, <2>2, <2>3
    <3> QED
      BY <3>1 DEF OriginInv
  <2>4. CASE config # <<>>
    <3>1. config' = config /\ origin' = origin
      BY <2>1, <2>4
    <3> QED
      BY <3>1 DEF OriginInv
  <2> QED
    BY <2>3, <2>4
<1>2. CASE UNCHANGED <<config, origin>>
  BY <1>2 DEF OriginInv
<1> QED
  BY <1>1, <1>2
  DEF Next, Start, Constructor, Environment, vars, nodeVars, validateConfig, openSpi,
      openGpioChip, requestRefused, requestGranted, applyInitial, configure_radio, setRx,
      nodeFails, receptionEnds, editFile, busySticks, constructorThrows, startThrows

(* Types and defaults of the two listening fields.                         *)
LEMMA TimeoutType == \A f : f[1] = "Timeouts" => TypeOfField(f) = TimeoutKeys[f[2]]
<1> TAKE f
<1> HAVE f[1] = "Timeouts"
<1>1. f[1] \notin Radios /\ f[1] # "Lora" /\ f[1] # "Runtime"
  BY DEF Radios
<1> QED
  BY <1>1, SMT DEF TypeOfField

LEMMA ContinuousDefault ==
    ASSUME NEW f, f[2] = "continuous_rx", TypeOfField(f) = "bool"
    PROVE  DefaultOf(f) = TRUE
<1> DEFINE D == f[2] \in {"tx_enable_active_high", "continuous_rx", "auto_fs"}
<1>1. TypeOfField(f) # "only" /\ D = TRUE
  OBVIOUS
<1>2. DefaultOf(f) = D
  BY <1>1, SMT DEF DefaultOf
<1> QED
  BY <1>1, <1>2

LEMMA TimeoutDefault ==
    ASSUME NEW f, f[2] = "rx_ms", TypeOfField(f) = "ms"
    PROVE  DefaultOf(f) = 2000
<1>1. TypeOfField(f) # "bool" /\ TypeOfField(f) # "only"
  OBVIOUS
<1> QED
  BY <1>1, SMT DEF DefaultOf

(* What Written makes of the two listening fields, in terms of the lines.  *)
LEMMA ForeverField ==
    ASSUME NEW lines
    PROVE  SaysForever(lines) <=>
               \/ Written(lines)[<<"Timeouts", "continuous_rx">>]
               \/ Written(lines)[<<"Timeouts", "rx_ms">>] = 65535
<1> DEFINE fc == <<"Timeouts", "continuous_rx">>
           ft == <<"Timeouts", "rx_ms">>
           wc == Writers(lines, fc)
           wt == Writers(lines, ft)
<1>1. fc \in Fields /\ ft \in Fields
  BY DEF Fields, TimeoutKeys
<1>2. TypeOfField(fc) = "bool" /\ TypeOfField(ft) = "ms"
  BY TimeoutType DEF TimeoutKeys
<1>3. DefaultOf(fc) = TRUE
  <2>1. fc[2] = "continuous_rx"
    OBVIOUS
  <2> HIDE DEF fc
  <2> QED
    BY <1>2, <2>1, ContinuousDefault, Zenon
<1>4. DefaultOf(ft) = 2000
  BY <1>2, TimeoutDefault, SMT
<1>5. /\ Written(lines)[fc] = IF wc = {} THEN DefaultOf(fc)
                              ELSE Parsed(TypeOfField(fc), lines[Max(wc)].value)
      /\ Written(lines)[ft] = IF wt = {} THEN DefaultOf(ft)
                              ELSE Parsed(TypeOfField(ft), lines[Max(wt)].value)
  BY <1>1 DEF Written
<1>6. /\ \A v : Parsed("bool", v) = (v.word = "true")
      /\ \A v : Parsed("ms", v) = parse_ms(v)
  <2>1. "bool" \notin DOMAIN FALLBACK /\ "ms" \notin DOMAIN FALLBACK
    BY DEF FALLBACK
  <2>2. \A v : Parsed("bool", v) = (v.word = "true")
    BY <2>1, SMT DEF Parsed
  <2>3. \A v : Parsed("ms", v) = parse_ms(v)
    BY <2>1, SMT DEF Parsed
  <2> QED
    BY <2>2, <2>3
<1>7. \A v : parse_ms(v) = 65535 <=> parse_uint32(v) >= 65535
  BY DEF parse_ms
<1>8. SaysForever(lines) <=> \/ wc = {} \/ lines[Max(wc)].value.word = "true"
                             \/ wt # {} /\ parse_uint32(lines[Max(wt)].value) >= 65535
  BY DEF SaysForever
<1> HIDE DEF wc, wt, fc, ft
<1>9. Written(lines)[fc] <=> wc = {} \/ lines[Max(wc)].value.word = "true"
  <2>1. CASE wc = {}
    <3>1. Written(lines)[fc] = TRUE
      BY <1>3, <1>5, <2>1, Zenon
    <3> QED
      BY <2>1, <3>1, Zenon
  <2>2. CASE wc # {}
    <3>1. Written(lines)[fc] = Parsed("bool", lines[Max(wc)].value)
      BY <1>2, <1>5, <2>2, Zenon
    <3>2. Written(lines)[fc] = (lines[Max(wc)].value.word = "true")
      BY <1>6, <3>1, Zenon
    <3> QED
      BY <2>2, <3>2, Zenon
  <2> QED
    BY <2>1, <2>2
<1>10. Written(lines)[ft] = 65535 <=>
          wt # {} /\ parse_uint32(lines[Max(wt)].value) >= 65535
  BY <1>2, <1>4, <1>5, <1>6, <1>7
<1> QED
  BY <1>8, <1>9, <1>10 DEF fc, ft

(* A started node listens for good exactly when the file it was first      *)
(* built from says so: for every file, through the scanner, the clamp, the *)
(* static node and SetRx.                                                  *)
THEOREM Listens == Spec => []ListensAsWritten
<1>1. Init => OriginInv
  BY DEF Init, OriginInv
<1>2. BootInv /\ OriginInv => ListensAsWritten
  <2> SUFFICES ASSUME BootInv, OriginInv, m_started
               PROVE  listening = "forever" <=> SaysForever(origin)
    BY DEF ListensAsWritten
  <2>1. config[1] = Written(origin)
    BY DEF BootInv, Stages, OriginInv
  <2>2. SaysForever(origin) <=> \/ Written(origin)[<<"Timeouts", "continuous_rx">>]
                                \/ Written(origin)[<<"Timeouts", "rx_ms">>] = 65535
    BY ForeverField
  <2> QED
    BY <2>1, <2>2 DEF BootInv, ListenInv
<1> QED
  BY BootInit, BootNext, OriginNext, <1>1, <1>2, PTL DEF Spec
=============================================================================
