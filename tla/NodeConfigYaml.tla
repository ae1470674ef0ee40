--------------------------- MODULE NodeConfigYaml ---------------------------
(***************************************************************************)
(* loadNodeConfigFromYaml (Config/NodeConfigYaml.cpp): a line scanner with *)
(* two pieces of state, the section and the sub-section of the last header *)
(* seen.  Indentation plays no part.  A NodeConfig is a function on fields *)
(* <<section, key>>.                                                       *)
(*                                                                         *)
(* A line is what is left of it after trimming: a header, a key with its   *)
(* value, or a line that is neither (blank, comment, a misspelt header or  *)
(* one with a trailing comment).  A value carries its word and the number  *)
(* std::stoul reads from it, split at 2^32, or none when stoul throws.     *)
(***************************************************************************)
EXTENDS Integers, Sequences, FiniteSets, FiniteSetsExt

None == "None"

Header(h)  == [kind |-> "header", name |-> h]
Key(k, v)  == [kind |-> "key", name |-> k, value |-> v]
Other      == [kind |-> "other"]

Word(w)    == [word |-> w, num |-> FALSE]
Num(n)     == [word |-> "", num |-> TRUE, hi |-> 0, lo |-> n]
BigNum(n)  == [word |-> "", num |-> TRUE, hi |-> 1, lo |-> n]
Bool(b)    == Word(IF b THEN "true" ELSE "false")

(* The headers, with the section they open and the sub-section they set.   *)
SectionHeaders == [radios   |-> None,   rx |-> "RadiosRx", tx |-> "RadiosTx",
                   lora     |-> "Lora", timeouts |-> "Timeouts", runtime |-> "Runtime"]
SubHeaders     == [spi |-> "Spi", gpio |-> "Gpio", pins |-> "Pins"]

(* The lines of a file: a header that is none of these is no header.       *)
KnownLines(lines) ==
    /\ Len(lines) \in Nat
    /\ \A i \in 1..Len(lines) :
        /\ lines[i].kind \in {"header", "key", "other"}
        /\ lines[i].kind = "header" =>
               lines[i].name \in DOMAIN SectionHeaders \cup DOMAIN SubHeaders

(* The sub-section and the type of each key of a section; a key found      *)
(* anywhere else is ignored.                                               *)
RadioKeys ==
    [role |-> <<None, "role">>, device |-> <<"Spi", "text">>,
     speed_hz |-> <<"Spi", "uint32">>, mode |-> <<"Spi", "uint8">>,
     bits_per_word |-> <<"Spi", "uint8">>, chip |-> <<"Gpio", "text">>,
     reset |-> <<"Pins", "uint32">>, busy |-> <<"Pins", "uint32">>,
     has_dio1 |-> <<"Pins", "bool">>, dio1 |-> <<"Pins", "uint32">>,
     has_dio2 |-> <<"Pins", "bool">>, dio2 |-> <<"Pins", "uint32">>,
     has_dio3 |-> <<"Pins", "bool">>, dio3 |-> <<"Pins", "uint32">>,
     has_tx_enable |-> <<"Pins", "bool">>, tx_enable |-> <<"Pins", "uint32">>,
     tx_enable_active_high |-> <<"Pins", "bool">>,
     tx_enable_behavior |-> <<"Pins", "behavior">>]

LoraKeys     == [frequency_hz |-> "uint32", tx_power_dbm |-> "int8", ramp_time |-> "only",
                 regulator_mode |-> "only", spreading_factor |-> "only", bandwidth |-> "only",
                 coding_rate |-> "only", preamble_length |-> "uint8", header_type |-> "only",
                 payload_length |-> "uint8", crc |-> "crc", iq_mode |-> "only"]
TimeoutKeys  == [tx_ms |-> "ms", rx_ms |-> "ms", continuous_rx |-> "bool"]
RuntimeKeys  == [auto_fs |-> "bool", long_preamble |-> "bool", use_manual_gain |-> "bool",
                 manual_gain_value |-> "uint8", lna_setting |-> "only"]

Radios == {"RadiosRx", "RadiosTx"}
Fields == Radios \X DOMAIN RadioKeys \cup {"Lora"} \X DOMAIN LoraKeys
          \cup {"Timeouts"} \X DOMAIN TimeoutKeys \cup {"Runtime"} \X DOMAIN RuntimeKeys

TypeOfField(f) == CASE f[1] \in Radios     -> RadioKeys[f[2]][2]
                    [] f[1] = "Lora"       -> LoraKeys[f[2]]
                    [] f[1] = "Timeouts"   -> TimeoutKeys[f[2]]
                    [] f[1] = "Runtime"    -> RuntimeKeys[f[2]]

(* A field is written from its own section and, in a radio section, from   *)
(* its own sub-section; the other sections do not look at the sub-section. *)
InScope(f, section, sub) ==
    f[1] = section /\ (section \in Radios => RadioKeys[f[2]][1] = sub)

(***************************************************************************)
(* Conversions.  Ok says whether the field is written at all.              *)
(***************************************************************************)
RECOGNISED == [role     |-> [rx |-> "Rx", tx |-> "Tx"],
               behavior |-> [none |-> "None", static_asserted |-> "StaticAsserted",
                             static_deasserted |-> "StaticDeasserted",
                             assert_during_tx |-> "AssertDuringTxOnly"],
               crc      |-> [on |-> "ON", off |-> "OFF"]]

(* What a word nobody recognises is read as, without an error.             *)
FALLBACK == [role |-> "TxRx", behavior |-> "None", crc |-> "ON"]

parse_enum(type, w) ==
    IF w \in DOMAIN RECOGNISED[type] THEN RECOGNISED[type][w] ELSE FALLBACK[type]

(* Truncation of std::stoul's 64 bits to 32: the high half is dropped.     *)
parse_uint32(v) == IF v.lo < 0 THEN 2^32 + v.lo ELSE v.lo

(* Mutation of parse_ms: the cast to 16 bits without the clamp.            *)
parse_msTruncated(v) == parse_uint32(v) % 65536

(* tx_ms and rx_ms saturate at 0xFFFF.                                     *)
parse_ms(v) == IF parse_uint32(v) >= 65535 THEN 65535 ELSE parse_uint32(v)

Ok(type, v) ==
    CASE type = "bool"            -> v.word \in {"true", "false"}
      [] type \in {"uint32", "ms"} -> v.num
      [] type = "uint8"           -> v.num /\ v.hi = 0 /\ v.lo \in 0..255
      [] type = "int8"            -> v.num /\ v.hi = 0 /\ v.lo \in -128..127
      [] OTHER                    -> TRUE

Parsed(type, v) ==
    CASE type = "bool"             -> v.word = "true"
      [] type = "uint32"           -> parse_uint32(v)
      [] type = "ms"               -> parse_ms(v)
      [] type \in {"uint8", "int8"} -> v.lo
      [] type \in DOMAIN FALLBACK  -> parse_enum(type, v.word)
      [] type = "text"             -> v.word
      [] type = "only"             -> "default"      \* every word reads as the one value

(* The member initialisers of NodeConfig.  The frequency is kept as text:  *)
(* it exceeds TLC's integers.                                              *)
DefaultOf(f) ==
    LET k == f[2] IN
    CASE k = "role"                -> "TxRx"
      [] k = "device"              -> "/dev/spidev0.0"
      [] k = "chip"                -> "/dev/gpiochip0"
      [] k = "speed_hz"            -> 1000000
      [] k = "bits_per_word"       -> 8
      [] k = "tx_enable_behavior"  -> "None"
      [] k = "frequency_hz"        -> "2400000000"
      [] k = "tx_power_dbm"        -> 10
      [] k = "preamble_length"     -> 12
      [] k = "payload_length"      -> 255
      [] k = "crc"                 -> "ON"
      [] k \in {"tx_ms", "rx_ms"}  -> 2000
      [] TypeOfField(f) = "bool"   -> k \in {"tx_enable_active_high", "continuous_rx", "auto_fs"}
      [] TypeOfField(f) = "only"   -> "default"
      [] OTHER                     -> 0

DefaultConfig == [f \in Fields |-> DefaultOf(f)]

(***************************************************************************)
(* The scanner.                                                            *)
(***************************************************************************)

(* Mutation of header: opening a section keeps the sub-section.            *)
headerKeepsSub(s, h) ==
    IF h \in DOMAIN SectionHeaders
    THEN [s EXCEPT !.section = SectionHeaders[h]]
    ELSE [s EXCEPT !.sub = SubHeaders[h]]

header(s, h) ==
    IF h \in DOMAIN SectionHeaders
    THEN [s EXCEPT !.section = SectionHeaders[h], !.sub = None]
    ELSE [s EXCEPT !.sub = SubHeaders[h]]

key(s, k, v) ==
    LET f == <<s.section, k>>
    IN  IF f \in Fields /\ InScope(f, s.section, s.sub) /\ Ok(TypeOfField(f), v)
        THEN [s EXCEPT !.cfg[f] = Parsed(TypeOfField(f), v)]
        ELSE s

scanLine(s, line) ==
    CASE line.kind = "header" -> header(s, line.name)
      [] line.kind = "key"    -> key(s, line.name, line.value)
      [] line.kind = "other"  -> s

(* The configuration read from the lines of a file; there is no error      *)
(* return once the file has been read.                                     *)
loadNodeConfigFromYaml(lines) ==
    LET scan[i \in 0..Len(lines)] ==
            IF i = 0 THEN [section |-> None, sub |-> None, cfg |-> DefaultConfig]
            ELSE scanLine(scan[i - 1], lines[i])
    IN  scan[Len(lines)].cfg

-----------------------------------------------------------------------------
(* What the file says of a field, without a scanner: the value of the last *)
(* line that sets it validly under its own headers, else the default.      *)
IsHeader(line, hs) == line.kind = "header" /\ line.name \in hs

LastHeader(lines, i, hs) ==
    LET before == {j \in 1..i - 1 : IsHeader(lines[j], hs)}
    IN  IF before = {} THEN 0 ELSE Max(before)

SectionAt(lines, i) ==
    LET j == LastHeader(lines, i, DOMAIN SectionHeaders)
    IN  IF j = 0 THEN None ELSE SectionHeaders[lines[j].name]

SubAt(lines, i) ==
    LET j == LastHeader(lines, i, DOMAIN SubHeaders)
    IN  IF j <= LastHeader(lines, i, DOMAIN SectionHeaders) THEN None
        ELSE SubHeaders[lines[j].name]

Writers(lines, f) ==
    {i \in 1..Len(lines) : /\ lines[i].kind = "key"
                           /\ lines[i].name = f[2]
                           /\ InScope(f, SectionAt(lines, i), SubAt(lines, i))
                           /\ Ok(TypeOfField(f), lines[i].value)}

Written(lines) ==
    [f \in Fields |->
        LET w == Writers(lines, f)
        IN  IF w = {} THEN DefaultOf(f) ELSE Parsed(TypeOfField(f), lines[Max(w)].value)]
=============================================================================
