----------------------------- MODULE MCNodeBoot -----------------------------
(* Small instances of NodeBoot for TLC: a complete file, and that file     *)
(* followed by a further line, or by a header and a line or two.           *)
EXTENDS NodeBoot

CompleteFile ==
    <<Header("radios"),
      Header("rx"), Header("pins"), Key("reset", Num(22)), Key("busy", Num(23)),
      Header("timeouts"), Key("rx_ms", Num(2000)), Key("continuous_rx", Bool(TRUE)),
      Header("tx"), Key("role", Word("tx")),
      Header("pins"), Key("reset", Num(5)), Key("busy", Num(6)),
      Key("has_tx_enable", Bool(TRUE)), Key("tx_enable", Num(12)),
      Key("tx_enable_behavior", Word("assert_during_tx"))>>

Openings == {<<>>, <<Header("timeouts"), Key("continuous_rx", Bool(FALSE))>>}
            \cup {<<Header(h)>> : h \in {"rx", "spi", "pins", "timeouts"}}

Probes ==
    {Other, Header("radios"),
     Key("role", Word("rx")),
     Key("device", Word("")),
     Key("reset", Num(6)), Key("reset", BigNum(7)), Key("reset", Word("none")),
     Key("has_tx_enable", Bool(FALSE)), Key("has_tx_enable", Word("no")),
     Key("tx_enable_behavior", Word("static_asserted")),
     Key("tx_enable_behavior", Word("on")),
     Key("continuous_rx", Bool(FALSE)), Key("rx_ms", Num(65534)),
     Key("rx_ms", Num(70000))}

MCFiles == {CompleteFile \o o \o <<p>> : o \in Openings, p \in Probes} \cup {<<>>}
MCEdits == {CompleteFile}
=============================================================================
