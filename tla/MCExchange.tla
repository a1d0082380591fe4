----------------------------- MODULE MCExchange -----------------------------
(* Exchange with names at the limits of each form of UTF-8 and dates at   *)
(* the ends of months and years.                                          *)
EXTENDS Exchange

MCZones == {-20700, 0, 28800}   \* Nepal, Greenwich, California

MCInstants ==
  {<<Civil(1979, 12, 31), 50001>>, <<Civil(1980, 1, 1), 3600>>, <<Civil(2000, 2, 29), 86399>>,
   <<Civil(2023, 12, 31), 86399>>, <<Civil(2024, 3, 1), 1>>, <<Civil(2038, 1, 17), 43201>>}

MCForeign ==
  LET e == [day |-> 29, month |-> 2, year |-> 44, hour |-> 23, min |-> 59, twosec |-> 29,
            centisec |-> 199, tzoffset |-> 0]
      t == <<Civil(2024, 2, 29), 86399>>
  IN  {<<e, t, TRUE>>,
       <<[e EXCEPT !.tzoffset = 128 + 127], Later(t, 900), FALSE>>,
       <<[e EXCEPT !.month = 0], <<0, 0>>, FALSE>>}

\* The zones, times and stamps are those of the theorem TimeDoesNotDrift.
ASSUME MCTimesFit == TimesFit

\* 'a', 'A', e acute, the euro sign, its lower byte, an emoji, '?'.
MCPosixNames == {<<97>>, <<65, 233>>, <<8364>>, <<128512>>, <<63>>, <<8364, 8364, 8364>>}
MCAmigaNames == {<<97>>, <<172>>, <<65, 201>>, <<63>>, <<233, 97, 233>>}
MCForeignNames == {<<55357>>, <<97, 56832>>, <<97, 55357, 56832>>, <<256>>}

MCupcase == [u \in {97, 233} |-> u - 32]

MCUnits ==
  {1, 127, 128, 233, 2047, 2048, 8364, 55295, 55296, 56319, 56320, 57343, 57344, 65535}

=============================================================================
