------------------------- MODULE MCProtocolAnalysis -------------------------
EXTENDS ProtocolAnalysis, TLC
Tx(e, d, t, p, f) == [ep |-> e, dir |-> d, type |-> t, payload |-> p, form |-> f]
Poll == Tx(3, "in", "interrupt", <<>>, "ok")
MCTransactions ==
  {Tx(1, "out", "bulk", <<1, 1>>, "ok"), Tx(1, "out", "bulk", <<1, 2, 3>>, "failed"),
   Tx(1, "in", "interrupt", <<1>>, "ok"), Poll}
MCTokens == ((0..3) \X {"in", "out"} \X {"bulk", "interrupt"}) \X {"full", "prefix", "full_prefix"} \X Seq((0..3) \cup {Masked})
MCStreams == {DeviceStream} \cup ((1..3) \X {"bulk", "interrupt"})
MCSymmetry == Permutations(Names)
=============================================================================
