----------------------------- MODULE MCArtifacts -----------------------------
(* Two requests of different kinds, or two PDFs; renders share one slot.  The *)
(* requests are alike, so that of two orders of their kinds one is enough.    *)
EXTENDS Artifacts

CONSTANTS a, b

TwoStreams == {a, b}

MCInit ==
  /\ Init
  /\ <<kind[a], kind[b]>> \in {<<"pdf", "pdf">>, <<"pdf", "chapters">>, <<"pdf", "export">>,
                              <<"chapters", "export">>}

MCSpec == MCInit /\ [][Next]_vars /\ Fairness
=============================================================================
