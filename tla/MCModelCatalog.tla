--------------------------- MODULE MCModelCatalog ---------------------------
(* A directory of up to three entries, which may describe two models, one of   *)
(* them in two ways, or nothing that loads, and a caller that adds one itself. *)
EXTENDS ModelCatalog

Line(key, value) == [what |-> "entry", key |-> key, reads |-> TRUE, value |-> value]

Text(id, scale) ==
    <<Line("id", id), Line("model_path", Path("", "onnx")), Line("native_scale", scale),
      Line("max_scale", Tenths(40)), Line("license", "BSD")>>

File(manifest, opens, text) == [manifest |-> manifest, opens |-> opens, text |-> text]

MCNames == {"a", "b", "c"}

MCFiles ==
    {File(TRUE, TRUE, Text("srvgv", Tenths(20))), File(TRUE, TRUE, Text("srvgv", Tenths(40))),
     File(TRUE, TRUE, Text("rife", Tenths(10))), File(TRUE, TRUE, Text("rife", Tenths(50))),
     File(TRUE, FALSE, <<>>), File(FALSE, TRUE, <<>>)}

MCOffered ==
    {[Default EXCEPT !.id = "srvgv", !.model_path = Path("/models", "onnx")], Default}
=============================================================================
