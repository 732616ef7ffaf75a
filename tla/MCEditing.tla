------------------------------ MODULE MCEditing ------------------------------
(* A document whose price stands in a paragraph that is written with        *)
(* attributes, and one edit of another paragraph.                           *)
EXTENDS Editing

MCBlock(kind, text, attributes) == [kind |-> kind, text |-> text, attributes |-> attributes]
MCOriginals ==
  {[body |-> <<MCBlock("paragraph", "draft", FALSE), MCBlock("paragraph", "price 200", TRUE)>>,
    header |-> <<>>, footer |-> <<>>, notes |-> <<>>, comments |-> <<>>, others |-> {"styles"}]}
MCValuesIn ==
  [text \in {"draft", "final", "price 200", ""} |->
     [rule \in {"figures"} |-> IF text = "price 200" THEN <<200>> ELSE <<>>]]
MCDocxEdits == {<<>>, <<"final">>}
MCPdfs == {<<TRUE>>}
=============================================================================
