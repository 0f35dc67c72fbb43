----------------------------- MODULE MCConfigWatch -----------------------------
(* Instances of ConfigWatch for TLC. *)
EXTENDS ConfigWatch

File(keys, paths) == [exists |-> TRUE, keys |-> keys, includes |-> paths, stamp |-> 0]

\* Main includes a file that includes another and Main again; the file it includes is not
\* there; there is no Main.
SomeTrees ==
  {[f \in Files |-> CASE f = "main" -> File({"gaps"}, <<"a">>)
                      [] f = "a" -> File({"gaps", "blur"}, <<"b", "main">>)
                      [] OTHER -> File({"blur"}, <<>>)],
   [f \in Files |-> IF f = "main" THEN File({"gaps", "blur"}, <<"a">>) ELSE Missing],
   [f \in Files |-> Missing]}

SomePayloads == {{"blur"}}

=============================================================================
