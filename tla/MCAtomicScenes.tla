--------------------------- MODULE MCAtomicScenes ---------------------------
(* Envelopes of one to three operations on two files and a free path.      *)
EXTENDS Sequences, SequencesExt, FiniteSets

MCAtomicAbsent == <<"absent">>
MCAtomicTree == [p \in {"a", "b", "n"} |-> IF p = "a" THEN <<"x", "y", "x">> ELSE IF p = "b" THEN <<"y">> ELSE MCAtomicAbsent]
MCAtomicOp(kind, path, to, text, patches) == [kind |-> kind, path |-> path, to |-> to, text |-> text, patches |-> patches]
MCAtomicUpdate(p, to, patches) == MCAtomicOp("update", p, to, <<>>, patches)
MCAtomicPatch(old, new) == [old |-> old, new |-> new]
MCAtomicOps ==
  {MCAtomicOp("add", p, p, <<"z">>, <<>>) : p \in {"a", "n"}}
  \cup {MCAtomicOp("delete", p, p, <<>>, <<>>) : p \in {"a", "b"}}
  \cup {MCAtomicOp("rename", "a", "n", <<>>, <<>>), MCAtomicOp("rename", "b", "n", <<>>, <<>>)}
  \cup {MCAtomicUpdate("a", to, ps) : to \in {"a", "b"},
          ps \in {<<MCAtomicPatch(<<"y">>, <<"z">>)>>,
                  <<MCAtomicPatch(<<"x">>, <<"y">>), MCAtomicPatch(<<"x">>, <<>>)>>}}
  \cup {MCAtomicUpdate("b", "b", <<MCAtomicPatch(<<"y">>, <<"y">>)>>), MCAtomicUpdate("n", "n", <<MCAtomicPatch(<<>>, <<"w">>)>>)}
MCAtomicEnvelopes ==
  {<<o>> : o \in MCAtomicOps} \cup {<<o, u>> : o, u \in MCAtomicOps}
  \cup {<<o, u, w>> : o, u \in {x \in MCAtomicOps : x.path = "a"}, w \in {x \in MCAtomicOps : x.path # "a" /\ x.kind # "add"}}
=============================================================================
