------------------------- MODULE MCToolkitRegistry --------------------------
(* A small instance of ToolkitRegistry for TLC. *)
EXTENDS ToolkitRegistry, TLC

(* One entry of the configuration that is well formed, and one that is not. *)
GoodTool == [name |-> "t", transport |-> "http", command |-> "", server |-> "http"]
BadTool == [name |-> "t", transport |-> "stdio", command |-> "", server |-> ""]
Entry(name, tool) ==
  [name |-> name, toolboxes |-> {[name |-> "b", version |-> "1", tools |-> {tool}]}]
Entries == {Entry("good", GoodTool), Entry("bad", BadTool)}

Names == {"mine", ""}

Symmetry == Permutations(Id) \union Permutations(Box) \union Permutations(Tool) \union Permutations(Go)
=============================================================================
