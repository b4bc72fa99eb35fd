----------------------------- MODULE MCToolCalls ----------------------------
(* A small instance of ToolCalls for TLC. *)
EXTENDS ToolCalls

ToolOf(id, name, words, text, schema) ==
  [id |-> id, name |-> name, words |-> words, text |-> text, schema |-> schema]
Box(name, words, tags, tools) == [name |-> name, words |-> words, tags |-> tags, tools |-> tools]

(* Two tools of one name in two toolboxes, and one whose text alone tells what it is about. *)
Get == ToolOf("id1", "get", {"get"}, {"rain"}, TRUE)
List == ToolOf("id2", "list", {"list"}, {"math"}, FALSE)
Get2 == ToolOf("id3", "get", {"get"}, {"sum"}, FALSE)

Toolkits ==
  {<<Box("weather", {"weather"}, {{"rain"}}, <<Get, List>>)>>,
   <<Box("numbers", {"numbers"}, {}, <<Get2>>)>>}

(* By toolbox and name, by id, by name alone; and domains that fit a tag, a text, nothing. *)
Names == {"weather.get", "id3", "get"}
Dots == [n \in {"weather.get"} |-> [box |-> "weather", tool |-> "get"]]
Domains == {{"rain"}, {"math"}, {}}
=============================================================================
