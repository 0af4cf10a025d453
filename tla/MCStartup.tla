----------------------------- MODULE MCStartup -----------------------------
(* Up to three tokens, alone, behind `flash boot` or behind `gpt`; three plugins from
   elsewhere: tool has a group and a superior option that does not exit, rival
   registers the subcommand flash again, late is built in behind all others and
   refuses to be loaded, and is in a file, too. *)
EXTENDS Startup

MCForeign ==
  [tool |-> <<"tool">> :> [Command(<<Required(Positional("item", "text")), Flag({"-x"}), Flag({"-y"}),
              Superior(Flag({"-z"})), Named({"-t"}, "text")>>) EXCEPT !.groups = {Group({2, 3}, 0, 1)}],
   rival |-> <<"flash">> :> Command(<<>>), late |-> <<"late">> :> Command(<<>>)]
MCList == [c \in {","} |-> <<>>] @@ [c \in {"tool.so,rival.so"} |-> <<"tool.so", "rival.so">>]
MCFiles == [f \in {"tool.so"} |-> "tool"] @@ [f \in {"rival.so"} |-> "rival"] @@
  [f \in {"late.so"} |-> "late"] @@ [f \in {"dir/flash.so"} |-> "flash"] @@ [f \in {"dir/tool.so"} |-> "tool"]
MCInDirectory == <<"dir/tool.so", "dir/flash.so">>
MCBuiltins == <<"backup", "flash", "cleanlogs", "erase", "gpt", "info", "lpmetadata", "memtest",
                "realpath", "reboot", "sizeof", "type", "late">>

Starts == {<<>>, <<Word("flash"), Word("boot")>>, <<Word("gpt")>>}
Tokens ==
  {Word(w) : w \in {"", "dir", "flash", "read-table", "tool"}} \cup
  {Dash(n) : n \in {"-b", "-d", "-h", "-p", "-V", "-v", "-x"}} \cup
  {DashEq("-b", "4KB"), DashEq("-b", "big"), DashEq("-p", "tool.so,rival.so"), DashEq("-l", "no")}
Late ==
  {s \o t : s \in {<<>>, <<Dash("-p"), Word("late.so")>>, <<DashEq("-p", "late.so")>>},
             t \in BoundedSeq({Word("late"), Word("clean-logs"), Dash("-V"), Dash("-f")}, 3)}
MCArgLists ==
  {s \o t : s \in Starts, t \in BoundedSeq(Tokens, 3)} \cup
  {<<DashEq("-p", "tool.so")>> \o t : t \in 
     BoundedSeq({Word("tool"), Word("dir")} \cup {Dash(n) : n \in {"-t", "-V", "-x", "-y", "-z"}}, 4)} \cup Late
=============================================================================
