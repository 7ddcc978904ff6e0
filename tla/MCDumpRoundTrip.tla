---------------------------- MODULE MCDumpRoundTrip ----------------------------
(* Call trees of up to four frames, dumped once or twice, with hash chains of *)
(* three addresses, two call sites in one function, a function without a name *)
(* and one in no binary.                                                      *)
EXTENDS DumpRoundTrip

MCAddresses == 1..6
MCSlot == <<0, 1, 0, 1, 0, 1>>
MCBinaryOf == <<"exe", "exe", "lib", "", "lib2", "lib2">>
MCNameOf == << <<"f">>, <<"f">>, <<"g">>, <<>>, <<>>, <<"h">> >>
MCRealPath == ("exe" :> <<"exe">>) @@ ("" :> <<"none">>) @@ ("lib" :> <<"lib">>) @@ ("lib2" :> <<"lib">>)

Ctr(def, ticks, value, live) ==
  [def |-> def, ticks |-> ticks, value |-> value, peak |-> value, live |-> live]
(* A buffer's frames: the root, with its children, and the others. *)
Node(address, counters, children) ==
  [address |-> address, counters |-> counters, children |-> children]
Tree(children, frames) == <<Node(0, <<>>, children)>> \o frames

Total(n) == Ctr("TOTAL", n, n + 10, <<>>)
Live(n) == Ctr("LIVE", n, n + 20, <<7, 0>>)
Unused == Ctr("LIVE", 0, 0, <<>>)

Leaf(address, counters) == Node(address, counters, <<>>)

(* Chains are filled out of order, and from the end. *)
Deep == Tree(<<2, 5>>, <<Node(5, <<Total(1)>>, <<3>>), Node(3, <<>>, <<4>>),
                         Leaf(1, <<Total(2), Live(1)>>), Leaf(3, <<Unused>>)>>)
Wide == Tree(<<2, 3, 4>>, <<Leaf(1, <<Live(3)>>), Leaf(2, <<Total(4), Unused>>),
                            Leaf(4, <<Unused, Total(1)>>)>>)
Small == Tree(<<2, 4>>, <<Node(1, <<Total(1), Live(2)>>, <<3>>), Leaf(3, <<>>), Leaf(1, <<Live(1)>>)>>)
Twice == Tree(<<3, 2>>, <<Leaf(1, <<Live(2)>>), Node(2, <<Live(1)>>, <<4>>), Leaf(4, <<Total(1)>>)>>)
Idle == Tree(<<2>>, <<Leaf(2, <<Unused>>)>>)
(* The second name of a file, with and without another file after it *)
Shared == Tree(<<2, 3, 4>>, <<Leaf(3, <<Live(1)>>), Leaf(5, <<Live(1)>>), Leaf(6, <<Live(4)>>)>>)
SharedAgain == Tree(<<2, 3>>, <<Leaf(3, <<Live(1)>>), Node(5, <<Live(1)>>, <<4, 5>>),
                                Leaf(1, <<>>), Leaf(6, <<>>)>>)

Program(key, dumps) == [key |-> key, dumps |-> dumps]

MCPrograms ==
  {Program(k, << <<Wide, Twice>>, <<Twice>> >>) : k \in {"", "TOTAL", "LIVE"}} \cup
  {Program("TOTAL", << <<Deep, Twice>> >>),
   Program("LIVE", << <<Idle, Wide>>, <<Wide, Idle>> >>),
   Program("LIVE", << <<Small>> >>),
   Program("LIVE", << <<Shared>> >>),
   Program("LIVE", << <<SharedAgain>> >>),
   Program("", << <<Idle>> >>)}
===============================================================================
