------------------------------ MODULE MCStartup ------------------------------
(* Two operands, command lines with the flag in every place, and paths that are  *)
(* empty, relative, absolute, climbing out and not UTF-8.                        *)
EXTENDS Startup

CONSTANTS run, sock

MCOperands == {"settings", "notes.datom"}
MCArgumentLists ==
    {<<>>, <<"--pretty">>, <<"settings">>, <<"--pretty", "notes.datom">>,
     <<"settings", "--pretty">>, <<"settings", "notes.datom">>}
MCParts == {run, sock, Bad, Replacement, Up}
MCPaths ==
    {NoPath, [absolute |-> FALSE, parts |-> <<sock>>], [absolute |-> TRUE, parts |-> <<run>>],
     [absolute |-> FALSE, parts |-> <<Up, sock>>], [absolute |-> TRUE, parts |-> <<run, Up>>],
     [absolute |-> TRUE, parts |-> <<run, Bad>>]}
==============================================================================
