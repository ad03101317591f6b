---------------------------- MODULE MCFunctions ----------------------------
(***************************************************************************)
(* Small instances of the functions and of the tools that set them up:     *)
(* Redirect, ServiceFunctions and XdpRedirect.  They share no state; the   *)
(* initial state says which of them moves.                                 *)
(***************************************************************************)
EXTENDS FunctionTools, Sequences, TLC

CONSTANTS p1, p2, a, b, i, j, t1, t2, t3

VARIABLE subject

redirectVars == <<kind, filter, pinned, srcip, egress, tool, cmd, count, faults, pc,
                  asked, clean, want>>
filterVars   == <<fkind, ffilter, rules, fegress, ftool, fcmd, fd, line, words, tuple,
                  fcount, ffaults, fpc, whole, refused, fclean, fwant>>
xdpVars      == <<hook, xpc, dummy, agent, loads, xrefused, spared, stuck, displaced,
                  detached, robbed, xfaults>>

-----------------------------------------------------------------------------
\* Two sources, two interfaces and all command lines over them.  The second packet is
\* that of a host that has no address yet.
MCSrcOf == p1 :> a @@ p2 :> Unset

MCCommands ==
    [ingress : BOOLEAN, remove : BOOLEAN,
     srcip : {a, b, Unset, NotGiven}, egress : {i, j, Unset, NotGiven}]

\* A ping and a packet of an HTTP flow of the same source.
MCFlowOf == p1 :> [src |-> a, port |-> 0] @@ p2 :> [src |-> a, port |-> 80]

Line(s, n, action) == [src |-> s, port |-> n, action |-> action]

\* Files with a word that is no action, with short lines, with addresses that cannot be
\* read, and with more than the map can hold after another file.
MCFiles ==
    { << Line(a, 80, "drop"), Line(b, 0, "other"), Line(a, 0, "drop") >>,
      << Line(b, Missing, Missing), Line(a, 0, "allow") >>,
      << Line(Bad, 80, "allow"), Line(a, 0, "drop"), Line(Bad, 0, "allow") >>,
      << Line(b, 0, "drop"), Line(a, 80, "drop"), Line(Missing, Missing, Missing) >> }

\* Tools that are not run with -F are alike.
Alike == Permutations({t1, t2})

-----------------------------------------------------------------------------
FunctionsInit ==
    /\ subject \in {"redirect", "filters", "xdp"}
    /\ Init /\ F!Init /\ X!Init
    /\ subject # "redirect" => kind = "tc-redirect"
    /\ subject # "filters" => fkind = "chacha"

FunctionsNext ==
    /\ \/ subject = "redirect" /\ Next /\ UNCHANGED <<filterVars, xdpVars>>
       \/ subject = "filters" /\ F!Next /\ UNCHANGED <<redirectVars, xdpVars>>
       \/ subject = "xdp" /\ X!Next /\ UNCHANGED <<redirectVars, filterVars>>
    /\ UNCHANGED subject

FunctionsSpec ==
    FunctionsInit /\ [][FunctionsNext]_<<subject, redirectVars, filterVars, xdpVars>>
=============================================================================
