--------------------------- MODULE FunctionTools ---------------------------
(***************************************************************************)
(* The service functions and the tools that set them up, side by side:     *)
(* Redirect, and with names of their own, ServiceFunctions and             *)
(* XdpRedirect.  The three share no state.                                 *)
(***************************************************************************)
EXTENDS Redirect

CONSTANTS
    Kinds, Bad, Missing, FlowOf, Files, MaxRules,      \* of ServiceFunctions
    Tools, Forced, MaxLoads                   \* of XdpRedirect

VARIABLES
    fkind, ffilter, rules, fegress, ftool, fcmd, fd, line, words, tuple, fcount,
    ffaults, fpc, whole, refused, fclean, fwant,
    hook, xpc, dummy, agent, loads, xrefused, spared, stuck, displaced, detached, robbed,
    xfaults

F == INSTANCE ServiceFunctions WITH
        kind <- fkind, filter <- ffilter, egress <- fegress, tool <- ftool, cmd <- fcmd,
        count <- fcount, faults <- ffaults, pc <- fpc, clean <- fclean, want <- fwant

X == INSTANCE XdpRedirect WITH pc <- xpc, refused <- xrefused, faults <- xfaults

ASSUME FunctionsAssumption == F!ServiceFunctionsAssumption /\ X!XdpRedirectAssumption

-----------------------------------------------------------------------------
\* What the last run of the tool asked for is what happens to a packet
\* (ServiceFunctions).
SetUpHonoured == F!SetUpHonoured

\* Of two runs without a fault one attaches the filter (ServiceFunctions).
SecondRunSuffices == F!SecondRunSuffices

\* A flow the rules of the firewall drop is not redirected (ServiceFunctions).
ListedBlocked == F!ListedBlocked

\* A tool that ends by its handler leaves nothing it could detach (XdpRedirect).
CleanExit == X!CleanExit

\* A tool keeps the agent from loading Dec at most once, unless a removal fails
\* (XdpRedirect).
EachRefusesOnce == X!EachRefusesOnce

\* A tool displaces Dec only with -F, and detaches it only if its own program was taken
\* off in the window of its handler (XdpRedirect).
DecKept == X!DecKept
=============================================================================
