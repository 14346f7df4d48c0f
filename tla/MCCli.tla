------------------------------- MODULE MCCli -------------------------------
(***************************************************************************)
(* The commands and policies of the checked instance of Cli: one command   *)
(* of each way through the code, and one policy of each way to a decision. *)
(***************************************************************************)
EXTENDS Cli

CONSTANTS a, b

Cmd(op) == [op |-> op, refs |-> <<>>, filter |-> {}, dry |-> FALSE, yes |-> FALSE, several |-> FALSE,
            accepted |-> TRUE, shaped |-> TRUE, until |-> "running", polls |-> 0]
ByName(n) == [by |-> "name", of |-> n]
ByPrefix(cs) == [by |-> "prefix", of |-> cs]
On(op, refs) == [Cmd(op) EXCEPT !.refs = refs]
Where(op, states) == [Cmd(op) EXCEPT !.filter = states]
Yes(i) == [i EXCEPT !.yes = TRUE]
Dry(i) == [i EXCEPT !.dry = TRUE]
Several(i) == [i EXCEPT !.several = TRUE]
Unshaped(i) == [i EXCEPT !.shaped = FALSE]
WaitFor(until, polls) == [On("wait", <<ByName(a)>>) EXCEPT !.until = until, !.polls = polls]

\* "stop a 1 --filter status=running" names a container up to three times.
MCInvocations ==
  { On("start", <<ByName(a), ByName(b)>>), Cmd("restart"), Unshaped(On("stop", <<ByName(a)>>)),
    [On("stop", <<ByName(a), ByPrefix({1})>>) EXCEPT !.filter = {"running"}],
    Where("rm", {"exited"}), Yes(Where("rm", {"exited"})), Dry(Where("rm", {"exited"})),
    Yes(On("rm -f", <<ByPrefix({1, 2}), ByPrefix({2})>>)), Yes(Where("kill", {"running"})),
    WaitFor("running", 0), WaitFor("healthy", 2), WaitFor("exited", 2),
    On("exec", <<ByName(a)>>), Yes(On("exec", <<ByPrefix({1})>>)),
    Cmd("compose up"), Yes(Cmd("compose down")),
    Cmd("network create"), Dry(Cmd("network create")), [Cmd("network create") EXCEPT !.accepted = FALSE],
    Cmd("system prune"), Yes(Cmd("system prune")),
    Cmd("ps"), Dry(Cmd("ps")), Several(Cmd("ps")), Several(Unshaped(Cmd("ps"))),
    Cmd("hosts ls"), Several(Cmd("hosts ls")), Several(Cmd("compose up")) }

Block(allow, max) == [allow |-> allow, max |-> max]
NoBlock == Block("unset", Unset)
Blocks(everywhere, here) ==
  [readOnly |-> FALSE, hostReadOnly |-> FALSE, flag |-> FALSE, global |-> everywhere, host |-> here]
Flag(p) == [p EXCEPT !.flag = TRUE]
All == Block("yes", TierDestructive)

MCPolicies ==
  { Blocks(NoBlock, NoBlock), Flag(Blocks(NoBlock, NoBlock)), Blocks(All, NoBlock),
    Flag(Blocks(All, Block("no", Unset))), Blocks(Block("no", Unset), All),
    Blocks(All, Block("unset", TierRead)), Flag(Blocks(Block("unset", TierDestructive), Block("unset", TierSafe))),
    [Flag(Blocks(All, All)) EXCEPT !.readOnly = TRUE], [Blocks(All, NoBlock) EXCEPT !.hostReadOnly = TRUE],
    Blocks(Block("yes", Invalid), All) }
=============================================================================
