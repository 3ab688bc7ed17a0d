---------------------------- MODULE MCDispatcher ----------------------------
EXTENDS Dispatcher
MCCommands ==
  [m \in Mailboxes |-> IF m = "A" THEN {"94", "8D", "FF"}
                       ELSE {"C6", "8C", "F4", "E7", "DF"}]
MCBelowBits == {4}
=============================================================================
