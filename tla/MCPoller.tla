------------------------------ MODULE MCPoller ------------------------------
(* Two messages; each budget is a scenario with its own bounds. *)
EXTENDS Poller

MCEvents == {"fault", "crash", "remove", "renumber", "key", "toggle"}
MCActionLists == {<<"keyword">>, <<"read", "move">>}

Budget(fault, crash, remove, renumber, key_, toggle) ==
    [e \in MCEvents |-> CASE e = "fault" -> fault [] e = "crash" -> crash [] e = "remove" -> remove
                          [] e = "renumber" -> renumber [] e = "key" -> key_ [] e = "toggle" -> toggle]

MCBudgets == {
    Budget(2, 1, 0, 0, 0, 0),    \* faults and a crash
    Budget(1, 0, 0, 2, 0, 0),    \* the mailbox is renumbered
    Budget(0, 1, 0, 1, 0, 0),
    Budget(1, 0, 1, 0, 0, 0),    \* another client removes a mail
    Budget(0, 0, 1, 1, 0, 0),
    Budget(1, 0, 0, 0, 1, 0),    \* the owner replaces the key
    Budget(0, 1, 0, 0, 1, 0),
    Budget(1, 0, 0, 0, 0, 1)}    \* encryption is turned on or off

MCQuiet == {Budget(0, 0, 0, 0, 0, 0)}    \* nothing but mail, rules and a classifier
=============================================================================
