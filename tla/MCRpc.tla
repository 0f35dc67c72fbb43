--------------------------------- MODULE MCRpc ---------------------------------
(* Instances of Rpc for TLC. *)
EXTENDS Rpc

CONSTANTS c1, c2, w1

\* One session of each compositor, of which the last has no sign of the others.
Sessions ==
  {[signature |-> "set", niri |-> "unset", mango |-> FALSE, wayland |-> TRUE, display |-> TRUE],
   [signature |-> "empty", niri |-> "set", mango |-> FALSE, wayland |-> TRUE, display |-> TRUE],
   [signature |-> "unset", niri |-> "unset", mango |-> FALSE, wayland |-> TRUE, display |-> TRUE]}

Request(method, id, state) == [method |-> method, id |-> id, state |-> state]

Plain(methods) == {Request(method, None, FALSE) : method \in methods}

\* c1 asks for a list, for a value that Niri does not give, for a batch that may fail or be
\* empty before it is sent, for two commands in a row, and for full screen in both ways; the
\* commands of c2 get in its way.
SomeRequests ==
  (c1 :> Plain({"Window.List", "Config.Get", "Config.KeybindsBatch",
                "System.SetKeyboardLayouts"})
          \cup {Request("Window.Fullscreen", None, TRUE), Request("Window.Fullscreen", w1, FALSE)})
  @@ (c2 :> Plain({"Workspace.Switch"}))

OneOrTwo == [c \in Conns |-> IF c \in Pipeliners THEN 2 ELSE 1]

=============================================================================
