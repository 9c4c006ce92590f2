---------------------------- MODULE MCProcessor ----------------------------
(***************************************************************************)
(* Three processors of one schema, two of them of the same name, or two    *)
(* processors of different schemas; functions that compile, that do not,   *)
(* and that collide in each of the ways the checks are there for; and one  *)
(* whose annotation names a class that is defined later, in one schema or  *)
(* the other.  The teams take no part in each other's behaviours.          *)
(***************************************************************************)
EXTENDS Processor, TLC

VARIABLE team

MCProcessors == {"p", "q", "twin", "guest"}
MCNameOf == [p |-> "billing", q |-> "delivery", twin |-> "billing", guest |-> "guest"]
MCSchemaOf == [p |-> "orders", q |-> "orders", twin |-> "orders", guest |-> "carts"]

MCStates == [orders |-> {"created", "paid"}, carts |-> {"cart"}]
\* "loose" is a base class left generic in its enum.
MCSubclasses == [created |-> {"created"}, paid |-> {"paid"}, cart |-> {"cart"},
                 order |-> {"created", "paid"}, loose |-> {"created", "paid", "cart"}]
MCBound == [orders |-> {"created", "paid", "order"}, carts |-> {"cart"}]

Plain(kind) == [kind |-> kind, target |-> None]
To(state) == [kind |-> "state", target |-> state]
Applied(state) == [kind |-> "applied", target |-> state]

PayResult == {Applied("paid"), Plain("rejected")}
MCResults == [orders |-> [pay |-> PayResult, drop |-> {Plain("delete")}],
              carts |-> [fill |-> {Plain("ignored")}]]

Registration(kind, name, match, annotations) ==
  [kind |-> kind, name |-> name, match |-> match, wellFormed |-> TRUE,
   annotations |-> annotations]
Says(state, command, returns) ==
  [resolves |-> TRUE, state |-> state, command |-> command, returns |-> returns]
Undefined == [resolves |-> FALSE, state |-> {}, command |-> "", returns |-> {}]

\* Of the annotations all but the last name only what is there before them.
MCReadings ==
  [charge |-> {Says({"created"}, "", {To("paid"), Plain("retry")})},
   sweep |-> {Says({"order"}, "", {Plain("delete"), Plain("none")})},
   audit |-> {Says({"order"}, "", {Plain("none")})},
   loose |-> {Says({"loose"}, "", {Plain("none")})},
   pay |-> {Says({"created"}, "pay", PayResult \cup {Plain("retry")})},
   open |-> {Says({}, "pay", PayResult)},
   drop |-> {Says({}, "drop", {Plain("delete")})},
   later |-> {Undefined, Says({"cart"}, "", {Plain("delete")}),
              Says({"created"}, "", {Plain("delete")})}]

MCInitially ==
  [a \in DOMAIN MCReadings |-> IF a = "later" THEN Undefined ELSE CHOOSE r \in MCReadings[a] : TRUE]

Charge == Registration("reaction", "charge", "exact", "charge")
Sweep == Registration("reaction", "sweep", "subclasses", "sweep")
Audit == Registration("reaction", "charge", "subclasses", "audit")
Loose == Registration("reaction", "loose", "subclasses", "loose")
Pay == Registration("command", "pay", "exact", "pay")
Open == Registration("initializer", "open", "exact", "open")
Drop == Registration("initializer", "drop", "exact", "drop")
Sync == [Pay EXCEPT !.wellFormed = FALSE]
Later == Registration("reaction", "later", "exact", "later")

MCLibrary == {Charge, Sweep, Audit, Pay, Open, Loose, Sync, Drop, Later}
MCCompositions ==
  {<<"p", "q">>, <<"q", "p">>, <<"p", "twin">>, <<"q", "q">>,
   <<"p", "guest">>, <<"guest", "p">>, <<"p">>}
MCRoom == [p |-> 2, q |-> 1, twin |-> 1, guest |-> 2]

Teams == {[processors |-> {"p", "q", "twin"}, library |-> {Charge, Sweep, Audit, Pay, Open}],
          [processors |-> {"p", "guest"}, library |-> {Charge, Loose, Sync, Drop}],
          [processors |-> {"p", "guest"}, library |-> {Charge, Pay, Later}]}

Within ==
  /\ \A p \in Processors \ team.processors :
       pending[p] = <<>> /\ ~compiled[p].final /\ p \notin factories
  /\ \A p \in team.processors : Range(pending[p]) \subseteq team.library
  /\ "twin" \notin factories
  /\ Later \notin team.library => means["later"] = Undefined

MCInit == Init /\ team \in Teams
MCNext == Next /\ UNCHANGED team /\ Within'
MCSpec == MCInit /\ [][MCNext]_<<vars, team>>
=============================================================================
