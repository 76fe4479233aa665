------------------------------ MODULE MCReports ------------------------------
EXTENDS Reports, TLC

CONSTANT Alike   \* the events of one fingerprint; each other event has its own

Symmetry == Permutations(Calls)

MCFingerprint == [e \in Events |-> IF e \in Alike THEN "alike" ELSE e]

\* Every rule is named after its condition, and lets every event through.
MCCondition == [r \in Rules |-> r]
MCMatching  == [r \in Rules |-> Events]

Ones == [r \in Rules |-> 1]
Twos == [r \in Rules |-> 2]

\* Below zero, at once, within the time of a request and beyond it.
MCDelays == {-1, 0, 1, 9}

\* The exceptions that may be stored are the combinations of what decides where
\* one is and what it is grouped by, of what may be thrown, and nestings.
Plain == [type |-> "text", message |-> "text", code |-> Absent, frames |-> Absent,
          source |-> Absent, value |-> Absent, children |-> Absent]

Alone(node) == [p \in {<<>>} |-> node]

Locations == {Absent, Odd} \cup
    [file : {Absent, "blank", "text"}, line : {Absent, 0, 1}, function : {Absent, Odd, "text"}]
FrameLists ==
    LET frame == {Odd, NoFrame, [NoFrame EXCEPT !.file = "text"],
                  [NoFrame EXCEPT !.line = 1], [NoFrame EXCEPT !.rest = "text"]}
    IN {Absent, Odd, <<>>} \cup UNION {[1 .. n -> frame] : n \in 1 .. MaxFrames + 1}

Placed == {Alone([Plain EXCEPT !.type = t, !.message = m, !.frames = f, !.source = p]) :
             t \in {Absent, "blank", "huge"}, m \in {Absent, "blank", "text", "huge"},
             f \in FrameLists, p \in Locations}
Thrown == {Alone([Plain EXCEPT !.type = Absent, !.code = c, !.value = v]) :
             c \in Strings, v \in {Absent, Odd} \cup [type : Strings, representation : Strings]}

\* A node above a cause, unless it has none, and its children.
Above(cause, children) ==
    LET below == {<<0>> \o p : p \in DOMAIN cause} \cup
          UNION {{<<i>> \o p : p \in DOMAIN children[i]} : i \in DOMAIN children}
    IN [p \in {<<>>} \cup below |->
         IF p = <<>> THEN [Plain EXCEPT !.children = Len(children)]
         ELSE IF p[1] = 0 THEN cause[Tail(p)] ELSE children[p[1]][Tail(p)]]

\* Only the first child may have a cause.
RECURSIVE Nested(_)
Nested(depth) ==
    IF depth = 0 THEN {Alone(Odd), Alone(Plain)}
    ELSE LET below  == Nested(depth - 1)
             few    == {b \in below : <<1>> \notin DOMAIN b}
             leaves == {b \in below : DOMAIN b = {<<>>}}
         IN {Alone(Odd), Alone([Plain EXCEPT !.children = Odd])} \cup
            {Above(c, ch) : c \in {<<>>} \cup below,
                            ch \in {<<>>} \cup {<<first>> \o rest : first \in few,
                                     rest \in UNION {[1 .. n -> leaves] : n \in 0 .. MaxChildren}}}

MCExceptions == {Alone(Odd)} \cup Placed \cup Thrown \cup Nested(MaxDepth + 1)

=============================================================================
