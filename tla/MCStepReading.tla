--------------------------- MODULE MCStepReading ---------------------------
(* Instances of StepReading: every section of three statements out of ten,  *)
(* with its end, without, or broken off; and the section of the unit test   *)
(* counts_an_instance_it_cannot_read_rather_than_guessing.                  *)
EXTENDS StepReading, TLC

Word == (" " :> "blank") @@ (";" :> "semicolon") @@ ("'" :> "quote")
          @@ ("(" :> "open") @@ (")" :> "close") @@ ("," :> "comma")
          @@ ("#" :> "hash") @@ ("$" :> "dollar") @@ ("=" :> "equals")
          @@ ("@" :> "stray")
InWords(s) == [i \in DOMAIN s |-> IF s[i] \in DOMAIN Word THEN Word[s[i]] ELSE s[i]]

MCNumeral == [s \in {"1", "2", "4", "6"} |->
                CASE s = "1" -> 1 [] s = "2" -> 2 [] s = "4" -> 4 [] s = "6" -> 6]

Plain     == <<"#", "1", "=", "IFCA", "(", "$", ")", ";">>
Quoted    == <<" ", "#", "4", "=", "IFCB", "(", "'", ";", "#", "'", ")", ";">>
Nested    == <<"#", "2", "=", "IFCA", "(", "(", "#", "1", ",", "$", ")", ")", ";">>
Typed     == <<"#", "6", "=", "IFCB", "(", "IFCA", "(", "1", ")", ",", "IFCB", ")", ";">>
NoEquals  == <<"#", "2", "IFCA", "'", ";", "'", ";">>
NoList    == <<"#", "4", "=", " ", "IFCA", "'", ";", "'", ";">>
Complex   == <<"#", "2", "=", "(", "IFCA", "(", "1", ")", "IFCB", "(", "2", ")", ")", ";">>
BadMember == <<"#", "2", "=", "IFCA", "(", "@", ",", "1", ")", ";">>
NoNumber  == <<"#", "=", "IFCA", "(", ")", ";">>
Other     == <<"IFCA", "(", "1", ")", ";">>

Statement == {Plain, Quoted, Nested, Typed, NoEquals, NoList, Complex, BadMember,
              NoNumber, Other}
Ending == {<<" ", "ENDSEC", ";">>, <<>>, <<"#", "1", "=", "IFCA", "(", "1">>}

MCTexts == {InWords(a \o b \o c \o e) : a \in Statement, b \in Statement, c \in Statement, e \in Ending}

MCTestTexts == {InWords(Plain \o Complex \o Quoted \o <<"ENDSEC", ";">>)}

MCInstances == 1..50
=============================================================================
