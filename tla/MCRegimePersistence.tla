------------------------ MODULE MCRegimePersistence -------------------------
(* One coin whose market trends up, trends down, is choppy or is quiet.     *)
EXTENDS RegimePersistence

Up == [Cold EXCEPT !.strength = 60, !.r2 = 80, !.consistency = 80,
                   !.vol = 80, !.intensity = 200]
Down == [Up EXCEPT !.strength = -60]
Flat == [Cold EXCEPT !.vol = 80, !.intensity = 200]

ThreeOutlooks == {Up, Down, Flat}

=============================================================================
