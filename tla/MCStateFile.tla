----------------------------- MODULE MCStateFile ----------------------------
(* Mixtures of two texts whose fields lie alike up to where the new one     *)
(* breaks off: the field it breaks off in is continued by the same field of *)
(* the old one, at the next element, and the later fields are the old ones. *)
EXTENDS StateFile

Continued(new, old) ==
    {SubSeq(new, 1, j) \o SubSeq(old, j + 1, Len(old)) :
         j \in {j \in 0..Len(new) : j <= Len(old)}}

InEntries(old, new) ==
    {[old EXCEPT !.entries = entries] : entries \in Continued(new.entries, old.entries)}

InMeta(old, new) ==
    {[old EXCEPT !.entries = new.entries, !.minIndex = new.minIndex, !.meta = meta] :
         meta \in Continued(new.meta, old.meta)}

InCosigners(old, new) ==
    {[new EXCEPT !.cosigners = cosigners, !.landmarks = old.landmarks] :
         cosigners \in Continued(new.cosigners, old.cosigners)}

InLandmarks(old, new) ==
    {[new EXCEPT !.landmarks.landmarks = sizes,
                 !.landmarks.expiries = old.landmarks.expiries] :
         sizes \in Continued(new.landmarks.landmarks, old.landmarks.landmarks)}
    \union
    {[new EXCEPT !.landmarks.expiries = expiries] :
         expiries \in Continued(new.landmarks.expiries, old.landmarks.expiries)}

MCMixtures(old, new) ==
    LET alike(field) == IsAState(old) /\ Len(old[field]) = Len(new[field])
    IN  (IF IsAState(old) THEN InEntries(old, new) ELSE {})
        \union
        (IF alike("entries") THEN InMeta(old, new) ELSE {})
        \union
        (IF alike("entries") /\ alike("meta") THEN InCosigners(old, new) ELSE {})
        \union
        (IF /\ alike("entries") /\ alike("meta") /\ alike("cosigners")
            /\ old.landmarks # NoLandmarks /\ new.landmarks # NoLandmarks
         THEN InLandmarks(old, new) ELSE {})

=============================================================================
