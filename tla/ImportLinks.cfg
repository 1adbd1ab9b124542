SPECIFICATION Spec
CONSTANTS
 ann=ann
 bob=bob
 hq=hq
 far=far
 adm=adm
 None=None
 Order <- MCOrder
 Link <- MCLink
 Mapped <- MCMapped
 Remote = {ann,bob,hq,far,adm}
 Own = {1,2}
 Policies = {"skip","overwrite","overwrite_empty"}
 Chunk = 2
 MaxRuns = 3
INVARIANT LinksMapped
CHECK_DEADLOCK FALSE
