------------------------------- MODULE Places -------------------------------
(***************************************************************************)
(* What customers find and what it costs: venues, facilities and pricing   *)
(* rules as partners and the admin write them (venues.service,             *)
(* facilities.service), and the radius search, whose answers cache.service *)
(* keeps in Redis for five minutes.  Creating or updating a venue starts   *)
(* an invalidation that nobody waits for; the other writes start none.     *)
(*                                                                         *)
(* Times are versions: version counts the writes, an answer remembers the  *)
(* one it was read at and the one it was stored at.                        *)
(***************************************************************************)
EXTENDS Pricing, FiniteSets

CONSTANTS
  None,
  Venues, Facilities,  \* ids a row can get; the facilities of a venue are FacilitiesOf it
  FacilitiesOf,
  Rules,               \* pricing rules that may be created, each with its facility
  SeedRules,           \* those the seed creates
  Bookable,            \* periods that may be booked
  Queries,             \* [places, category]: the places in the radius, and the filter
  Searches,            \* slots for searches in flight (a bound on the concurrency)
  MaxWrites

Position == {"near", "far", "unknown"}

ASSUME PlacesAssumption ==
  /\ FacilitiesOf \in [Venues -> SUBSET Facilities]
  /\ SeedRules \subseteq Rules /\ IsFiniteSet(SeedRules)
  /\ \A r \in Rules : r.from \in Int /\ r.to \in Int /\ r.price \in Int
  /\ \A p \in Bookable : p.start \in Int /\ p.end \in Int /\ ValidInterval(p)
  /\ \A q \in Queries : q.places \subseteq Position \ {"unknown"}
  /\ MaxWrites \in Nat

VARIABLES
  venue,           \* status and position of each venue
  facility,        \* status and category of each facility
  rules,           \* pricing_rules
  version,
  invalidation,    \* of each write: none, or how far it is and the keys it found
  cache,           \* the answers in Redis
  search           \* the searches in flight

tables == <<venue, facility, rules>>

placesVars == <<venue, facility, rules, version, invalidation, cache, search>>

NoVenue == [status |-> "NONE", position |-> "unknown"]

NoFacility == [status |-> "NONE", category |-> "NONE"]

NoInvalidation == [step |-> "none", keys |-> {}]

NoSearch == [step |-> "idle", query |-> None, answer |-> {}, read |-> 0]

\* Nothing yet, or what the seed creates: an active venue without coordinates, its
\* facilities and their rules.
PlacesInit ==
  /\ \/ /\ venue = [v \in Venues |-> NoVenue]
        /\ facility = [f \in Facilities |-> NoFacility]
        /\ rules = {}
     \/ /\ venue = [v \in Venues |-> [NoVenue EXCEPT !.status = "ACTIVE"]]
        /\ facility = [f \in Facilities |-> [status |-> "ACTIVE", category |-> "courts"]]
        /\ rules = SeedRules
  /\ version = 0
  /\ invalidation = [w \in 1..MaxWrites |-> NoInvalidation]
  /\ cache = [q \in Queries |-> None]
  /\ search = [s \in Searches |-> NoSearch]

-----------------------------------------------------------------------------
\* A write is committed, and an invalidation started or not.
Write(invalidates) ==
  /\ version < MaxWrites
  /\ version' = version + 1
  /\ invalidation' =
       IF invalidates THEN [invalidation EXCEPT ![version + 1].step = "keys"] ELSE invalidation
  /\ UNCHANGED <<cache, search>>

\* create: the slug is free, and the business the organization's; a venue begins as a
\* DRAFT, at the coordinates given or found for its address.
CreateVenue(v, position) ==
  /\ venue[v] = NoVenue
  /\ venue' = [venue EXCEPT ![v] = [status |-> "DRAFT", position |-> position]]
  /\ Write(TRUE)
  /\ UNCHANGED <<facility, rules>>

UpdateVenue(v, status, position) ==
  /\ venue[v] # NoVenue
  /\ venue' = [venue EXCEPT ![v] = [status |-> status, position |-> position]]
  /\ Write(TRUE)
  /\ UNCHANGED <<facility, rules>>

\* geocodeVenueAddress, and a step of batchGeocodeVenues for a venue without coordinates.
GeocodeVenueAddress(v, position) ==
  /\ venue[v] # NoVenue
  /\ venue' = [venue EXCEPT ![v].position = position]
  /\ Write(FALSE)
  /\ UNCHANGED <<facility, rules>>

CreateFacility(v, f, category) ==
  /\ venue[v] # NoVenue /\ f \in FacilitiesOf[v]
  /\ facility[f] = NoFacility
  /\ facility' = [facility EXCEPT ![f] = [status |-> "ACTIVE", category |-> category]]
  /\ Write(FALSE)
  /\ UNCHANGED <<venue, rules>>

UpdateFacility(f, status, category) ==
  /\ facility[f] # NoFacility
  /\ facility' = [facility EXCEPT ![f] = [status |-> status, category |-> category]]
  /\ Write(FALSE)
  /\ UNCHANGED <<venue, rules>>

CreatePricingRule(r) ==
  /\ facility[r.facility] # NoFacility
  /\ rules' = rules \cup {r}
  /\ Write(FALSE)
  /\ UNCHANGED <<venue, facility>>

DeletePricingRule(r) ==
  /\ r \in rules
  /\ rules' = rules \ {r}
  /\ Write(FALSE)
  /\ UNCHANGED <<venue, facility>>

-----------------------------------------------------------------------------
\* Mutant: only the searches without a category are looked for.
MatchedUnfiltered == {q \in Queries : cache[q] # None /\ q.category = "all"}

\* What KEYS venues:* finds: every stored answer, whatever was asked.
Matched == {q \in Queries : cache[q] # None}

FindKeys(w) ==
  /\ invalidation[w].step = "keys"
  /\ invalidation' = [invalidation EXCEPT ![w] =
       IF Matched = {} THEN [step |-> "done", keys |-> {}] ELSE [step |-> "del", keys |-> Matched]]
  /\ UNCHANGED <<tables, version, cache, search>>

\* DEL of those keys; an answer stored after KEYS under another key stays.
DeleteKeys(w) ==
  /\ invalidation[w].step = "del"
  /\ cache' = [q \in Queries |-> IF q \in invalidation[w].keys THEN None ELSE cache[q]]
  /\ invalidation' = [invalidation EXCEPT ![w] = [step |-> "done", keys |-> {}]]
  /\ UNCHANGED <<tables, version, search>>

\* Redis does not answer, or the process stops: the error is swallowed.
LoseInvalidation(w) ==
  /\ invalidation[w].step \in {"keys", "del"}
  /\ invalidation' = [invalidation EXCEPT ![w] = [step |-> "lost", keys |-> {}]]
  /\ UNCHANGED <<tables, version, cache, search>>

-----------------------------------------------------------------------------
OffersOf(v, q) ==
  {f \in FacilitiesOf[v] :
     facility[f].status = "ACTIVE" /\ (q.category = "all" \/ facility[f].category = q.category)}

\* What findNearby answers from the database: the active venues in the radius that have
\* a facility of the category, if one is asked for, and what their facilities cost.
Answer(q) ==
  {[venue |-> v, facilities |-> {<<f, {r \in rules : r.facility = f}>> : f \in
       {g \in FacilitiesOf[v] : facility[g].status = "ACTIVE"}}] :
     v \in {x \in Venues : /\ venue[x].status = "ACTIVE"
                           /\ venue[x].position \in q.places
                           /\ q.category = "all" \/ OffersOf(x, q) # {}}}

\* getOrSet: a miss, or Redis does not answer.  A hit changes nothing.
BeginSearch(s, q) ==
  /\ search[s] = NoSearch
  /\ search' = [search EXCEPT ![s] = [NoSearch EXCEPT !.step = "fetch", !.query = q]]
  /\ UNCHANGED <<tables, version, invalidation, cache>>

FetchAnswer(s) ==
  /\ search[s].step = "fetch"
  /\ search' = [search EXCEPT ![s].step = "set", ![s].read = version,
                              ![s].answer = Answer(search[s].query)]
  /\ UNCHANGED <<tables, version, invalidation, cache>>

\* Mutant: the answer is stored without a time to live.
EntryForever(s) ==
  [answer |-> search[s].answer, read |-> search[s].read, stored |-> version, expires |-> FALSE]

Entry(s) ==
  [answer |-> search[s].answer, read |-> search[s].read, stored |-> version, expires |-> TRUE]

\* SET with EX 300, which the customer does not wait for; or it is lost.
StoreAnswer(s) ==
  /\ search[s].step = "set"
  /\ \/ cache' = [cache EXCEPT ![search[s].query] = Entry(s)]
     \/ UNCHANGED cache
  /\ search' = [search EXCEPT ![s] = NoSearch]
  /\ UNCHANGED <<tables, version, invalidation>>

\* Five minutes have passed.
Expire(q) ==
  /\ cache[q] # None /\ cache[q].expires
  /\ cache' = [cache EXCEPT ![q] = None]
  /\ UNCHANGED <<tables, version, invalidation, search>>

WriteStep ==
  \/ \E v \in Venues, position \in Position :
       \/ CreateVenue(v, position)
       \/ GeocodeVenueAddress(v, position)
       \/ \E status \in {"DRAFT", "ACTIVE"} : UpdateVenue(v, status, position)
  \/ \E v \in Venues, f \in Facilities, category \in {"courts", "pools"} :
       \/ CreateFacility(v, f, category)
       \/ \E status \in {"ACTIVE", "INACTIVE"} : UpdateFacility(f, status, category)
  \/ \E r \in Rules : CreatePricingRule(r) \/ DeletePricingRule(r)

InvalidationStep == \E w \in 1..MaxWrites : FindKeys(w) \/ DeleteKeys(w) \/ LoseInvalidation(w)

SearchStep(s) == FetchAnswer(s) \/ StoreAnswer(s) \/ \E q \in Queries : BeginSearch(s, q)

PlacesNext ==
  \/ WriteStep
  \/ InvalidationStep
  \/ \E s \in Searches : SearchStep(s)
  \/ \E q \in Queries : Expire(q)

\* Redis drops what has expired; nothing else need ever happen.
PlacesSpec == PlacesInit /\ [][PlacesNext]_placesVars /\ \A q \in Queries : WF_placesVars(Expire(q))

-----------------------------------------------------------------------------
\* After the invalidation of a write has been carried out, no answer that was both read
\* and stored before the write is left: only a search that had read before it and stored
\* after it can still bring the old state back.
InvalidationReaches ==
  \A w \in 1..version : invalidation[w].step = "done" =>
    \A q \in Queries : cache[q] # None => cache[q].read >= w \/ cache[q].stored >= w

\* Although most writes invalidate nothing, invalidations get lost and searches store what
\* they read long ago, once the writes stop the searches are right in the end.
StaleEnds ==
  <>[](\A q \in Queries : cache[q] # None => cache[q].answer = Answer(q))

\* A booking costs what its parts cost, cut at any segment, and can be priced exactly if
\* they all can, in whichever order the database returns rules of equal priority to
\* all three calculations: although each fetches only the rules its own interval needs.
Cuts(i) == Starts(i) \ {i.start}

In(order, i) ==
  FlattenSeq([k \in DOMAIN order |->
                IF order[k].from <= i.end /\ i.start <= order[k].to THEN <<order[k]>> ELSE <<>>])

PricesAddUp ==
  \A f \in Facilities :
    \A whole \in Bookable : \A t \in Cuts(whole) :
      \A order \in Fetched({r \in rules : r.facility = f}, whole) :
        LET first == Interval(whole.start, t)
            rest  == Interval(t, whole.end)
        IN  /\ Priced(order, whole) <=> Priced(In(order, first), first) /\ Priced(In(order, rest), rest)
            /\ Priced(order, whole) =>
                 TotalPrice(order, whole) =
                   TotalPrice(In(order, first), first) + TotalPrice(In(order, rest), rest)
=============================================================================
