---------------------------- MODULE ServicePool ----------------------------
(***************************************************************************)
(* ServicePool (rpc/rpc_service_pool.h): the services of a server by name. *)
(* RegisterService works under _service_map_lock; FindService, run for each*)
(* request by every worker, first looks at a slot of _cache without it, and*)
(* ListService walks the chain of boards without it.  A board is named by  *)
(* the service object it holds; several objects may bear the same name, and*)
(* several names may share a slot of the cache.                            *)
(***************************************************************************)
EXTENDS FiniteSets, Integers

CONSTANTS Services,       \* service objects, one registrar for each
          NameOf,         \* the full_name of each
          SlotOf,         \* CacheIndex of each name
          Finders,        \* threads that call FindService or ListService
          NoBoard         \* the null pointer

Names == {NameOf[s] : s \in Services}
Slots == {SlotOf[n] : n \in Names}

ASSUME ServicePoolAssumption ==
  /\ DOMAIN SlotOf = Names /\ DOMAIN NameOf = Services /\ NoBoard \notin Services
  /\ IsFiniteSet(Services) /\ "idle" \notin Names

VARIABLES _service_map, _service_map_lock, _head, _next, _count, _cache,
          registrar,      \* the step of each object's RegisterService
          finder,         \* the step of each finder: what it looks for, ...
          answer,         \* ... and what it was given
          known           \* the boards known to be registered when it began

pool  == <<_service_map, _head, _next, _count, _cache>>
spvars == <<pool, _service_map_lock, registrar, finder, answer, known>>

SPInit ==
  /\ _service_map = [n \in Names |-> NoBoard] /\ _service_map_lock = {}
  /\ _head = NoBoard /\ _next = [s \in Services |-> NoBoard] /\ _count = 0
  /\ _cache = [i \in Slots |-> NoBoard]
  /\ registrar = [s \in Services |-> "start"]
  /\ finder = [f \in Finders |-> "idle"]
  /\ answer = [f \in Finders |-> {}] /\ known = [f \in Finders |-> {}]

\* WriteLock<MutexLock> _(_service_map_lock).
MapLockFree == _service_map_lock = {}
-----------------------------------------------------------------------------
(* RegisterService, of the object s.                                       *)

Registers(s, from, to) == registrar[s] = from /\ registrar' = [registrar EXCEPT ![s] = to]

\* _service_map.find(svc_name) != _service_map.end().
AlreadyThere(s) == _service_map[NameOf[s]] # NoBoard

RegisterRefused(s) ==
  /\ Registers(s, "start", "refused")
  /\ MapLockFree /\ AlreadyThere(s)
  /\ UNCHANGED <<pool, _service_map_lock, finder, answer, known>>

\* new ServiceBoard(_head, ...), and into the map.
RegisterMap(s) ==
  /\ Registers(s, "start", "map")
  /\ MapLockFree /\ _service_map_lock' = {s}
  /\ ~ AlreadyThere(s)
  /\ _next' = [_next EXCEPT ![s] = _head]
  /\ _service_map' = [_service_map EXCEPT ![NameOf[s]] = s]
  /\ UNCHANGED <<_head, _count, _cache, finder, answer, known>>

RegisterHead(s) ==
  /\ Registers(s, "map", "head")
  /\ _head' = s /\ _count' = _count + 1
  /\ UNCHANGED <<_service_map, _next, _cache, _service_map_lock, finder, answer, known>>

\* The first name of a slot keeps it.
RegisterCache(s) ==
  /\ Registers(s, "head", "done")
  /\ LET i == SlotOf[NameOf[s]]
     IN _cache' = IF _cache[i] = NoBoard THEN [_cache EXCEPT ![i] = s] ELSE _cache
  /\ _service_map_lock' = {}
  /\ UNCHANGED <<_service_map, _head, _next, _count, finder, answer, known>>
-----------------------------------------------------------------------------
(* FindService and ListService.  The set of boards a call answers is at    *)
(* most one for FindService.                                               *)

RegisteredBoards == {s \in Services : registrar[s] = "done"}

Answers(f, boards) ==
  /\ finder' = [finder EXCEPT ![f] = "idle"]
  /\ answer' = [answer EXCEPT ![f] = boards]

InCache_AnyName(n) == _cache[SlotOf[n]] # NoBoard

\* _cache[cache_index] is a board of that name.
InCache(n) == _cache[SlotOf[n]] # NoBoard /\ NameOf[_cache[SlotOf[n]]] = n

FindInCache(f, n) ==
  /\ finder[f] = "idle" /\ known' = [known EXCEPT ![f] = {s \in RegisteredBoards : NameOf[s] = n}]
  /\ IF InCache(n)
     THEN Answers(f, {_cache[SlotOf[n]]})
     ELSE finder' = [finder EXCEPT ![f] = n] /\ UNCHANGED answer
  /\ UNCHANGED <<pool, _service_map_lock, registrar>>

FindInMap(f) ==
  /\ finder[f] \in Names /\ MapLockFree
  /\ Answers(f, {_service_map[finder[f]]} \ {NoBoard})
  /\ UNCHANGED <<pool, _service_map_lock, registrar, known>>

\* The boards from s on.
ChainFrom(s) ==
  LET chain[k \in 0 .. Cardinality(Services)] ==
        [b \in Services \cup {NoBoard} |->
           IF b = NoBoard \/ k = 0 THEN {} ELSE {b} \cup chain[k - 1][_next[b]]]
  IN chain[Cardinality(Services)][s]

\* The links of a board never change, so that only the reading of _head counts.
ListService(f) ==
  /\ finder[f] = "idle" /\ known' = [known EXCEPT ![f] = RegisteredBoards]
  /\ Answers(f, ChainFrom(_head))
  /\ UNCHANGED <<pool, _service_map_lock, registrar>>
-----------------------------------------------------------------------------
SPNext == \/ \E s \in Services : \/ RegisterRefused(s) \/ RegisterMap(s)
                                 \/ RegisterHead(s) \/ RegisterCache(s)
          \/ \E f \in Finders : \/ \E n \in Names : FindInCache(f, n)
                                \/ FindInMap(f) \/ ListService(f)

SPSpec == SPInit /\ [][SPNext]_spvars
-----------------------------------------------------------------------------
(* Properties.                                                             *)

\* A request finds each service whose registration was over when it arrived,
\* whichever of the cache and the map answers and whatever is registered
\* meanwhile, and is never given a service of another name than its own; a
\* listing has each of them too, and a name once.
RegisteredIsFound ==
  \A f \in Finders : finder[f] = "idle" =>
    /\ known[f] \subseteq answer[f]
    /\ \A s, t \in answer[f] : NameOf[s] = NameOf[t] => s = t

\* FindService answers the name it was asked for, and the same board once it
\* answered one: neither the cache nor the map hands out a second one.
FoundByName ==
  [][\A f \in Finders, n \in Names :
       FindInCache(f, n) \/ (finder[f] = n /\ finder'[f] = "idle")
         => \A s \in answer'[f] :
              finder'[f] = "idle" => NameOf[s] = n /\ _service_map[n] = s]_spvars

\* With the lock free, the map, the chain of boards and _count agree, and the
\* cache holds nothing else: two registrations lose no board.
PoolConsistent ==
  _service_map_lock = {} =>
    /\ {_service_map[n] : n \in Names} \ {NoBoard} = ChainFrom(_head)
    /\ RegisteredBoards = ChainFrom(_head) /\ _count = Cardinality(RegisteredBoards)
    /\ \A i \in Slots : _cache[i] # NoBoard => _cache[i] \in ChainFrom(_head)

\* Lookup without the lock is safe: what was registered is found, under its own
\* name, and two registrations leave map, chain and cache in agreement.
ServicesFound == []RegisteredIsFound /\ []PoolConsistent /\ FoundByName
=============================================================================
