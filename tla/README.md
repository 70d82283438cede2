# Verification of NOW LMS

NOW LMS is a learning management system: a Flask application whose workers
serve requests against one relational database, with an optional cache (Redis
or memory) in front of the rendered pages, PayPal as the payment service, and
an external API for enrollments. This directory holds TLA+ models of its parts,
TLC configurations that check them on small instances, and TLAPS proofs of all
the safety that the passing configurations check, for any size.

All paths below are relative to the repository. Every definition that models
code is listed with its lines in `PROJECT.json` under `map`; definitions keep
the names of the source, which mixes Spanish and English.

## Inventory

What workers share is the database, the cache and the disk. Components call each
other inside a request; between requests they interact through rows only. A
view is a handful of statements with one or more commits between them, and the
process may die at any of them: that is where nearly all of the hard behaviour
is.

| Component | State | Operations | Hard behaviour | What makes it correct |
|---|---|---|---|---|
| Course enrollment `vistas/courses/enrollment.py` | `EstudianteCurso`, `Pago`, `Coupon.current_uses`, progress rows | free, audit, paid, resumed enrollment | several statements and two commits per request; two requests of one student interleave | a live seat has a completed payment and a completed payment has a row; a seat is improved, never downgraded |
| PayPal checkout `vistas/paypal.py`, `static/js/paypal.js` | `Pago`, the amount on an open page | payment page, resume, confirm | the browser retries; order ids are looked up and inserted without a lock; stale pending payments | booked money was captured, an order is booked once, a captured order is booked in the end |
| Coupons `vistas/courses/coupons.py`, `db/__init__.py` | `Coupon` | validate, discount, create, edit, delete, expire | limit tested at the quote, counted at the payment | uses counted = payments that used it |
| Administrative enrollment `vistas/courses/base.py` | as above | enroll, remove, edit the course | an inactive row is not seen but still unique | as above |
| View cache `cache.py` | pages, generations | read, store, invalidate, clear | a page rendered before a commit stored after it; keys rebuilt in two places | nobody gets another visitor's page; invalidated edits are shown |
| Progress and certificates `vistas/courses/helpers.py`, `resources.py` | progress rows, their summary, `Certificacion` | mark, recompute, issue | two completions at once; repeated completion | certificates are earned and completions not lost |
| Evaluations `vistas/evaluations.py` | attempts, requests to reopen | take, reopen, edit | count, then insert | attempts within the limit |
| Question bank `vistas/profiles/instructor.py`, `evaluations.py` | questions, options, answers | add, edit, delete, grade, practise | the bank changes between the page and the grading | the right answer counts, scores are final |
| Programs `vistas/programs.py`, `paypal.py` | courses, students, payments and certificates of a program | enroll, pay, add and remove courses, certify | a fan-out over courses while the program changes | enrolled in all courses or none; the certificate lists what was completed |
| Remote API `vistas/public_api.py`, `cache.py` | users, enrollments, the log of requests, a counter | enroll by request id, limit, revoke | repeated, overlapping and dying calls | served at most once, answered truly, limited |
| Course authoring `bi.py`, `vistas/courses/*` | order of sections and resources, files, slides, library | move, insert, delete, upload | numbering in a second transaction; locks taken in two orders; files beside rows | order without gaps, navigation follows it, no row without its file |
| Course status and forum `bi.py`, `vistas/forum.py` | status, publication, messages | open, close, finalize, publish, write, answer | three commits of one change | a course that is not open is public only if its form says so; a closed thread is silent |
| Messages `vistas/messages.py` | threads, replies, reports, read marks | write, change status, report, resolve | transitions checked against stale rows | closed is final, reports are listed |
| Community Hub `vistas/comunidad.py` | posts, replies, likes, reports, trail | publish, answer, like, report, moderate | two moderators at once | the trail explains the state, reports are queued |
| Blog `vistas/blog.py` | posts, comments, tags, counters, cached pages | write, approve, ban, comment, read | counters read and written; pages kept under the reader's key | banned posts are not listed and leave the cache |
| Custom pages `vistas/custom_pages.py`, `db/initial_data.py` | pages, their cache, the language | edit, hide, delete, synchronise | the synchronisation runs over edits | the administrators' words are kept |
| Certificate templates `db/certificates_templates.py`, `vistas/certificates.py` | templates, issued certificates | install, write, issue, show | dates that do not exist; rows renamed after the issue | the holder is shown, personal data is not |
| Database setup `__init__.py`, `db/initial_data.py` | schema, stamp, seed rows, copied files | first start | dies between commits; two processes at once | references resolve, what counts as populated is stamped |
| Calendar `calendar_utils.py`, `vistas/calendar.py` | events, time zone | make, update, show, export | made in a transaction of all sources; updated in a thread | one event per date, no day lost |
| Access requests `vistas/request_access.py` | buckets of the limiter, tokens, rows | submit | sweep, eviction, restart | limited, nobody refused without cause, receipts are true |
| Prior credentials `vistas/prior_credentials.py` | records and images | submit, delete, review | three requests on one record | decided by a review of it; images are those of rows |
| Master classes; mail; accounts and sessions; announcements, contact and home; settings; profiles; migrations; command line | rows edited one at a time | forms | little | not modelled, see the end |

## Modules

One module per component holds its state, one action per operation or statement,
and its properties; modules prefixed `MC` are the instances TLC checks, and `CoursePageCache` is checked
as it is.

| Modules | Component |
|---|---|
| `LmsTables`, `Coupons`, `Enrollment`, `PaypalCheckout`, composed in `CourseSales` | selling a course |
| `CoursePageCache` | the view cache |
| `CourseProgress`, `Evaluations`, composed in `CourseCompletion` | progress, attempts, certificates of a course |
| `Programs` | programs, their payment and certificate |
| `CertificateTemplates`, `Certificates` | what certificates print |
| `IdempotentEnrollment` (abstract), `RemoteEnrollment`, `ApiRateLimit` | the external API |
| `CourseIndex`, `CourseResources`, `Slideshow`, `CourseLibrary`, `QuestionBank` | course authoring and the question bank |
| `CourseForum`, `Messages`, `CommunityHub`, `Blog`, `CustomPages` | what is written and published |
| `DatabaseSetup`, `Calendar`, `CalendarMonths`, `AccessRequests`, `PriorCredentials` | administration |
| `CourseSales_proofs`, `CoursePageCache_proofs`, `RemoteEnrollment_proofs`, `CourseCompletion_proofs` | proofs about a component |
| `MCLearning_proofs`, `MCTeaching_proofs`, `MCCommunity_proofs`, `MCAdministration_proofs` | proofs about instances, for any value of their constants, and about every instance of the components that take their constants from a record |
| `TeachingInvariant` | the inductive invariants that `MCTeaching_proofs` proves, part by part |
| `MCCourseSales`, `MCRemoteEnrollment`, `MCLearning`, `MCTeaching`, `MCCommunity`, `MCAdministration`, `MCInTheEnd` | instances |

### How a request is modelled

A request is a record of `peticion` whose `pc` names the statement it will run
next; the rest of it is what the view function has read. A view is cut exactly
where another transaction can commit and change what it reads next, so that a
view of one transaction without reads before it is one action. For the sale of a
course:

| pc | next statement |
|---|---|
| `lookup` | the query for the student's `EstudianteCurso` row (it autoflushes the coupon's UPDATE) |
| `enroll` | the commit of payment, enrollment and coupon |
| `pending` | the commit of a pending payment |
| `admin` | the commit of an administrative enrollment |
| `record` | the search for a payment with the order id |
| `flush` | the flush of the payment and the query for the enrollment row |
| `pay` | the commit of payment and enrollment |
| `coupon` | the coupon's own transaction |
| `index`, `index_admin` | the progress index's own transaction |

What the models take from the database and the ORM: transactions are atomic and
READ COMMITTED; an UPDATE holds its row until its transaction ends
(`CouponUnlocked`, for a request that counts a coupon, `PagoUnlocked`, `cerradura`
of `CourseIndex`); the session
keeps the attributes of a row it loaded, so a row that somebody else changed
still looks as it was (`FindRecord`), and an attribute set to the value already
loaded is not written (`FilaGuardada`, `EditTakesEffect`); a second insert under
a unique key fails and rolls the transaction back (`IntegrityError`). SQLite does
not enforce foreign keys and has no row locks, MySQL and PostgreSQL do:
`Integridad` and `ConBloqueo` choose.

A crash (`Caer`, at most `MaxCaidas`) forgets a request and what it had not
committed; files it had written stay.

### Instances and parts

`MCLearning`, `MCTeaching`, `MCCommunity`, `MCAdministration` and `MCInTheEnd`
instantiate several components with `INSTANCE ... WITH`, some of them more than
once: one request at a time for the properties that hold only there, two or
three at a time for the others. The components of one such module share no rows
and do not call each other, so each behaviour is about one of them: `parte` is
chosen in the initial state and names the instance that takes steps, whose
requests `peticion` keeps; the variables of the others are `Nada`. Every property
of these modules is a conjunction of properties of the parts, each of which is
stated, with the code it is about, in the component's own module. An instance
stands in the property only where the code keeps it: where `TopeRespetado` is
demanded of `evaluado` and not of `seguido`, overlapping requests do break it,
and *Disagreements* below says how.

### The components

- **Selling a course.** `LmsTables` declares the rows of one course; `inscripcion`
  is a function of the student because `UNIQUE(usuario, curso)` makes it one,
  `pagina` is the amount an open payment page shows, `ordenes` what PayPal
  captured. `Coupons` is the `Coupon` model and its forms; one code is modelled,
  and a deleted one can be created again under a new key. `Enrollment` is
  `course_enroll` and the administrative enrollment, `PaypalCheckout` the payment
  page, the capture (external) and `confirm_payment`; `CourseSales` composes them
  and adds the crash.
- **The view cache.** The rows behind a page are two counters, commits to a course
  (`version`) and to a member's enrollment (`matricula`); a page carries the counts
  it was rendered from. A page request (`lector`) computes its key once, looks it
  up, renders and stores under the same key. A request that writes (`escritor`)
  commits and then makes one call of the cache at a time: `DeleteKeys`,
  `ReadGeneration`, `bump_generacion`, `DeleteRoster`. A refused bump is swallowed
  (`BumpFails`), a request may stop anywhere (`WriterStops`), the cache drops pages
  at any time (`Expire`), may evict a generation, and is cleared by a change of
  settings. `invalidada`, `avisada` and `exigida` are history: no guard reads them.
- **Progress.** `CourseProgress` is the mark of a resource, the summary row and the
  three places that issue a certificate, with the flag copied into each progress
  row; `Evaluations` the attempts and requests to reopen, and the forms of an
  evaluation.
- **Programs.** Every path of an enrollment in all courses, its payment with the
  transaction that PayPal confirms, edits of the program and of its code, and its
  certificate with the courses it lists.
- **The external API.** `RemoteEnrollment` runs one call statement by statement:
  the log by request id, the user, the enrollment, the commit with its unique
  keys, the invitation, the answer, which may be lost. `IdempotentEnrollment` is
  what a caller is promised: each id is served at most once, with what it asked
  for, in one step. `ImplementsService` is the refinement. `ApiRateLimit` is the
  counter of a key, in memory and in Redis, with its timeout.
- **Authoring.** `CourseIndex` numbers sections and resources, with the locks of
  `modificar_indice_curso` and the second transaction of the deletions (the locks of
  one SELECT are taken together, so that two requests which hold a part each, of which
  the database would end one, are a request that dies);
  `CourseResources` the form of every type with the file each keeps; `Slideshow`
  a presentation through one page of the editor; `CourseLibrary` names, contents
  and rows of a library; `QuestionBank` questions and options, the page a student
  answers, the grading, and what the practice page counts.
- **Writing.** `CourseForum` is the status of a course in its three commits, the course
  form, whose *public* box is stored whatever the status is, and the
  threads of the forum; `Messages` threads with reports and read marks;
  `CommunityHub` posts with moderation, its trail and the trending score, without the
  limits on how often a member may act; `Blog`
  posts, comments, tags and counters with the cached pages; `CustomPages` the
  administrators' forms, the cached views and the synchronisation of the default
  pages with the site's language.
- **Administration.** `DatabaseSetup` is every commit of a first start and the
  files copied between; `Calendar` the transaction that makes events and the
  thread that should update them; `CalendarMonths` the pages of the calendar, with
  the years at either end and the error that December of 9999 is answered with; `AccessRequests` the limiter in ticks of its window;
  `PriorCredentials` records with the image beside each.

## Runs

| Run | Instances | What it shows |
|---|---|---|
| `seats` | 1 student, 2 concurrent requests, free and auditable paid course, coupons of 50 and 100 %, 1 edit, 1 crash | the invariants of a sale under every interleaving, and that completed payments are final |
| `serial` | 1 student, 1 request at a time, 2 orders, 3 edits, 1 crash | retries and crashes alone book nothing twice, take no seat away and give none without a payment; the coupon's count is exact while nothing died |
| `pages` | 1 course and the catalog, a member and an anonymous visitor, 1 page request, 1 writer, 2 edits, 1 enrollment, 1 refused bump, 1 lost counter | `PageAnswersRequest`; `CourseEditIsVisible` while no counter is lost |
| `remote` | overlapping calls of two ids, with crashes and lost answers | the refinement, and that log and answers are true |
| `learning` | `seguido` two requests on two resources and an evaluation; `caido` one of two dies; `editado` the instructor changes the course twice; `evaluado` two evaluations, three attempts; `pagado` two payments of a program at once; `cambiado` an administrator changes program and code; `instalado`, `redactado` the shipped templates and two written ones | certificates are earned, kept and not forgotten, attempts stay within the limit, programs are enrolled in as a whole |
| `teaching` | `numerado`, `editado`, `calificado`, `practicado` banks of up to three questions; `ordenado` one request from an empty course to three resources; `bloqueado` two requests under row locks on three sections; `archivado` two forms of any type, one may die; `presentado` up to three slides; `subido`, `caido` two files and two contents, in `subido` two requests that do not die | order, navigation, files beside rows, final scores, saved slides |
| `community` | `foro`, `hilo`, `hilo_cruzado`, `moderado`, `reportado`, `destacado`, `escritas`, `comentadas`, `leidas`, `cruzadas`, `sincronizadas`, `visitadas`: each one or two requests at a time, with a crash where the part has files or several commits | moderation agrees with what is shown, closed things are silent and closed courses are public only by their form, nobody's words are overwritten |
| `administration` | `acceso` a person and a bot at one address, whose process may die; `memoria` three bots, more than the limiter remembers; `credenciales` three requests on one record; `instalacion` dies twice; `dos_instalaciones`; `agenda`, `panel` two meetings and an evaluation; `meses` years around now and at both ends; `tasa` both backends | limits, setup, events, and the months that the calendar shows, with the one that it cannot |
| `in_the_end` | a part each of ten components under fairness, with the crashes that it survives | liveness: who waits is served, and the site settles |
| `resumed_discount` | 1 student, coupon of 50, fairness | violated: the list price that was captured is never booked |
| `enrolled` | 1 page request, 1 writer | violated: enrolling does not invalidate the member's pages |
| `forgotten` | `seguido` of `MCLearning` | violated: the last resource and the last evaluation, completed at once, leave no certificate |

**Bounds.** Constants named `Max...` bound what would grow for ever: requests
(`MaxOperaciones`), crashes, edits, rows of a kind, ticks. Sets of keys
(`PagoIds`, `Mensajes`, ...) bound the rows ever made; with no key left an insert
fails as any other database error does. Two requests are enough for every race
between two statements, because no statement looks at more than one other
transaction; three appear where an insert, a deletion and a review meet
(`credenciales`). Two orders and three payments are enough for a payment to be
made, retried, removed and made again; three sections, resources, slides or
options are the fewest with a middle one; three edits are the fewest that set a
generation back; limits of the rate limiters are 2 and 3 so that a window can be
full, overfull and empty again. `pages` explores one page request, and its
proofs cover any number. Students interact only through coupons, programs'
courses, threads and the community, so one suffices elsewhere. A cfg says
`CHECK_DEADLOCK FALSE` where these bounds end a behaviour.

**Fairness.** `MCInTheEnd` assumes, per part, what the code's scheduling gives:

- weak fairness of a request that was accepted (`Atiende`, `AtiendeUna`): a worker
  runs it to its end, or it is one of the `MaxCaidas` that die. For two requests on
  one row it is enough that one of them is run, because the database lets one of
  them through;
- weak fairness of the timeouts (`Caduca`): every page and counter is stored with
  one (`CACHE_DEFAULT_TIMEOUT`, 300 seconds, or what the view gives);
- strong fairness of repetitions (`Confirma`, `Insiste`): the browser repeats a
  confirmation while it fails. `paypal.js:144-192` does so three times; a student who keeps trying is
  assumed beyond that, as is a caller who repeats an API call whose answer was
  lost, and a student who keeps marking resources. Strong, because another
  request may occupy the worker in between.

No request of the forum dies in `in_the_end`: a process that ends between the commits of
a change of status leaves the course on the site, and nothing takes it off later.

Nothing is assumed of students who do not wait, of administrators, of instructors
or of PayPal. `tasa` is checked for the memory backend; in Redis a key can be
refused for ever (see below).

**Abstracted.** Texts, titles, dates and prices are a few values that the
properties tell apart; rendering, mail bodies, logs and translation are left out,
but for the places where the code parses what it has written (`Traducido`).

## Proofs

TLAPS proves what follows for any number of students, payments, courses, members,
rows, request ids and requests, from the assumptions named in the modules
(`TablesAssumption`, `ProgressAssumption`, `CommunityAssumption` and the like), which
say that keys are distinct from the null value and from each other, that limits and
prices are naturals, and of which values the texts of the code are. TLC evaluates
each of them in the runs. A theorem that needs more says so:

| Hypothesis | Meaning | Why it is needed |
|---|---|---|
| `UnaALaVez`, `UnaPeticion`, `Cardinality(Peticiones) = 1` | requests are served one at a time | overlapping requests break the property; *Disagreements* shows where |
| `SinEdiciones`, `Quieto` | the instructor changes no resource or evaluation; no administrator changes the program or removes a student | an edit can make what was earned, or paid for, no longer so |
| `SinEliminar` | no meeting or evaluation is deleted | its events go with it, those that a member was given among them |
| `Traducido` | the catalog translates the prefix of the payment's note consistently | the code parses what it has written |
| `OneWriter` | no two writing requests overlap | three overlapping edits set a generation back |

Every invariant that is not inductive has been strengthened, and each strengthening
was checked by TLC on the run it belongs to before it was proved. The proof that a step
keeps it has a step per action.

**`CourseSales_proofs`, first half: every property of the run `seats`.** The invariant
is `IInv`. None of its parts is inductive alone: a seat is paid because the request
that wrote it carried rows that are still there (`RequestKeepsItsRows`); those
are still there because rows are only added and keep their student, amount and
completion (`TablesGrow`); and that rows keep their types needs that requests
carry valid rows. The argument runs in four parts:

1. `TypeStep`: types, given `RequestKeepsItsRows`.
2. `NextGrows`: every step satisfies `TablesGrow`.
3. `RequestStep`: with `TablesGrow`, a step has to account only for the request
   it moves (`OneRequestMoves`).
4. `SeatStep`: a step either completes one payment and gives its student the row
   for it, or leaves seats and payments alone; `SeatIsPaidStep`,
   `PaymentBringsSeatStep`, `IndexStep` and `BookedStep` follow.

**`CourseSales_proofs`, second half: every property of the run `serial`.** With one
request at a time, what a request read stays as it read it until it writes. `SerialInv`
says what that gives: a pending payment comes from the payment page and knows no order
(`PendingIsPlain`), two payments never share an order (`OrdersDiffer`), and the student
that a request found without a seat has none, the payment it found pending is pending,
the order it did not find is not booked (`ReadIsCurrent`). For the coupon, `CountInv`
counts: uses are never more than the payments that used it, and as many while nothing
died and no request owes its count (`Debe`). The payment is committed before the coupon,
which makes of a crash a debt and never an excess: `CouponNotOvercounted` survives
crashes, `CouponUseCounted` is stated until one.

**`CoursePageCache_proofs`: the run `pages`.** `TypeOK` and `PageAnswersRequest` with
no further assumption, and `CourseEditIsVisible` under `OneWriter`. The property speaks
of pages in hand, and is not inductive: what matters is what a request could still
find. `Copias` collects the pages within reach, stored or in a request's hands, each
with its key; `Exigencias` the demands of the requests in flight. `VisibleInv` then
says:

1. every page meets every demand under the same scope and generation, and no key
   is ahead of its scope's generation (`PagesInv`);
2. a page of the current generation shows every invalidated edit
   (`StartKeepsVisible`);
3. once an edit in progress has ended a scope's generation, every page of the
   current one shows the edit (`WriterInv`), because the bump starts a generation
   that has no page yet (`BumpKeepsVisible`); when the edit ends, 2 still holds
   (`RosterKeepsVisible`).

Losing a counter ends all of this, and the property is stated until then:
`LossesStay` and `KeptInv` carry the invariant as long as `perdidas = 0`.

**`RemoteEnrollment_proofs`: the run `remote`.** Types, `LoggedIsEnrolled`,
`AnswerIsTrue` and `VerifiedStaysVerified`, and the refinement `ImplementsService`: the
initial states map to initial states, and every step is a step of the abstract service
(the commit of the log row) or leaves its variables alone. The invariant says of each
place in the handler which rows it has seen: the unique keys on the request id,
the mail and the pair of student and course make the commit fail whenever another
request came first, so that what was checked still holds when it is written.

**`CourseCompletion_proofs`.** The invariants build on each other:

- `SummaryInv`: a summary row is inserted by one request, stays once inserted and stays
  completed once completed, so that the request which issues a certificate has a
  completed row behind it (`CertificateHadCompletion`).
- `EarnedInv`: while the instructor changes nothing, what a request has counted as
  completed is. Marks are never taken back, so an old count errs on the safe side
  (`CertificadoMerecido`).
- `RollUpInv`: where every mark is there and no row says so, a request is still on its
  way that will see it. Two marks may race and each roll-up may miss the other's mark,
  but the one that counts last counts both (`CompletionNotLost`, while nothing died).
- `AttemptInv`, one request at a time: attempts made and requests pending against the
  limit, at the statement between the count and the insert (`TopeRespetado`,
  `ReaperturaUnica`).
- `ForgottenInv`, one request at a time: whoever has done everything has the
  certificate or is the student of the request in flight, at a place from which it
  leads to the certificate (`CertificateNotForgotten`). The run `forgotten` shows that
  two requests break it.

**`MCLearning_proofs`, first half: programs.** `Plan(j)` is `Programs` with the constants
of the record `j`, of which the theorems ask `ProgramsAssumption` only. `TypeOK` of `Programs` bounds the rows that only a lookup keeps
single by the requests that can have looked at once. It is not inductive: `CuposInv`
adds the requests that have looked and not yet written (`NothingTwice` is the case of
one). `PaidInv`, under `Quieto`: the courses a confirmation has read are those of the program,
and one that will not enroll the student found him enrolled (`AllOrNothing`). `SnapshotInv`, one request at a time: what the certificate is about to
list was completed when it was read and nothing has taken it away
(`SnapshotCompleted`).

**`MCLearning_proofs`, second half: every property of the run `learning`.** The parts are
instances of the components above, and what is proved of those carries over; `CoursesInv`,
`ProgramsInv` and `CertificatesInv` join them. That the installed templates show
their holder and no personal data (`ShowsHolder`, `PersonalData`) is computed from the
bodies of the templates.

**`MCTeaching_proofs`: every property of the run `teaching`.** The instances take their
sizes from constants, so that what is proved of each holds for banks, courses,
presentations and libraries of any size. `TeachingAssumption` asks no more of them than
that sets are finite where they are counted and no larger than the bounds of their
numbers, that `Nada` is no row, that one item is seeded for each evaluation, and that no
instructor writes an option with the English words that the code compares the key of a
true/false question with (`Anotados`). `TeachingInvariant` states what is inductive, and `TeachingInv` joins it under
`parte`:

| Part | Invariant | What it adds to the properties |
|---|---|---|
| `ordenado` | `OrdenInv`, `OrdenSola` | one request at a time: every resource has a section, a section's list has no gap unless the request in flight is about to number it again, and what the request has found is where it was found. That the next and previous page follow the order needs all lists at once (`OrdenCompleta`) |
| `bloqueado` | `OrdenInv`, `OrdenSujetas` | for any number of requests: a section that a move has found is locked by it and where it was found, so that a save exchanges two neighbours; no other request touches it (`OrdenRespeta`) |
| `numerado` | `BancoInv`, `NumeradoInv` | one form at a time: a question that is to be inserted comes after those that are there; a question that is to lose an option has three |
| `editado`, `calificado` | `BancoInv`, `TextosInv`, `DefectoInv` | for any number of forms: the page a student answers says what the bank was, and as long as `version` has not moved the answers on their way resolve to options that are there and grade as shown; a true/false question keeps the texts it came with |
| `practicado` | `BancoInv`, `PracticadoInv` | one question for each evaluation, whatever is edited |
| `presentado` | `SlidesInv` | the names of an editor's fields say where its row was on the page as loaded (`DeDonde`), editors have distinct rows, and each row and editor took a change |
| `archivado` | `ArchivadoInv` | a form that has saved a file and not yet the row has it on disk, in the set of the row's type, and an edit that overlaps cannot change the type |
| `subido` | `SubidoInv` | for any number of uploads and deletions, none of which dies: a file without a row has a request on its way that wrote it and will insert its row or remove it |
| `caido` | `CaidoInv`, `LoMismo` | one at a time, each row is paired with its file at every statement, and what was announced is on disk with its content, until a request dies |

`BancoInv` is the common part: rows of their types, options of questions that exist,
forms with what their next statement needs, and, between a page and the grading of its
answers, the bank as the page had it. The count of requests in flight bounds `version`.

**`MCCommunity_proofs`: every property of the run `community`.** One invariant per
component, for any number of requests, and where the code is right only for requests
that do not overlap a second one:

| Part | Invariant | What it adds to the properties |
|---|---|---|
| `CourseForum` | `ForoInv` | one request at a time: replies hang from first messages, what the request read of the course is the course, a request that publishes found it open, and a course with a forum is not self-paced |
| `Messages` | `HiloInv`, `UnHiloInv` | no two requests write one row; what a report writes differs from what it read by the report only; one at a time, what was read is as it was |
| `CommunityHub` | `HubInv`, `UnHubInv` | a decision and its event explain each other (`HubCambio`), a post reported after its last restore has a report open; one at a time, the post decided on is as it was read, so that the last events of the trail say how it is |
| `Blog` | `BlogInv`, `UnBlogInv` | a view or a count writes the slug and the status that it read, a view or a form the count that it read; one at a time, the count about to be written is that of the comments to be shown, and the list about to be stored has no banned post |
| `CustomPages` | `SitioInv`, `UnSitioInv` | slugs are of one page, what is corrected was found; one at a time, what the synchronisation read of each page is how it is |

`CommunityInv` joins them under `parte`. Trending scores count members
(`SpamIsWorthless`): a second reply of one member adds nobody to the set that is counted.

**`MCAdministration_proofs`: every property of the run `administration`.** The components
take their constants from a record `en`, and each theorem about a component holds of every
record that meets the component's assumption: any people, addresses, limits, windows,
requests, processes, meetings and bounds. `AdministrationInv` joins the invariants under
`parte` for the records of the run.

| Part | Invariant | What it adds to the properties |
|---|---|---|
| `acceso`, `memoria` | `AccesoInv` | what the limiter keeps of an address is the end of what it admitted (`Guardado`), and of an address that it has not forgotten the part that is gone is out of the window; so any admitted post and the one that many before it as the limit are further apart than the window (`Espaciados`), and the posts of a window are no more than the limit |
| `tasa` | `TasaInv` | a cut `a` divides the requests that were served: the newest `a` are counted, those before it were served before the timeout began, and there are none of these in memory and at most the limit in Redis (`TasaCorte`); what a request is to write stands for those that are counted |
| `credenciales` | `CredInv` | for any number of requests: ids of submissions are distinct, a flushed key is of no row and no other transaction, and until one dies a file has a row that nobody is removing or a request about to insert it (`Ficheros`) |
| `instalacion`, `dos_instalaciones` | `SetupInv` | of a process that found the database new, the rows of the commits that it is past are there (`Hechas`); one that is past the certificate templates, whose keys are unique, is the only one, and no row of its later commits is there (`Procesados`). References resolve because each row is given a place in the script (`Lugar`) and names only rows that the script inserts before it |
| `agenda`, `panel` | `AgendaInv`, `AgendaUna`, `AgendaServida` | a request makes events only of dates it has read; one at a time, only of sources that have none, and each date that was read is waiting, about to be made or has its event |
| `meses` | `MesInv` | an answer is the page of a month of a year that a date can have, with the links of that month, or the error, to a request that came to December of 9999 |

The script of the setup is a sequence of statements, with the examples or without, whose
length is never computed: each function of the code is shown to be a segment (`Tramo`)
from a place to another that needs and gives certain keys, and the segments are put together.

**Only model-checked.**

- Liveness (`WaitingIsOver`, `SiteSettles`, `CapturedOrderIsBooked`): out of the
  prover's reach, as is anything that speaks of what is enabled.
- What recursive definitions compute for every input.

## Disagreements met while modelling

What follows is where a doc, a comment, a message or a test of the repository says
one thing and the model of the code does another. Three are runs of their own
(`resumed_discount`, `enrolled`, `forgotten`), listed under `findings`. The others
were each met by TLC as a counterexample to the named property, in an instance of
the component that the sentence describes; the property is stated, with what it
quotes, at the end of the component's module, or in its body where it holds of
requests that do not overlap and the sentence speaks of ones that do. They are kept
here because they are why the properties of the passing runs are worded, and their
instances chosen, as they are. A line that names no property is about something that
should happen in the end.

**`CourseSales`**

- `CapturedOrderIsBooked`: A student who resumes a discounted pending payment is shown the list price; what PayPal then captures never matches the pending amount and is never booked. (vistas/paypal.py:579)
- `CouponUseCounted`: With the Brazilian catalog the prefix that marks a coupon in the payment's description is not found, and a paid coupon use is not counted. (vistas/paypal.py:419)
- `OrderBookedOnce`: Two confirmations of one order that overlap both find no payment with its id and book it twice. (vistas/paypal.py:344)
- `CouponLimitHeld`: The limit is tested when the price is quoted and counted when it is paid, so students with pending payments push a coupon over its limit. (db/__init__.py:1253)

**`CoursePageCache`**

- `EnrollmentIsVisible`: A member who looked at a course and then enrolled is shown the page from before: the invalidation deletes a key that no page is stored under. (cache.py:281)
- `CourseEditIsVisible`: Three edits of which one overlaps the other two: its late write sets the generation back, and pages it had retired are served again. (cache.py:197)

**`CourseCompletion`**

- `CertificateNotForgotten`: The last resource and the last evaluation are completed by two requests at once; each finds the other's half missing and no certificate is issued. (vistas/courses/helpers.py:276)
- `TopeRespetado`: Two submissions are counted before either is inserted: a student makes more attempts than the evaluation allows. (vistas/evaluations.py:134)
- `CompletionCoversRequired`: A resource made required after the enrollment is not counted for those enrolled before, so the course is recorded as completed without it. (vistas/courses/helpers.py:263)
- `CertificateExpires`: The certificate issued by the roll-up of a course with recertification has no expiry. (vistas/courses/helpers.py:223)
- `AuditNotCertified`: A student in audit mode completes the resources and is issued a certificate. (vistas/evaluation_helpers.py:150)

**`RemoteEnrollment`**

- `EnrolledMayEnter`: A student enrolled remotely in a course with a price, payment confirmed, is not let in. (vistas/public_api.py:220)
- `AlreadyEnrolledIsLive`: The API answers already_enrolled for a student who was removed from the course. (vistas/public_api.py:216)
- `AllLogged`: A request answered already_enrolled leaves no row in the log. (vistas/public_api.py:217)
- The invitation of a new user is lost with the mail or the worker, and no retry of the caller sends it again. (vistas/public_api.py:309)

**`ApiRateLimit`**

- `LimiteRespetado`: Two requests at once read one count and exceed the limit. (vistas/public_api.py:38)
- With Redis, a counter that expires between the read and the increment is created without a timeout: the key is refused for good. (cache.py:230)
- `RefusedOnlyAtLimit`: Each increment renews the timeout, so a slow caller is refused without having reached the limit in any window. (cache.py:238)

**`Programs`**

- `SnapshotCompleted`: A course added between the check and the certificate is listed in the certificate although the student never completed it. (vistas/programs.py:789)
- `DiplomaOnce`: Two requests of the program's page both issue its certificate. (vistas/programs.py:629)
- `EnrollmentCoversCourses`: A course added while a student enrolls is missed by both requests. (vistas/programs.py:358)
- `AdminEnrollsInCourses`: The administrative enrollment in a program enrolls in none of its courses. (vistas/programs.py:930)
- `AdminUnenrollsFromCourses`: The administrative unenrollment from a program leaves every course enrollment in force. (vistas/programs.py:1018)
- `PublicHasCourses`: The last course of a public program is removed and the program stays public. (vistas/programs.py:723)
- A second certificate of one course makes the page of the program fail for good, and its certificate is never issued. (db/tools.py:474)
- A student once removed from a course of the program pays the program and can never be enrolled. (vistas/programs.py:364)

**`CourseIndex`**

- `SectionsSequential`: The last section of a course is moved down and leaves a gap. (bi.py:63)
- `ResourcesSequential`: Two resources counted at the same time get the same index. (vistas/courses/resources.py:415)
- `SectionsDistinct`: Two moves under FOR UPDATE leave two sections with one index: a locked neighbour that moved is no longer seen. (bi.py:50)
- `NextCrossesSections`: The page after the last resource before an empty section is none, though resources follow. (db/tools.py:285)

**`CourseResources`**

- `EditTakesEffect`: An edit that restores the text it read writes nothing, and another edit committed in between stays. (vistas/courses/resources.py:656)
- `EveryResourceHasAPage`: A downloadable resource can be created and has no page. (vistas/courses/resources.py:139)
- `AdminPageShows`: A course with an external HTML resource has no administration page: the link to edit it names an endpoint that does not exist. (templates/learning/curso/admin.html:479)

**`Slideshow`**

- `SavedAsShown`: After a slide is removed the page's fields keep their old numbers, and the save loses the last slide. (templates/learning/resources_new/editar_slideshow.html:276)
- `UnseenSlidesStay`: A page opened before another one added a slide deletes that slide when it is saved. (vistas/courses/resources.py:1358)

**`CourseLibrary`**

- `AnnouncedHasFile`: The loser of two uploads of one name removes the file of the winner. (vistas/courses/resources.py:1678)
- `AnnouncedHasFile`: A deletion that dies after removing the file leaves a row without it. (vistas/courses/resources.py:1793)

**`CourseForum`**

- `FinalizedIsSilent`: The forum tests for a status that is spelled otherwise than the one that finalizes a course, and stays writable. (vistas/forum.py:175)
- `ToggleTakesOff`: The button that publishes a course never takes it off: that change is not committed. (bi.py:247)
- `ClosedThreadStaysAsItIs`: A reply whose check was made before the thread was closed is added to it. (vistas/forum.py:261)
- `PublicIsOpen`: One request is enough: the form of a course publishes a draft or a closed one (courses/base.py:230, 378; templates/learning/nuevo_curso.html:67-68). So does a publication that was checked before the course was closed. (bi.py:245)
- `SelfPacedHasNoForum`: Two edits of one course, each valid, leave a self-paced course with a forum. (vistas/courses/base.py:232)

**`Messages`**

- `ClosedIsFinal`: A student fixes a thread whose state was read before the staff closed it, and the thread is no longer closed. (vistas/messages.py:382)
- `ClosedIsSilent`: A reply whose check was made before the thread was closed is added to it. (vistas/messages.py:340)
- `ReportIsListed`: A second report of a message, made while the first one is resolved, writes its reason only and is never listed. (vistas/messages.py:419)

**`Certificates`**

- `CourseRenders`: A certificate issued on a 29th of February with the professional template cannot be shown. (db/certificates_templates.py:1689)
- `ProgramRenders`: The professional template for programs cannot be parsed, and its certificates cannot be shown. (db/certificates_templates.py:2085)
- `NamesMasterClass`: The certificate of a master class prints a blank where its name should be. (vistas/certificates.py:305)
- `UnknownIsBlank`: A template that calls a method of a personal field breaks the page. (vistas/certificates.py:69)
- `DocumentedIsPrinted`: The variables that the guide lists print blanks. (vistas/certificates.py:291)
- `AddedCanBeChosen`: A template that is added has no code and can never be chosen. (vistas/certificates.py:164)

**`CommunityHub`**

- `HiddenGetsNothing`: A reply whose check was made before the post was hidden is added to it. (vistas/comunidad.py:665)
- `TrailExplains`: A post is hidden and restored by overlapping requests; the restore writes no state, and its event is the last of a post that stays hidden. (vistas/comunidad.py:821)

**`DatabaseSetup`**

- `OneConfiguration`: Two processes start at once: the one that loses has inserted a second configuration before it fails. (db/tools.py:179)
- `AdministratorExists`: A setup that dies after the version row is never resumed, and the site is served without an administrator. (db/initial_data.py:102)
- `CopiesAreWhole`: A copy of the static files that dies after it created what it is recognised by is never finished. (db/initial_data.py:1673)
- `LogosInstalled`: With a data directory of its own, the logos of the default courses are copied from a directory that is filled later. (db/initial_data.py:172)
- `SamplesInstalled`: The logo of the example course creates the directory that the sample image needs to be new, and the image is never copied. (db/initial_data.py:162)
- `ResourcesLinked`: The indices of the example course skip one, and the resource after the gap is not reached. (db/initial_data.py:352)

**`Calendar`**

- `CalendarFollowsTheMeeting`: A meeting is moved, its update thread has no application context, and the events keep the old date. (calendar_utils.py:122)
- `EnrolledHaveEvents`: An enrollment that was paid for, or made by the API, has no events. (vistas/paypal.py:412)
- `EnrolledHaveEvents`: A meeting that is added later is in nobody's calendar. (vistas/courses/resources.py:886)
- `RemovedLoseEvents`: A member who is removed from the course keeps its events. (vistas/courses/base.py:771)
- `ExportAnswers`: The export of an event in a time zone other than UTC fails. (vistas/calendar.py:158)
- `OneEventPerDate`: An enrollment that is sent twice leaves two events for one meeting. (calendar_utils.py:63)
- `ServedHaveEvents`: Where two events for one meeting were left, a later enrollment fails on them and leaves no event for the new meetings. (calendar_utils.py:65)
- `ServedHaveEvents`: A meeting that is deleted while an enrollment makes its events takes those of the other meetings with it. (calendar_utils.py:109)

**`CalendarMonths`**

- `ViewAnswers`: December of 9999 passes the checks of the calendar and is answered with an error. (vistas/calendar.py:54)

**`CustomPages`**

- `EditedPagesAreKept`: A page that is edited between the synchronisation's read and its commit loses the edit. (db/initial_data.py:2380)
- `InactiveAreNotShown`: The answer of a page stays in the cache when its invalidation fails, or when a visitor stores it afterwards, and is shown while the page is inactive. (vistas/custom_pages.py:193)
- `InactiveAreNotShown`: A deletion invalidates before it deletes, and a visitor in between brings the page back to the cache. (vistas/custom_pages.py:169)
- `CorrectedAreShown`: A visitor who read the page before its correction stores the old one after the cache was emptied. (db/initial_data.py:2394)

**`AccessRequests`**

- `SentIsStored`: A person who corrects a form and sends it again at once is told that it was received, and it is dropped. (vistas/request_access.py:327)

**`PriorCredentials`**

- `DecisionIsTheReviewers`: Two reviews at once leave the decision of one under the name of the other. (vistas/prior_credentials.py:363)
- `CountIsComplete`: Filtered by another status, the page counts no verified credential. (vistas/prior_credentials.py:338)

**`QuestionBank`**

- `RightButtonCounts`: An instructor who works in English creates options that no button of a true/false question finds. (vistas/evaluations.py:176)
- `OrdersDistinct`: Two questions created at once get the same order. (vistas/profiles/instructor.py:467)
- `TwoOptionsRemain`: Two options deleted at once leave a question with one. (vistas/profiles/instructor.py:734)
- `BooleanHasTwo`: A multiple choice question that is turned into true/false keeps its four options. (vistas/profiles/instructor.py:543)
- `AnsweredStaysSeen`: Deleting one copy of an item makes the practice page forget that the member has answered it. (vistas/evaluations.py:361)
- `ResultsCanBeShown`: Deleting an option leaves attempts whose result page cannot be shown. (templates/evaluations/evaluation_result.html:104)

**`Blog`**

- `BannedIsNotServed`: The page of a banned post is served from the cache: the key that is deleted is not the key it is kept under. (vistas/blog.py:433)
- `CountIsVisible`: A flagged comment is not shown and still counted. (vistas/blog.py:202)
- `CountIsVisible`: Two comments at once are counted as one. (vistas/blog.py:175)
- `ViewsCounted`: Two views at once are counted as one. (vistas/blog.py:149)
- `OnlyAdminsRestore`: An author's form that was read before the ban hands the post in again. (vistas/blog.py:293)
- `TagsFollowTheForm`: A form that names other tags leaves the post with the tags it had. (vistas/blog.py:374)

Also met, and ruled out by no document: with two requests at once a stale
confirmation overwrites the reference of a payment completed for another order
(`BookedOrderStaysBooked`), a concurrent audit enrollment takes the place of a
payment on a live seat (`PaidSeatNotDowngraded`), a stale confirmation reopens a
removed student's seat (`SeatNeedsNewPayment`), and two coupon updates lose one
(`CouponNotOvercounted`). An administrator can never enroll again a student who was
removed: the insert is always refused. The index of an administrative enrollment is
made for the administrator (`CreateIndex`). A process that dies after an upload to the
library has saved its file leaves the file without a row, and a later upload may write
over it; one that dies between the commits of a change of status leaves a closed course
on the site. Overlapping or dying deletions of a section or a resource leave a gap in the
numbers. A member's mark of a completed resource
issues another certificate each time. A cleared cache counts from zero over pages
in flight, which the docstring of `_generacion` accepts.

Of `enrolled`: the test that pins the invalidation stores its pages under keys
without the generation, and the tests of the whole journey run without a cache. With
the suffix added, a page rendered before the enrollment and stored after the
deletion would still be served: deleting a key does not reach a rendering in flight,
which a bump of the generation does.

Two conditions on these: the forum and the messages are reached only where
`ENABLE_COURSE_COMMUNICATION` is on, which is not the default, and
`ResultsCanBeShown` is about the default template of the result page
(`templates/evaluations/evaluation_result.html`).

## Plan

Done: selling a course; the view cache; progress, evaluations and certificates;
programs; the external API and its refinement; authoring; forum, messages,
community, blog and pages; setup, calendar, access requests, prior credentials; the
composition of their liveness in `MCInTheEnd`; the proofs of sales, both halves, of the
view cache, of the external API and its refinement, of progress, evaluations, programs
and certificates, of authoring and the question bank, of what is written, and of the
administration: every safety property of every passing run.

Left: an abstract ledger that the serial sale implements.

## Not modelled

- **Master classes** (`vistas/masterclass.py`): a confirmation is one row under a
  unique key, and an edit one commit; there is no capacity, no payment and no step
  that another request could come between to anybody's harm. A reader may notice
  that the form refuses dates that have passed, so that a recording cannot be added
  after the event, though `db/__init__.py:1377` says "# After event". What its
  certificates print is in `Certificates`.
- **Mail** (`mail.py`): delivery in a background thread, with a log of what failed
  and no state. Where a mail before or after a commit matters, its sender is modelled.
- **Accounts, sessions and permissions** (`auth.py`, `session_config.py`,
  `vistas/users.py`): checks on one request, hashing, and sessions that
  Flask-Session keeps. Who may call an operation is part of its guard where a
  property tells roles apart (`Personal`, `Administradores`, `Autores`).
- **Announcements, contact, home, settings, themes, profiles, dashboards**: forms
  over single rows, one commit each, and rendering. What others depend on is
  modelled there: the catalog of the payments, the clear of the cache, the language
  of the pages, the copies of the themes.
- **Migrations, backup, command line, process setup**: run once, with the site
  stopped or before it serves. The setup that a start runs is `DatabaseSetup`.
- Inside modelled components: rendering; forms' texts; currency and the verification
  of an order with PayPal; calendar and mail side effects of a sale (the first are in
  `Calendar`); subtitles, slide and external-code pages and the taxonomy of a
  course; categories, tags and the deletion of a program; the key lists of cached
  program pages; cover images; the checks on uploaded files; the QR codes and the
  PDF engine; the age decay of the trending score; the limits on a member's posts,
  replies, likes and reports (`_limitado`, a window like that of `AccessRequests`);
  `cleanup_events_for_course_unenrollment`, which only tests call.
