------------------------------- MODULE Sensors -------------------------------
(***************************************************************************)
(* PCLP2-sensor-management-unit: a vector of sensors is read from a file,  *)
(* power units before tires, and then commands analyse a sensor or clear   *)
(* the vector of sensors with values out of range.  A slot of the vector   *)
(* holds pointers to the two blocks of its sensor, here the number of the  *)
(* sensor in the file.  print changes nothing and is left out.             *)
(***************************************************************************)
EXTENDS Integers, Sequences, SequencesExt

CONSTANTS
    Units, Tires,    \* the data that the file gives to sensors of each kind
    MaxSensors       \* bound: sensors in the file

VARIABLES
    numberOfSensors, \* what the head of the file says
    sensors,         \* the vector: its slots in use
    data,            \* what the blocks of a sensor hold, by its number in the file
    live,            \* the sensors whose blocks are allocated
    vector,          \* the block of the vector: "allocated" or "freed"
    phase,           \* "reading", "commands" or "exited"
    fault            \* memory was freed twice, or used after it was freed

vars == <<numberOfSensors, sensors, data, live, vector, phase, fault>>

TIRE == 0
PMU == 1

\* One that reads zero sensors gets a vector too, of no bytes.
Init ==
    /\ numberOfSensors \in 0..MaxSensors
    /\ sensors = <<>> /\ data = <<>> /\ live = {}
    /\ vector = "allocated" /\ phase = "reading" /\ fault = FALSE

-----------------------------------------------------------------------------
\* get_list_of_sensors.  A power unit goes after the last one read so far, and
\* the tires behind it move one slot to the right.
Slots(kind) == {i \in DOMAIN sensors : data[sensors[i]].sensor_type = kind}
Slot(kind) ==
    IF kind = TIRE \/ Slots(TIRE) = {} THEN Len(sensors) + 1
    ELSE IF Slots(PMU) = {} THEN 1
    ELSE Max(Slots(PMU)) + 1

ReadSensor ==
    /\ phase = "reading" /\ Len(data) < numberOfSensors
    /\ \E read \in Units \cup Tires :
         /\ sensors' = InsertAt(sensors, Slot(read.sensor_type), Len(data) + 1)
         /\ data' = Append(data, read)
         /\ live' = live \cup {Len(data) + 1}
    /\ UNCHANGED <<numberOfSensors, vector, phase, fault>>

StartCommands ==
    /\ phase = "reading" /\ Len(data) = numberOfSensors /\ phase' = "commands"
    /\ UNCHANGED <<numberOfSensors, sensors, data, live, vector, fault>>

-----------------------------------------------------------------------------
\* operations.c: the two operations that change what a sensor holds.
Points(table, otherwise) ==
    IF \E row \in table : row[1] THEN (CHOOSE row \in table : row[1])[2] ELSE otherwise

tire_performance_score(tire) ==
    LET p == tire.pressure   t == tire.temperature   w == tire.wear_level
        score == Points({<<p >= 21 /\ p <= 26, 4>>, <<p >= 19 /\ p < 21, 2>>,
                         <<p > 26 /\ p <= 28, 3>>}, -1)
               + Points({<<t >= 80 /\ t <= 100, 4>>, <<t > 100 /\ t < 120, 3>>,
                         <<t > 60 /\ t < 80, 2>>}, -1)
               + Points({<<w >= 0 /\ w < 20, 4>>, <<w >= 20 /\ w < 40, 2>>,
                         <<w > 40 /\ w < 60, -1>>}, -2)
    IN  [tire EXCEPT !.performance_score = IF score > 10 THEN 10 ELSE IF score < 1 THEN 1 ELSE score]

pmu_regenerate_energy(unit) ==
    [unit EXCEPT !.energy_storage = Min({unit.energy_storage + unit.energy_regen, 100}),
                 !.energy_regen = 0]

Operate(sensor, operation) ==
    CASE operation = "tire_performance_score" -> tire_performance_score(sensor)
      [] operation = "pmu_regenerate_energy" -> pmu_regenerate_energy(sensor)
      [] OTHER -> sensor

analyze_sensor(i) ==
    /\ phase = "commands"
    /\ data' = [data EXCEPT ![sensors[i]] = FoldLeft(Operate, @, @.operations)]
    /\ UNCHANGED <<numberOfSensors, sensors, live, vector, phase, fault>>

-----------------------------------------------------------------------------
\* clear.  flag_assert on the values of a sensor (current and power consumption are
\* checked as voltage is, and left out).
Acceptable(sensor) ==
    IF sensor.sensor_type = PMU
    THEN /\ sensor.voltage \in 10..20 /\ sensor.energy_regen \in 0..100
         /\ sensor.energy_storage \in 0..100
    ELSE /\ sensor.pressure \in 19..28 /\ sensor.temperature \in 0..120
         /\ sensor.wear_level \in 0..100

Checked(list, i) == IF Acceptable(data[list[i]]) THEN list ELSE RemoveAt(list, i)

Kept_Ascending ==
    LET after[i \in 0..Len(sensors)] ==
            IF i = 0 THEN sensors
            ELSE IF i > Len(after[i - 1]) THEN after[i - 1] ELSE Checked(after[i - 1], i)
    IN  after[Len(sensors)]
\* The slots are looked at from the last to the first; those behind an erroneous
\* one move one slot to the left.
Kept ==
    LET after[i \in 1..Len(sensors) + 1] ==
            IF i > Len(sensors) THEN sensors ELSE Checked(after[i + 1], i)
    IN  after[1]

\* The vector is reallocated: to no bytes, which frees it.
clear_list_of_sensors ==
    /\ phase = "commands"
    /\ sensors' = Kept
    /\ live' = live \ (ToSet(sensors) \ ToSet(Kept))
    /\ numberOfSensors' = Len(Kept)
    /\ fault' = (vector = "freed")
    /\ vector' = IF Kept = <<>> THEN "freed" ELSE vector
    /\ UNCHANGED <<data, phase>>

-----------------------------------------------------------------------------
\* exit: the blocks of every sensor in the vector, then the vector.
FreeSensors == live \ ToSet(SubSeq(sensors, 1, numberOfSensors))

free_list_of_sensors ==
    /\ phase = "commands" /\ phase' = "exited"
    /\ live' = FreeSensors
    /\ fault' = (vector = "freed") /\ vector' = "freed"
    /\ sensors' = <<>> /\ UNCHANGED <<numberOfSensors, data>>

Next ==
    /\ ~fault
    /\ \/ ReadSensor \/ StartCommands
       \/ \E i \in DOMAIN sensors : analyze_sensor(i)
       \/ clear_list_of_sensors
       \/ free_list_of_sensors

Spec == Init /\ [][Next]_vars

-----------------------------------------------------------------------------
\* The sensors of a kind whose blocks are allocated, in the order of the file.
InFileOrder(kind) ==
    SelectSeq([s \in 1..Len(data) |-> s], LAMBDA s : s \in live /\ data[s].sensor_type = kind)

\* "PMU > Tire sensor" (README.md:18): the vector holds the power units and then
\* the tires, both in the order of the file: exactly those whose blocks are
\* allocated, so none is lost, none is freed while in use, and exit frees them all.
VectorHoldsSensors ==
    /\ sensors = InFileOrder(PMU) \o InFileOrder(TIRE)
    /\ phase = "commands" => Len(sensors) = numberOfSensors

\* A clear removes every erroneous sensor, also of several in a row, and no other.
ClearIsComplete ==
    clear_list_of_sensors => sensors' = SelectSeq(sensors, LAMBDA s : Acceptable(data[s]))
=============================================================================
