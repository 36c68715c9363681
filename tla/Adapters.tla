------------------------------ MODULE Adapters ------------------------------
(***************************************************************************)
(* The adapters by supplier_id, as app/adapters/registry.py has them: the  *)
(* requests of each method and how the vehicles of an answer are read.     *)
(***************************************************************************)
EXTENDS XmlAdapters, JsonAdapters, TurevAdapters

GreenMotionAdapter == [search |-> GreenMotion_search_vehicles,
    reading |-> GreenMotion_parse_single_vehicle, locations |-> GreenMotion_get_locations,
    create |-> GreenMotion_create_booking, cancel |-> GreenMotion_cancel_booking]

Adapters == [
    green_motion |-> GreenMotionAdapter,
    usave |-> GreenMotionAdapter,
    locauto_rent |-> [search |-> Locauto_search_vehicles,
        reading |-> Locauto_parse_single_vehicle, locations |-> Locauto_get_locations,
        create |-> Locauto_create_booking, cancel |-> Locauto_cancel_booking],
    yesaway |-> [search |-> Yesaway_search_vehicles,
        reading |-> Yesaway_parse_vehicle, locations |-> Yesaway_get_locations,
        create |-> Yesaway_create_booking, cancel |-> Yesaway_cancel_booking],
    ok_mobility |-> [search |-> OkMobility_search_vehicles,
        reading |-> OkMobility_parse_single_vehicle, locations |-> OkMobility_get_locations,
        create |-> OkMobility_create_booking, cancel |-> OkMobility_cancel_booking],
    adobe_car |-> [search |-> AdobeCar_search_vehicles,
        reading |-> AdobeCar_parse_vehicle, locations |-> AdobeCar_get_locations,
        create |-> AdobeCar_create_booking, cancel |-> AdobeCar_cancel_booking],
    surprice |-> [search |-> Surprice_search_vehicles,
        reading |-> Surprice_parse_vehicle, locations |-> Surprice_get_locations,
        create |-> Surprice_create_booking, cancel |-> Surprice_cancel_booking],
    recordgo |-> [search |-> RecordGo_search_vehicles,
        reading |-> RecordGo_parse_acriss_vehicles, locations |-> RecordGo_get_locations,
        create |-> RecordGo_create_booking, cancel |-> RecordGo_cancel_booking],
    easirent |-> [search |-> Easirent_search_vehicles,
        reading |-> Easirent_parse_vehicle, locations |-> Easirent_get_locations,
        create |-> Easirent_create_booking, cancel |-> Easirent_cancel_booking],
    sicily_by_car |-> [search |-> SicilyByCar_search_vehicles,
        reading |-> SicilyByCar_parse_offer, locations |-> SicilyByCar_get_locations,
        create |-> SicilyByCar_create_booking, cancel |-> SicilyByCar_cancel_booking],
    click2rent |-> [search |-> Click2Rent_search_vehicles,
        reading |-> Click2Rent_build_vehicle, locations |-> Click2Rent_get_locations,
        create |-> Click2Rent_create_booking, cancel |-> Click2Rent_cancel_booking],
    wheelsys |-> [search |-> Wheelsys_search_vehicles,
        reading |-> Wheelsys_parse_vehicle, locations |-> Wheelsys_get_locations,
        create |-> Wheelsys_create_booking, cancel |-> Wheelsys_cancel_booking],
    renteon |-> [search |-> Renteon_search_vehicles,
        reading |-> Renteon_parse_vehicle, locations |-> Renteon_get_locations,
        create |-> Renteon_create_booking, cancel |-> Renteon_cancel_booking],
    internal |-> [search |-> Internal_search_vehicles,
        reading |-> Internal_parse_vehicle, locations |-> Internal_get_locations,
        create |-> Internal_create_booking, cancel |-> Internal_cancel_booking],
    favrica |-> [search |-> Favrica_search_vehicles,
        reading |-> Favrica_parse_vehicle, locations |-> Favrica_get_locations,
        create |-> Favrica_create_booking, cancel |-> Favrica_cancel_booking],
    emr |-> [search |-> Emr_search_vehicles,
        reading |-> Emr_parse_vehicle, locations |-> Emr_get_locations,
        create |-> Emr_create_booking, cancel |-> Emr_cancel_booking],
    xdrive |-> [search |-> XDrive_search_vehicles,
        reading |-> XDrive_parse_vehicle, locations |-> XDrive_get_locations,
        create |-> XDrive_create_booking, cancel |-> XDrive_cancel_booking]]

=============================================================================
